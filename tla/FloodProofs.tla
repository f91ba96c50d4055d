----------------------------- MODULE FloodProofs -----------------------------
(***************************************************************************)
(* Theorems about Flood, for every network, every number of searches and   *)
(* every size of the lists and caches.  Types and the bound on hops hold   *)
(* even if copies are processed again and again; that nobody answers twice *)
(* or becomes its own neighbor needs ids to be remembered (IdsRemembered). *)
(***************************************************************************)
EXTENDS Flood, FiniteSetTheorems, TLAPS

FloodInv ==
  /\ TypeOK
  /\ HopBound
  /\ \A n \in Node : IsFiniteSet(seen[n])

(* The queries that HopBound is about.                                     *)
BoundedQuery == {m \in Query : m.hops + m.ttl <= MaxTTL}

Answer == [from : Node, to : Node, id : Ids, items : SUBSET Items]
Entry == [id : Ids, expiry : Nat]

(* The invariant, one conjunct per variable.                               *)
ListsFit ==
  /\ nbrs \in [Node -> SUBSET Node]
  /\ \A n \in Node : Cardinality(nbrs[n]) <= MaxNeighbors

CachesFit ==
  /\ seen \in [Node -> SUBSET Entry]
  /\ \A n \in Node : IsFiniteSet(seen[n]) /\ Cardinality(seen[n]) <= MaxSeen

AggregatorsFit ==
  /\ agg \in [Node -> Seq(Items)]
  /\ \A n \in Node : Len(agg[n]) <= MaxResults

MessagesFit == queries \cup handling \subseteq BoundedQuery /\ answers \subseteq Answer

RestFits ==
  /\ results \in [Node -> SUBSET Items]
  /\ waiting \subseteq Node
  /\ clock \in 0 .. MaxTime
  /\ lost \in BOOLEAN

AllFit == ListsFit /\ CachesFit /\ AggregatorsFit /\ MessagesFit /\ RestFits

LEMMA InvParts == FloodInv <=> AllFit
<1>1. \A m \in Query : m.hops <= MaxTTL
  BY FloodAssumption DEF Query
<1> QED
  BY <1>1 DEF FloodInv, TypeOK, HopBound, BoundedQuery, Answer, Entry,
              AllFit, ListsFit, CachesFit, AggregatorsFit, MessagesFit, RestFits

-----------------------------------------------------------------------------
(* Lemmas about the lists, the caches and what is sent.                    *)

(* neighbors_add() keeps a list within its array.                          *)
LEMMA ListFits ==
  ASSUME NEW list \in SUBSET Node, Cardinality(list) <= MaxNeighbors,
         NEW peer \in Node
  PROVE  /\ WithNeighbor(list, peer) \in SUBSET Node
         /\ Cardinality(WithNeighbor(list, peer)) <= MaxNeighbors
<1>1. IsFiniteSet(list)
  BY FloodAssumption, FS_Subset
<1>2. /\ Cardinality(list) \in Nat
      /\ Cardinality(list \cup {peer}) \in
           {Cardinality(list), Cardinality(list) + 1}
  BY <1>1, FS_CardinalityType, FS_AddElement
<1> QED
  BY <1>2, FloodAssumption DEF WithNeighbor

(* check_and_register_query() keeps a cache within its array.              *)
LEMMA CacheFits ==
  ASSUME CachesFit, clock \in 0 .. MaxTime, NEW n \in Node, NEW id \in Ids
  PROVE  /\ Registered(n, id) \in SUBSET Entry
         /\ IsFiniteSet(Registered(n, id))
         /\ Cardinality(Registered(n, id)) <= MaxSeen
<1> DEFINE entry == [id |-> id, expiry |-> clock + Expiry]
<1>1. /\ seen[n] \in SUBSET Entry
      /\ IsFiniteSet(seen[n]) /\ Cardinality(seen[n]) <= MaxSeen
  BY DEF CachesFit
<1>2. /\ Valid(n) \subseteq seen[n]
      /\ IsFiniteSet(Valid(n)) /\ Cardinality(Valid(n)) <= Cardinality(seen[n])
  BY <1>1, FS_Subset DEF Valid
<1>3. /\ Cardinality(seen[n]) \in Nat /\ Cardinality(Valid(n)) \in Nat
      /\ IsFiniteSet(Valid(n) \cup {entry})
      /\ Cardinality(Valid(n) \cup {entry}) \in
           {Cardinality(Valid(n)), Cardinality(Valid(n)) + 1}
  BY <1>1, <1>2, FS_CardinalityType, FS_AddElement
<1>4. entry \in Entry
  BY FloodAssumption DEF Entry
<1>5. CASE Registered(n, id) = Valid(n)
  BY <1>1, <1>2, <1>3, <1>5, FloodAssumption
<1>6. CASE /\ Registered(n, id) = Valid(n) \cup {entry}
           /\ Cardinality(Valid(n)) < MaxSeen
  BY <1>1, <1>2, <1>3, <1>4, <1>6, FloodAssumption
<1> QED
  BY <1>5, <1>6 DEF Registered

(* Queries as the console builds them, or as they arrive.                  *)
AnyQuery == [id : Ids, term : Term, origin : Node, ttl : Nat, hops : Nat,
             from : Node, to : Node]

LEMMA BoundedAreQueries == BoundedQuery \subseteq AnyQuery
BY FloodAssumption DEF BoundedQuery, Query, AnyQuery

(* A query that is sent on has travelled one hop more and may travel one   *)
(* hop less; a TTL above the cap is cut before the first hop.              *)
LEMMA ForwardedBounded ==
  ASSUME NEW n \in Node, NEW list \in SUBSET Node, NEW m \in AnyQuery,
         m.hops = 0 \/ m.hops + m.ttl <= MaxTTL
  PROVE  Forwarded(n, m, list) \subseteq BoundedQuery
<1> DEFINE ttl == IF m.ttl > MaxTTL THEN MaxTTL ELSE m.ttl
           Copy(peer) == [m EXCEPT !.ttl = ttl - 1, !.hops = @ + 1,
                                   !.from = n, !.to = peer]
<1>1. Forwarded(n, m, list) =
        IF ttl <= 0 THEN {} ELSE {Copy(peer) : peer \in list}
  BY DEF Forwarded
<1>2. m.ttl \in Nat /\ m.hops \in Nat
  BY DEF AnyQuery
<1>3. /\ ttl \in Nat
      /\ ttl > 0 => /\ ttl - 1 \in 0 .. MaxTTL /\ m.hops + 1 \in 0 .. MaxTTL
                    /\ (m.hops + 1) + (ttl - 1) <= MaxTTL
  BY <1>2, FloodAssumption
<1> HIDE DEF ttl
<1>4. ASSUME ttl > 0, NEW peer \in list
      PROVE  Copy(peer) \in BoundedQuery
  BY <1>3, <1>4 DEF BoundedQuery, Query, AnyQuery
<1>5. ttl <= 0 \/ ttl > 0
  BY <1>3
<1> HIDE DEF Copy
<1> QED
  BY <1>1, <1>4, <1>5

(* The same for a query that was received.                                 *)
LEMMA SentOnBounded ==
  ASSUME NEW n \in Node, NEW list \in SUBSET Node, NEW m \in BoundedQuery
  PROVE  Forwarded(n, m, list) \subseteq BoundedQuery
<1>1. m \in AnyQuery /\ m.hops + m.ttl <= MaxTTL
  BY BoundedAreQueries DEF BoundedQuery
<1> QED
  BY <1>1, ForwardedBounded

(* It keeps its id and its origin.                                         *)
LEMMA SentOnKeeps ==
  ASSUME NEW n, NEW list, NEW m \in Query
  PROVE  \A l \in Forwarded(n, m, list) : l.id = m.id /\ l.origin = m.origin
<1> DEFINE ttl == IF m.ttl > MaxTTL THEN MaxTTL ELSE m.ttl
<1>1. Forwarded(n, m, list) \subseteq
        {[m EXCEPT !.ttl = ttl - 1, !.hops = @ + 1, !.from = n, !.to = peer] :
           peer \in list}
  BY DEF Forwarded
<1> HIDE DEF ttl
<1> QED
  BY <1>1 DEF Query

LEMMA AnswersTyped ==
  ASSUME NEW n \in Node, NEW m \in BoundedQuery
  PROVE  Answers(n, m) \subseteq Answer
<1>1. m.id \in Ids /\ m.origin \in Node /\ m.term \in Term
  BY DEF BoundedQuery, Query
<1>2. Found(n, m) \in SUBSET Items
  BY <1>1, FloodAssumption DEF Found, Item, Items
<1>3. \A k : kSubset(k, Found(n, m)) \subseteq SUBSET Items
  BY <1>2 DEF kSubset
<1>4. \A items \in SUBSET Items :
        [from |-> n, to |-> m.origin, id |-> m.id, items |-> items] \in Answer
  BY <1>1 DEF Answer
<1>5. Answers(n, m) =
        {[from |-> n, to |-> m.origin, id |-> m.id, items |-> items] :
           items \in kSubset(Min({Cardinality(Found(n, m)), MaxResults}), Found(n, m)) \ {{}}}
  BY DEF Answers
<1> QED
  BY <1>3, <1>4, <1>5

LEMMA QueryIdTyped ==
  ASSUME NEW n \in Node, clock \in 0 .. MaxTime
  PROVE  QueryId(n) \in Ids
BY FloodAssumption DEF QueryId, Ids

-----------------------------------------------------------------------------
(* The inductive invariant.                                                *)

LEMMA InitInv == Init => AllFit
<1> SUFFICES ASSUME Init PROVE AllFit
  OBVIOUS
<1>1. ListsFit
  BY FloodAssumption DEF Init, ListsFit
<1>2. IsFiniteSet({}) /\ Cardinality({}) = 0
  BY FS_EmptySet
<1>3. CachesFit
  BY <1>2, FloodAssumption DEF Init, CachesFit
<1>4. AggregatorsFit
  BY FloodAssumption DEF Init, AggregatorsFit
<1>5. MessagesFit
  BY DEF Init, MessagesFit
<1>6. RestFits
  <2>1. clock \in 0 .. MaxTime
    BY FloodAssumption DEF Init
  <2>2. results \in [Node -> SUBSET Items] /\ waiting \subseteq Node
    BY DEF Init
  <2>3. lost \in BOOLEAN
    BY DEF Init
  <2> QED
    BY <2>1, <2>2, <2>3 DEF RestFits
<1> QED
  BY <1>1, <1>3, <1>4, <1>5, <1>6 DEF AllFit

(* An id is registered in the cache of one client.                         *)
LEMMA RegisterFits ==
  ASSUME CachesFit, clock \in 0 .. MaxTime, NEW n \in Node, NEW id \in Ids,
         seen' = [seen EXCEPT ![n] = Registered(n, id)]
  PROVE  CachesFit'
<1>1. /\ Registered(n, id) \in SUBSET Entry
      /\ IsFiniteSet(Registered(n, id))
      /\ Cardinality(Registered(n, id)) <= MaxSeen
  BY CacheFits
<1> QED
  BY <1>1 DEF CachesFit

LEMMA SearchFits ==
  ASSUME AllFit, NEW n \in Node, NEW term \in Term, Search(n, term)
  PROVE  AllFit'
<1> DEFINE query == [id |-> QueryId(n), term |-> term, origin |-> n,
                     ttl |-> TTL, hops |-> 0, from |-> n, to |-> n]
           sent == Forwarded(n, query, nbrs[n])
<1>1. QueryId(n) \in Ids /\ nbrs[n] \in SUBSET Node
  BY QueryIdTyped DEF AllFit, RestFits, ListsFit
<1>2. sent \subseteq BoundedQuery
  <2>1. query \in AnyQuery /\ query.hops = 0
    BY <1>1, FloodAssumption DEF AnyQuery
  <2> HIDE DEF query
  <2> QED
    BY <1>1, <2>1, ForwardedBounded
<1>3. queries' \subseteq queries \cup sent /\ lost' \in BOOLEAN
  BY DEF Search, AllFit, RestFits
<1> HIDE DEF query, sent
<1>4. ListsFit'
  BY DEF Search, AllFit, ListsFit
<1>5. CachesFit'
  BY <1>1, RegisterFits DEF Search, AllFit, RestFits
<1>6. AggregatorsFit'
  BY FloodAssumption DEF Search, AllFit, AggregatorsFit
<1>7. MessagesFit'
  BY <1>2, <1>3 DEF Search, AllFit, MessagesFit
<1>8. RestFits'
  BY <1>3 DEF Search, AllFit, RestFits
<1> QED
  BY <1>4, <1>5, <1>6, <1>7, <1>8 DEF AllFit

LEMMA CollectFits ==
  ASSUME AllFit, NEW n \in Node, Collect(n)
  PROVE  AllFit'
<1>1. ToSet(agg[n]) \subseteq Items
  BY DEF ToSet, AllFit, AggregatorsFit
<1>2. RestFits'
  BY <1>1 DEF Collect, AllFit, RestFits
<1> QED
  BY <1>2 DEF Collect, AllFit, ListsFit, CachesFit, AggregatorsFit, MessagesFit

LEMMA DropFits ==
  ASSUME AllFit, NEW m \in queries, DropQuery(m)
  PROVE  AllFit'
<1>1. m.to \in Node /\ m.id \in Ids
  BY DEF AllFit, MessagesFit, BoundedQuery, Query
<1>2. CachesFit'
  BY <1>1, RegisterFits DEF DropQuery, AllFit, RestFits
<1> QED
  BY <1>2 DEF DropQuery, AllFit, ListsFit, AggregatorsFit, MessagesFit, RestFits

LEMMA AcceptFits ==
  ASSUME AllFit, NEW m \in queries, AcceptQuery(m)
  PROVE  AllFit'
<1>1. m.to \in Node /\ m.id \in Ids /\ m.origin \in Node
  BY DEF AllFit, MessagesFit, BoundedQuery, Query
<1>2. CachesFit'
  BY <1>1, RegisterFits DEF AcceptQuery, AllFit, RestFits
<1>3. ListsFit'
  <2>1. nbrs[m.to] \in SUBSET Node /\ Cardinality(nbrs[m.to]) <= MaxNeighbors
    BY <1>1 DEF AllFit, ListsFit
  <2>2. /\ WithNeighbor(nbrs[m.to], m.origin) \in SUBSET Node
        /\ Cardinality(WithNeighbor(nbrs[m.to], m.origin)) <= MaxNeighbors
    BY <1>1, <2>1, ListFits
  <2> QED
    BY <1>1, <2>2 DEF AcceptQuery, AllFit, ListsFit
<1> QED
  BY <1>2, <1>3 DEF AcceptQuery, AllFit, AggregatorsFit, MessagesFit, RestFits

LEMMA AnswerFits ==
  ASSUME AllFit, NEW m \in handling, AnswerQuery(m)
  PROVE  AllFit'
<1>1. m \in BoundedQuery /\ m.to \in Node
  BY DEF AllFit, MessagesFit, BoundedQuery, Query
<1>2. nbrs[m.to] \in SUBSET Node
  BY <1>1 DEF AllFit, ListsFit
<1>3. /\ Forwarded(m.to, m, nbrs[m.to]) \subseteq BoundedQuery
      /\ Answers(m.to, m) \subseteq Answer
  BY <1>1, <1>2, SentOnBounded, AnswersTyped
<1>4. /\ queries' \subseteq queries \cup Forwarded(m.to, m, nbrs[m.to])
      /\ answers' \subseteq answers \cup Answers(m.to, m)
      /\ lost' \in BOOLEAN
  BY DEF AnswerQuery, AllFit, RestFits
<1>5. MessagesFit'
  BY <1>3, <1>4 DEF AnswerQuery, AllFit, MessagesFit
<1>6. RestFits'
  BY <1>4 DEF AnswerQuery, AllFit, RestFits
<1> QED
  BY <1>5, <1>6 DEF AnswerQuery, AllFit, ListsFit, CachesFit, AggregatorsFit

LEMMA AddFits ==
  ASSUME AllFit, NEW m \in answers, NEW item \in m.items, AddResult(m, item)
  PROVE  AllFit'
<1> DEFINE left == [m EXCEPT !.items = m.items \ {item}]
<1>1. m \in Answer /\ m.to \in Node /\ item \in Items
  BY DEF AllFit, MessagesFit, Answer
<1>2. left \in Answer
  BY <1>1 DEF Answer
<1>3. AggregatorsFit'
  <2>1. agg[m.to] \in Seq(Items) /\ Len(agg[m.to]) <= MaxResults
    BY <1>1 DEF AllFit, AggregatorsFit
  <2>2. Added(agg[m.to], item) \in Seq(Items) /\ Len(Added(agg[m.to], item)) <= MaxResults
    BY <1>1, <2>1, FloodAssumption DEF Added
  <2> QED
    BY <1>1, <2>2 DEF AddResult, AllFit, AggregatorsFit
<1>4. answers' \subseteq answers \cup {left}
  BY DEF AddResult
<1> HIDE DEF left
<1>5. MessagesFit'
  BY <1>2, <1>4 DEF AddResult, AllFit, MessagesFit
<1> QED
  BY <1>3, <1>5 DEF AddResult, AllFit, ListsFit, CachesFit, RestFits

LEMMA StepInv == AllFit /\ [Next]_vars => AllFit'
<1> SUFFICES ASSUME AllFit, [Next]_vars PROVE AllFit'
  OBVIOUS
<1>1. CASE \E n \in Node, term \in Term : Search(n, term)
  BY <1>1, SearchFits
<1>2. CASE \E n \in Node : Collect(n)
  BY <1>2, CollectFits
<1>3. CASE \E m \in queries : DropQuery(m)
  BY <1>3, DropFits
<1>4. CASE \E m \in queries : AcceptQuery(m)
  BY <1>4, AcceptFits
<1>5. CASE \E m \in handling : AnswerQuery(m)
  BY <1>5, AnswerFits
<1>6. CASE \E m \in answers : \E item \in m.items : AddResult(m, item)
  BY <1>6, AddFits
<1>7. CASE Tick
  BY <1>7, FloodAssumption DEF Tick, AllFit, ListsFit, CachesFit, AggregatorsFit,
                              MessagesFit, RestFits
<1>8. CASE UNCHANGED vars
  BY <1>8 DEF vars, AllFit, ListsFit, CachesFit, AggregatorsFit, MessagesFit, RestFits
<1> QED
  BY <1>1, <1>2, <1>3, <1>4, <1>5, <1>6, <1>7, <1>8 DEF Next, Handle

LEMMA Invariant == Spec => []FloodInv
BY InitInv, StepInv, InvParts, PTL DEF Spec

-----------------------------------------------------------------------------
(* Every variable of the flood keeps its type, and neighbor lists, caches  *)
(* of seen ids and aggregators never exceed their arrays, however many     *)
(* queries and answers arrive in whatever order (neighbors_add(),          *)
(* check_and_register_query(), aggregator_add()).                          *)
THEOREM FloodTypes == Spec => []TypeOK
BY Invariant, PTL DEF FloodInv

(* A query makes at most P2P_MAX_TTL hops on every network, also when full *)
(* or expired caches let its copies be processed again and again: what     *)
(* flood_forward_query() sends on is the copy with the smaller TTL.        *)
THEOREM HopsBounded == Spec => []HopBound
BY Invariant, PTL DEF FloodInv

-----------------------------------------------------------------------------
(* While ids are remembered.  A client's cache has room for the id of      *)
(* every search, and no id expires.                                        *)

IdsRemembered ==
  /\ Expiry > MaxTime
  /\ \A net \in Networks : net.searches <= MaxSeen

IssuedIds == {i.id : i \in issued}

(* Every cache holds ids of searches, each of them once and for good.      *)
CachesRemember ==
  /\ network \in Networks
  /\ IsFiniteSet(issued) /\ Cardinality(issued) <= network.searches
  /\ \A n \in Node : \A s \in seen[n] : s.expiry > MaxTime /\ s.id \in IssuedIds
  /\ \A n \in Node : \A s, t \in seen[n] : s.id = t.id => s = t

(* The origin of a query knows its id.                                     *)
OriginsKnow ==
  \A m \in queries \cup handling : m.id \in IssuedIds /\ Known(m.origin, m.id)

(* Items that a client has answered, or is about to.                       *)
Handled(n, id) == \E m \in handling : m.to = n /\ m.id = id
Sent(item) == \E a \in answers : item \in a.items
Listed(n, item) == \E k \in DOMAIN agg[n] : agg[n][k] = item

AnsweredOnce ==
  /\ \A m, l \in handling : m.to = l.to /\ m.id = l.id => m = l
  /\ \A a, b \in answers : a.from = b.from /\ a.id = b.id => a = b
  /\ \A m \in handling : Known(m.to, m.id)
  /\ \A a \in answers :
       /\ Known(a.from, a.id) /\ ~Handled(a.from, a.id)
       /\ \A item \in a.items : item.owner = a.from /\ item.id = a.id
  /\ \A n \in Node : \A k \in DOMAIN agg[n] :
       /\ Known(agg[n][k].owner, agg[n][k].id)
       /\ ~Handled(agg[n][k].owner, agg[n][k].id)
       /\ ~Sent(agg[n][k])

Remembering ==
  /\ AllFit
  /\ CachesRemember
  /\ OriginsKnow
  /\ AnsweredOnce
  /\ NeverOwnNeighbor
  /\ NoDuplicateResults

(* Nothing is purged, and a known id is exactly one that is not new.       *)
LEMMA NothingExpires ==
  ASSUME Remembering, NEW n \in Node
  PROVE  /\ Valid(n) = seen[n]
         /\ \A id : IsNew(n, id) <=> ~Known(n, id)
<1>1. \A s \in seen[n] : s.expiry \in Nat /\ s.expiry > MaxTime
  BY DEF Remembering, AllFit, CachesFit, Entry, CachesRemember
<1>2. clock \in 0 .. MaxTime
  BY DEF Remembering, AllFit, RestFits
<1>3. Valid(n) = seen[n]
  BY <1>1, <1>2, FloodAssumption DEF Valid
<1> QED
  BY <1>3 DEF IsNew, Known

(* There are at most as many ids as searches.                              *)
LEMMA FewIds ==
  ASSUME CachesRemember
  PROVE  /\ IsFiniteSet(IssuedIds) /\ Cardinality(IssuedIds) \in Nat
         /\ Cardinality(issued) \in Nat
         /\ Cardinality(IssuedIds) <= Cardinality(issued)
<1> DEFINE idOf == [i \in issued |-> i.id]
<1>1. idOf \in Surjection(issued, IssuedIds)
  BY DEF Surjection, IssuedIds
<1>2. IsFiniteSet(issued)
  BY DEF CachesRemember
<1>3. IsFiniteSet(IssuedIds) /\ Cardinality(IssuedIds) <= Cardinality(issued)
  BY <1>1, <1>2, FS_Surjection
<1> QED
  BY <1>2, <1>3, FS_CardinalityType

(* A set of entries with different ids is no larger than the set of ids.   *)
LEMMA EntriesFit ==
  ASSUME NEW ids, IsFiniteSet(ids), NEW entries,
         \A s \in entries : s.id \in ids,
         \A s, t \in entries : s.id = t.id => s = t
  PROVE  IsFiniteSet(entries) /\ Cardinality(entries) <= Cardinality(ids)
<1> DEFINE idOf == [s \in entries |-> s.id]
<1>1. idOf \in Injection(entries, ids)
  BY DEF Injection, IsInjective
<1> QED
  BY <1>1, FS_Injection

(* So a new id of a search always finds room, and from then on is known.   *)
LEMMA RegisteredKnown ==
  ASSUME Remembering, IdsRemembered, NEW n \in Node, NEW id,
         id \in IssuedIds \/ Cardinality(issued) < network.searches
  PROVE  /\ seen[n] \subseteq Registered(n, id)
         /\ \E s \in Registered(n, id) : s.id = id
         /\ \A s \in Registered(n, id) :
              s.expiry > MaxTime /\ (s.id \in IssuedIds \/ s.id = id)
         /\ \A s, t \in Registered(n, id) : s.id = t.id => s = t
<1> DEFINE entry == [id |-> id, expiry |-> clock + Expiry]
<1>1. /\ Valid(n) = seen[n]
      /\ \A s \in seen[n] : s.expiry > MaxTime /\ s.id \in IssuedIds
      /\ \A s, t \in seen[n] : s.id = t.id => s = t
  BY NothingExpires DEF Remembering, CachesRemember
<1>2. CASE ~IsNew(n, id)
  BY <1>1, <1>2 DEF IsNew, Registered
<1>3. CASE IsNew(n, id)
  <2>1. /\ \A s \in seen[n] : s.id # id
        /\ entry.id = id /\ entry.expiry > MaxTime
    <3>1. clock \in 0 .. MaxTime
      BY DEF Remembering, AllFit, RestFits
    <3> QED
      BY <1>1, <1>3, <3>1, FloodAssumption DEF IsNew, IdsRemembered
  <2> HIDE DEF entry
  <2>2. Cardinality(seen[n]) < MaxSeen
    <3>1. /\ network \in Networks /\ network.searches \in Nat
          /\ network.searches <= MaxSeen /\ Cardinality(issued) <= network.searches
      BY FloodAssumption DEF Remembering, CachesRemember, IdsRemembered
    <3>2. /\ IsFiniteSet(IssuedIds) /\ Cardinality(IssuedIds) \in Nat
          /\ Cardinality(issued) \in Nat
          /\ Cardinality(IssuedIds) <= Cardinality(issued)
      BY FewIds DEF Remembering
    <3>3. IsFiniteSet(seen[n]) /\ Cardinality(seen[n]) \in Nat
      BY FS_CardinalityType DEF Remembering, AllFit, CachesFit
    <3>4. CASE Cardinality(issued) < network.searches
      <4>1. Cardinality(seen[n]) <= Cardinality(IssuedIds)
        BY <1>1, <3>2, EntriesFit
      <4> QED
        BY <3>1, <3>2, <3>3, <3>4, <4>1, FloodAssumption
    <3>5. CASE id \in IssuedIds
      <4>1. Cardinality(seen[n] \cup {entry}) <= Cardinality(IssuedIds)
        <5>1. \A s \in seen[n] \cup {entry} : s.id \in IssuedIds
          BY <1>1, <2>1, <3>5
        <5>2. \A s, t \in seen[n] \cup {entry} : s.id = t.id => s = t
          BY <1>1, <2>1
        <5> QED
          BY <3>2, <5>1, <5>2, EntriesFit
      <4>2. Cardinality(seen[n] \cup {entry}) = Cardinality(seen[n]) + 1
        BY <2>1, <3>3, FS_AddElement
      <4> QED
        BY <3>1, <3>2, <3>3, <4>1, <4>2, FloodAssumption
    <3> QED
      BY <3>4, <3>5
  <2>3. Registered(n, id) = seen[n] \cup {entry}
    BY <1>1, <1>3, <2>2 DEF Registered, entry
  <2> QED
    BY <1>1, <2>1, <2>3
<1> QED
  BY <1>2, <1>3

(* Steps that send no query and answer none.                               *)
LEMMA RememberingSame ==
  ASSUME Remembering, AllFit',
         UNCHANGED <<network, nbrs, queries, handling, answers, agg, issued>>,
         UNCHANGED seen
  PROVE  Remembering'
BY DEF Remembering, CachesRemember, OriginsKnow, AnsweredOnce, NeverOwnNeighbor,
       NoDuplicateResults, Known, Handled, Sent, IssuedIds

LEMMA DropRemembers ==
  ASSUME Remembering, AllFit', NEW m \in queries, DropQuery(m)
  PROVE  Remembering'
<1>1. m.to \in Node
  BY DEF Remembering, AllFit, MessagesFit, BoundedQuery, Query
<1>2. Registered(m.to, m.id) = seen[m.to]
  BY <1>1, NothingExpires DEF DropQuery, Registered
<1>3. UNCHANGED seen
  BY <1>2 DEF DropQuery, Remembering, AllFit, CachesFit
<1> QED
  BY <1>3 DEF DropQuery, Remembering, CachesRemember, OriginsKnow, AnsweredOnce,
              NeverOwnNeighbor, NoDuplicateResults, Known, Handled, Sent, IssuedIds

(* A cache that registers an id forgets no other.                          *)
LEMMA RegisteringRemembers ==
  ASSUME Remembering, AllFit', IdsRemembered, NEW n \in Node, NEW id,
         id \in IssuedIds \/ Cardinality(issued) < network.searches,
         seen' = [seen EXCEPT ![n] = Registered(n, id)],
         IssuedIds \cup {id} \subseteq IssuedIds',
         network' = network,
         IsFiniteSet(issued') /\ Cardinality(issued') <= network.searches
  PROVE  /\ CachesRemember'
         /\ Known(n, id)'
         /\ \A p \in Node : \A i : Known(p, i) => Known(p, i)'
<1>1. /\ seen[n] \subseteq Registered(n, id)
      /\ \E s \in Registered(n, id) : s.id = id
      /\ \A s \in Registered(n, id) :
           s.expiry > MaxTime /\ (s.id \in IssuedIds \/ s.id = id)
      /\ \A s, t \in Registered(n, id) : s.id = t.id => s = t
  BY RegisteredKnown
<1>2. /\ DOMAIN seen = Node
      /\ seen'[n] = Registered(n, id)
      /\ \A p \in Node \ {n} : seen'[p] = seen[p]
  BY DEF Remembering, AllFit, CachesFit
<1>3. CachesRemember'
  BY <1>1, <1>2 DEF Remembering, CachesRemember
<1> QED
  BY <1>1, <1>2, <1>3 DEF Known

LEMMA SearchRemembers ==
  ASSUME Remembering, AllFit', IdsRemembered, NEW n \in Node, NEW term \in Term,
         Search(n, term)
  PROVE  Remembering'
<1> DEFINE query == [id |-> QueryId(n), term |-> term, origin |-> n,
                     ttl |-> TTL, hops |-> 0, from |-> n, to |-> n]
           made == [origin |-> n, term |-> term, id |-> QueryId(n),
                    nth |-> Cardinality(issued)]
           sent == Forwarded(n, query, nbrs[n])
<1>1. \A l \in sent : l.id = QueryId(n) /\ l.origin = n
  BY DEF Forwarded
<1>2. /\ queries' \subseteq queries \cup sent
      /\ issued' = issued \cup {made} /\ made.id = QueryId(n)
      /\ seen' = [seen EXCEPT ![n] = Registered(n, QueryId(n))]
      /\ Cardinality(issued) < network.searches /\ network' = network
      /\ UNCHANGED <<nbrs, handling, answers>>
  BY DEF Search
<1> HIDE DEF sent, query, made
<1>3. IsFiniteSet(issued') /\ Cardinality(issued') <= network.searches
  <2>1. IsFiniteSet(issued) /\ network.searches \in Nat
    BY FloodAssumption DEF Remembering, CachesRemember
  <2>2. /\ Cardinality(issued) \in Nat /\ IsFiniteSet(issued \cup {made})
        /\ Cardinality(issued \cup {made}) \in
             {Cardinality(issued), Cardinality(issued) + 1}
    BY <2>1, FS_CardinalityType, FS_AddElement
  <2> QED
    BY <1>2, <2>1, <2>2
<1>4. PICK id : id = QueryId(n)
  OBVIOUS
<1>5. IssuedIds' = IssuedIds \cup {id}
  BY <1>2, <1>4 DEF IssuedIds
<1>6. /\ CachesRemember'
      /\ Known(n, id)'
      /\ \A p \in Node : \A i : Known(p, i) => Known(p, i)'
  BY <1>2, <1>3, <1>5, <1>4, RegisteringRemembers
<1>7. OriginsKnow'
  <2>1. \A m \in queries \cup handling : m.origin \in Node
    BY DEF Remembering, AllFit, MessagesFit, BoundedQuery, Query
  <2> QED
    BY <1>1, <1>2, <1>5, <1>6, <1>4, <2>1 DEF Remembering, OriginsKnow
<1>8. \A p \in Node : agg'[p] = agg[p] \/ agg'[p] = <<>>
  BY DEF Search, Remembering, AllFit, AggregatorsFit
<1>9. AnsweredOnce'
  <2>1. /\ \A m \in handling : m.to \in Node
        /\ \A a \in answers : a.from \in Node
        /\ \A p \in Node : \A k \in DOMAIN agg[p] : agg[p][k].owner \in Node
    <3>1. \A p \in Node : \A k \in DOMAIN agg[p] : agg[p][k] \in Items
      BY DEF Remembering, AllFit, AggregatorsFit
    <3> QED
      BY <3>1 DEF Remembering, AllFit, MessagesFit, BoundedQuery, Query, Answer, Items
  <2>2. \A i, p : Handled(p, i)' <=> Handled(p, i)
    BY <1>2 DEF Handled
  <2>3. \A item : Sent(item)' <=> Sent(item)
    BY <1>2 DEF Sent
  <2>4. \A p \in Node : \A k \in DOMAIN agg'[p] : k \in DOMAIN agg[p] /\ agg'[p] = agg[p]
    BY <1>8
  <2> QED
    BY <1>2, <1>6, <2>1, <2>2, <2>3, <2>4 DEF Remembering, AnsweredOnce
<1>10. NeverOwnNeighbor' /\ NoDuplicateResults'
  BY <1>2, <1>8 DEF Remembering, NeverOwnNeighbor, NoDuplicateResults
<1> QED
  BY <1>6, <1>7, <1>9, <1>10 DEF Remembering

LEMMA AcceptRemembers ==
  ASSUME Remembering, AllFit', IdsRemembered, NEW m \in queries, AcceptQuery(m)
  PROVE  Remembering'
<1>1. m.to \in Node /\ m.origin \in Node
  BY DEF Remembering, AllFit, MessagesFit, BoundedQuery, Query
<1>2. ~Known(m.to, m.id) /\ m.id \in IssuedIds /\ Known(m.origin, m.id)
  BY <1>1, NothingExpires DEF AcceptQuery, Remembering, OriginsKnow
<1>3. /\ CachesRemember'
      /\ Known(m.to, m.id)'
      /\ \A p \in Node : \A i : Known(p, i) => Known(p, i)'
  <2>1. IsFiniteSet(issued') /\ Cardinality(issued') <= network.searches
    BY DEF AcceptQuery, Remembering, CachesRemember
  <2>2. IssuedIds \cup {m.id} \subseteq IssuedIds'
    BY <1>2 DEF AcceptQuery, IssuedIds
  <2> QED
    BY <1>1, <1>2, <2>1, <2>2, RegisteringRemembers DEF AcceptQuery
<1>4. /\ \A l \in handling : l.to \in Node /\ l.origin \in Node
      /\ \A l \in queries : l.origin \in Node
      /\ \A a \in answers : a.from \in Node
      /\ \A p \in Node : \A k \in DOMAIN agg[p] : agg[p][k].owner \in Node
  <2>1. \A p \in Node : \A k \in DOMAIN agg[p] : agg[p][k] \in Items
    BY DEF Remembering, AllFit, AggregatorsFit
  <2> QED
    BY <2>1 DEF Remembering, AllFit, MessagesFit, BoundedQuery, Query, Answer, Items
<1>5. OriginsKnow'
  <2>1. IssuedIds' = IssuedIds
    BY DEF AcceptQuery, IssuedIds
  <2> QED
    BY <1>3, <1>4, <2>1 DEF AcceptQuery, Remembering, OriginsKnow
<1>6. AnsweredOnce'
  <2>1. /\ handling' = handling \cup {m}
        /\ answers' = answers /\ agg' = agg
    BY DEF AcceptQuery
  <2>2. \A p, i : Handled(p, i)' <=> Handled(p, i) \/ (p = m.to /\ i = m.id)
    BY <2>1 DEF Handled
  <2>3. \A item : Sent(item)' <=> Sent(item)
    BY <2>1 DEF Sent
  <2>4. \A l \in handling : ~(l.to = m.to /\ l.id = m.id)
    BY <1>2 DEF Remembering, AnsweredOnce
  <2> QED
    BY <1>2, <1>3, <1>4, <2>1, <2>2, <2>3, <2>4 DEF Remembering, AnsweredOnce
<1>7. NeverOwnNeighbor'
  <2>1. m.origin # m.to
    BY <1>2
  <2>2. WithNeighbor(nbrs[m.to], m.origin) \subseteq nbrs[m.to] \cup {m.origin}
    BY DEF WithNeighbor
  <2> QED
    BY <1>1, <2>1, <2>2
       DEF AcceptQuery, Remembering, AllFit, ListsFit, NeverOwnNeighbor
<1>8. NoDuplicateResults'
  BY DEF AcceptQuery, Remembering, NoDuplicateResults
<1> QED
  BY <1>3, <1>5, <1>6, <1>7, <1>8 DEF Remembering

LEMMA AnswerRemembers ==
  ASSUME Remembering, AllFit', NEW m \in handling, AnswerQuery(m)
  PROVE  Remembering'
<1>1. /\ handling' = handling \ {m}
      /\ UNCHANGED <<network, nbrs, seen, agg, issued>>
  BY DEF AnswerQuery
<1>2. PICK answered \in {{}} \cup {{a} : a \in Answers(m.to, m)} :
        answers' = answers \cup answered
  BY DEF AnswerQuery
<1>3. \A a \in Answers(m.to, m) :
        /\ a.from = m.to /\ a.id = m.id
        /\ \A item \in a.items : item.owner = m.to /\ item.id = m.id
  <2>1. \A item \in Found(m.to, m) : item.owner = m.to /\ item.id = m.id
    BY DEF Found, Item
  <2>2. \A k : \A items \in kSubset(k, Found(m.to, m)) : items \subseteq Found(m.to, m)
    BY DEF kSubset
  <2>3. Answers(m.to, m) =
          {[from |-> m.to, to |-> m.origin, id |-> m.id, items |-> items] :
             items \in kSubset(Min({Cardinality(Found(m.to, m)), MaxResults}), Found(m.to, m))
                       \ {{}}}
    BY DEF Answers
  <2> QED
    BY <2>1, <2>2, <2>3
<1>4. /\ \A a, b \in answered : a = b
      /\ \A a \in answered :
           /\ a.from = m.to /\ a.id = m.id
           /\ \A item \in a.items : item.owner = m.to /\ item.id = m.id
  BY <1>2, <1>3
<1>5. /\ Handled(m.to, m.id) /\ Known(m.to, m.id)
      /\ \A p, i : Handled(p, i)' <=> Handled(p, i) /\ ~(p = m.to /\ i = m.id)
  BY <1>1 DEF Remembering, AnsweredOnce, Handled
<1>6. OriginsKnow'
  <2>0. m \in Query
    BY DEF Remembering, AllFit, MessagesFit, BoundedQuery
  <2>1. \A l \in queries' : l \in queries \/ (l.id = m.id /\ l.origin = m.origin)
    BY <2>0, SentOnKeeps DEF AnswerQuery
  <2> QED
    BY <1>1, <2>1 DEF Remembering, OriginsKnow, Known, IssuedIds
<1>7. AnsweredOnce'
  <2>1. \A p, i : Known(p, i)' <=> Known(p, i)
    BY <1>1 DEF Known
  <2>2. /\ \A l, k \in handling' : l.to = k.to /\ l.id = k.id => l = k
        /\ \A l \in handling' : Known(l.to, l.id)'
    BY <1>1, <2>1 DEF Remembering, AnsweredOnce
  <2>3. \A a \in answers : ~(a.from = m.to /\ a.id = m.id)
    BY <1>5 DEF Remembering, AnsweredOnce
  <2>4. \A a, b \in answers' : a.from = b.from /\ a.id = b.id => a = b
    BY <1>2, <1>4, <2>3 DEF Remembering, AnsweredOnce
  <2>5. \A a \in answers' :
          /\ Known(a.from, a.id)' /\ ~Handled(a.from, a.id)'
          /\ \A item \in a.items : item.owner = a.from /\ item.id = a.id
    BY <1>2, <1>4, <1>5, <2>1 DEF Remembering, AnsweredOnce
  <2>6. \A n \in Node : \A k \in DOMAIN agg'[n] :
          /\ Known(agg[n][k].owner, agg[n][k].id)'
          /\ ~Handled(agg[n][k].owner, agg[n][k].id)'
          /\ ~Sent(agg[n][k])'
    <3> SUFFICES ASSUME NEW n \in Node, NEW k \in DOMAIN agg[n]
                 PROVE  /\ Known(agg[n][k].owner, agg[n][k].id)'
                        /\ ~Handled(agg[n][k].owner, agg[n][k].id)'
                        /\ ~(\E a \in answers' : agg[n][k] \in a.items)
      BY <1>1 DEF Sent
    <3>1. /\ Known(agg[n][k].owner, agg[n][k].id)
          /\ ~Handled(agg[n][k].owner, agg[n][k].id)
          /\ ~Sent(agg[n][k])
      BY DEF Remembering, AnsweredOnce
    <3>2. \A a \in answered : agg[n][k] \notin a.items
      BY <1>4, <1>5, <3>1
    <3> QED
      BY <1>1, <1>2, <1>5, <2>1, <3>1, <3>2 DEF Sent
  <2> QED
    BY <2>2, <2>4, <2>5, <2>6 DEF AnsweredOnce
<1>8. CachesRemember' /\ NeverOwnNeighbor' /\ NoDuplicateResults'
  BY <1>1 DEF Remembering, CachesRemember, IssuedIds, NeverOwnNeighbor,
              NoDuplicateResults
<1> QED
  BY <1>6, <1>7, <1>8 DEF Remembering

LEMMA AddRemembers ==
  ASSUME Remembering, AllFit', NEW m \in answers, NEW item \in m.items,
         AddResult(m, item)
  PROVE  Remembering'
<1> DEFINE left == [m EXCEPT !.items = m.items \ {item}]
<1>1. /\ m \in Answer /\ m.to \in Node /\ item \in Items
      /\ item.owner = m.from /\ item.id = m.id
      /\ Known(m.from, m.id) /\ ~Handled(m.from, m.id)
  BY DEF Remembering, AllFit, MessagesFit, Answer, AnsweredOnce
<1>2. /\ left.from = m.from /\ left.id = m.id
      /\ left.items = m.items \ {item}
  BY <1>1 DEF Answer
<1>3. /\ \A a \in answers' : (a \in answers /\ a # m) \/ a = left
      /\ UNCHANGED <<network, nbrs, seen, queries, handling, issued>>
  BY DEF AddResult
<1> HIDE DEF left
<1>4. /\ \A p, i : Known(p, i)' <=> Known(p, i)
      /\ \A p, i : Handled(p, i)' <=> Handled(p, i)
  BY <1>3 DEF Known, Handled
<1>5. \A other : Sent(other)' => Sent(other) /\ other # item
  <2>1. \A a \in answers : a # m => item \notin a.items
    BY <1>1 DEF Remembering, AnsweredOnce
  <2> QED
    BY <1>2, <1>3, <2>1 DEF Sent
<1>6. \A n \in Node : \A k \in DOMAIN agg[n] : agg[n][k] # item
  BY DEF Remembering, AnsweredOnce, Sent
<1>7. /\ agg[m.to] \in Seq(Items) /\ agg'[m.to] = Added(agg[m.to], item)
      /\ \A n \in Node \ {m.to} : agg'[n] = agg[n]
  BY <1>1 DEF AddResult, Remembering, AllFit, AggregatorsFit
<1>8. /\ \A n \in Node : \A k \in DOMAIN agg'[n] :
           \/ k \in DOMAIN agg[n] /\ agg'[n][k] = agg[n][k]
           \/ n = m.to /\ k = Len(agg[n]) + 1 /\ agg'[n][k] = item
  <2>1. \A k \in DOMAIN Added(agg[m.to], item) :
          \/ k \in DOMAIN agg[m.to] /\ Added(agg[m.to], item)[k] = agg[m.to][k]
          \/ k = Len(agg[m.to]) + 1 /\ Added(agg[m.to], item)[k] = item
    BY <1>1, <1>7 DEF Added
  <2> QED
    BY <1>7, <2>1
<1>9. AnsweredOnce'
  <2>1. /\ \A l, k \in handling' : l.to = k.to /\ l.id = k.id => l = k
        /\ \A l \in handling' : Known(l.to, l.id)'
    BY <1>3, <1>4 DEF Remembering, AnsweredOnce
  <2>2. \A a, b \in answers' : a.from = b.from /\ a.id = b.id => a = b
    BY <1>2, <1>3 DEF Remembering, AnsweredOnce
  <2>3. \A a \in answers' :
          /\ Known(a.from, a.id)' /\ ~Handled(a.from, a.id)'
          /\ \A other \in a.items : other.owner = a.from /\ other.id = a.id
    BY <1>1, <1>2, <1>3, <1>4 DEF Remembering, AnsweredOnce
  <2>4. ASSUME NEW n \in Node, NEW k \in DOMAIN agg'[n]
        PROVE  /\ Known(agg[n][k].owner, agg[n][k].id)'
               /\ ~Handled(agg[n][k].owner, agg[n][k].id)'
               /\ ~Sent(agg[n][k])'
    <3>1. PICK it : it = agg'[n][k]
      OBVIOUS
    <3>2. Known(it.owner, it.id) /\ ~Handled(it.owner, it.id) /\ ~Sent(it)'
      <4>1. CASE k \in DOMAIN agg[n] /\ it = agg[n][k]
        BY <1>5, <4>1 DEF Remembering, AnsweredOnce
      <4>2. CASE it = item
        BY <1>1, <1>5, <4>2
      <4> QED
        BY <1>8, <3>1, <4>1, <4>2
    <3> QED
      BY <1>4, <3>1, <3>2
  <2> QED
    BY <2>1, <2>2, <2>3, <2>4 DEF AnsweredOnce
<1>10. NoDuplicateResults'
  BY <1>6, <1>8 DEF Remembering, NoDuplicateResults
<1>11. CachesRemember' /\ OriginsKnow' /\ NeverOwnNeighbor'
  BY <1>3 DEF Remembering, CachesRemember, OriginsKnow, Known, IssuedIds,
              NeverOwnNeighbor
<1> QED
  BY <1>9, <1>10, <1>11 DEF Remembering

LEMMA InitRemembers == Init => Remembering
<1> SUFFICES ASSUME Init PROVE Remembering
  OBVIOUS
<1>1. IsFiniteSet({}) /\ Cardinality({}) = 0
  BY FS_EmptySet
<1>2. network \in Networks /\ network.searches \in Nat
  BY FloodAssumption DEF Init
<1>3. CachesRemember
  BY <1>1, <1>2 DEF Init, CachesRemember
<1>4. OriginsKnow /\ AnsweredOnce /\ NoDuplicateResults
  BY DEF Init, OriginsKnow, AnsweredOnce, NoDuplicateResults
<1>5. NeverOwnNeighbor
  BY <1>2, FloodAssumption DEF Init, NeverOwnNeighbor
<1> QED
  BY <1>3, <1>4, <1>5, InitInv DEF Remembering

LEMMA StepRemembers ==
  ASSUME IdsRemembered
  PROVE  Remembering /\ [Next]_vars => Remembering'
<1> SUFFICES ASSUME Remembering, [Next]_vars PROVE Remembering'
  OBVIOUS
<1>0. AllFit'
  BY StepInv DEF Remembering
<1>1. CASE \E n \in Node, term \in Term : Search(n, term)
  BY <1>0, <1>1, SearchRemembers
<1>2. CASE \E n \in Node : Collect(n)
  BY <1>0, <1>2, RememberingSame DEF Collect
<1>3. CASE \E m \in queries : DropQuery(m)
  BY <1>0, <1>3, DropRemembers
<1>4. CASE \E m \in queries : AcceptQuery(m)
  BY <1>0, <1>4, AcceptRemembers
<1>5. CASE \E m \in handling : AnswerQuery(m)
  BY <1>0, <1>5, AnswerRemembers
<1>6. CASE \E m \in answers : \E item \in m.items : AddResult(m, item)
  BY <1>0, <1>6, AddRemembers
<1>7. CASE Tick
  BY <1>0, <1>7, RememberingSame DEF Tick
<1>8. CASE UNCHANGED vars
  BY <1>0, <1>8, RememberingSame DEF vars
<1> QED
  BY <1>1, <1>2, <1>3, <1>4, <1>5, <1>6, <1>7, <1>8 DEF Next, Handle

LEMMA AlwaysRemembering == ASSUME IdsRemembered PROVE Spec => []Remembering
BY InitRemembers, StepRemembers, PTL DEF Spec

(* While caches have room for every id and no id expires, a client         *)
(* processes a query once, whatever the number of paths to it: no result   *)
(* is listed twice (check_and_register_query(), flood_handle_message()).   *)
THEOREM NoDuplicates ==
  ASSUME IdsRemembered
  PROVE  Spec => []NoDuplicateResults
BY AlwaysRemembering, PTL DEF Remembering

(* Under the same condition a client that its own query comes back to drops *)
(* it before neighbors_add() sees its own address as the origin.           *)
THEOREM NotOwnNeighbor ==
  ASSUME IdsRemembered
  PROVE  Spec => []NeverOwnNeighbor
BY AlwaysRemembering, PTL DEF Remembering
=============================================================================
