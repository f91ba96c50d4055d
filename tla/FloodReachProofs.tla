--------------------------- MODULE FloodReachProofs ---------------------------
(***************************************************************************)
(* What a distributed search finds, for every network, TTL, cap and size   *)
(* of the aggregator: a flood that nothing was lost of reaches every       *)
(* client there is a path to, and the aggregator then has all their        *)
(* matching files, unless it is full.  As in the second half of            *)
(* FloodProofs, ids are remembered (IdsRemembered).  The last part, that   *)
(* floods run down, does without it.                                       *)
(***************************************************************************)
EXTENDS FloodProofs

(* The TTL a search starts with, after the cap.                            *)
Hops == IF TTL > MaxTTL THEN MaxTTL ELSE TTL

EnoughHops == TTL >= Cardinality(Node) - 1 /\ MaxTTL >= Cardinality(Node) - 1

(* The clients a flood has reached, and those a copy is on its way to.     *)
Reached(id) == {n \in Node : Known(n, id)}
Coming(n, id) == \E m \in queries : m.id = id /\ m.to = n

(* A search is known to the client that made it, has a number, and an id   *)
(* of that client.                                                         *)
SearchesKnown ==
  \A s \in issued :
    /\ s.origin \in Node /\ Known(s.origin, s.id)
    /\ s.nth \in Nat /\ s.nth < Cardinality(issued)
    /\ s.id[1] = s.origin

(* Every query on the way is a copy of a search.                           *)
FromSearches ==
  \A m \in queries \cup handling : \E s \in issued :
    s.id = m.id /\ s.term = m.term /\ s.origin = m.origin

(* A copy has made at most as many hops as there are clients that know its *)
(* id: every client it passed registered the id when it came first.        *)
HopsReached ==
  /\ \A m \in queries \cup handling : m.hops + m.ttl = Hops
  /\ \A m \in queries : m.hops <= Cardinality(Reached(m.id))
  /\ \A m \in handling : m.hops + 1 <= Cardinality(Reached(m.id))

(* Neighbors are added and never removed.                                  *)
ListsGrow ==
  /\ network \in Networks
  /\ \A n \in Node : network.nbrs[n] \subseteq nbrs[n]

(* A client that knows an id has sent it to all its neighbors, or is about *)
(* to; or its copy had no hop left, but then everybody knows the id.       *)
SentOn(n, id) ==
  \/ lost
  \/ Handled(n, id)
  \/ Node \subseteq Reached(id)
  \/ \A p \in network.nbrs[n] : Known(p, id) \/ Coming(p, id)

AllSentOn == \A n \in Node : \A id : Known(n, id) => SentOn(n, id)

Reaching ==
  /\ Remembering
  /\ SearchesKnown
  /\ FromSearches
  /\ HopsReached
  /\ ListsGrow
  /\ EnoughHops => AllSentOn

-----------------------------------------------------------------------------
(* Lemmas about the caches and the copies that are sent.                   *)

(* Registering an id adds that id to one cache, and nothing else.          *)
LEMMA RegisteredGrows ==
  ASSUME Remembering, IdsRemembered, NEW n \in Node, NEW id,
         id \in IssuedIds \/ Cardinality(issued) < network.searches,
         seen' = [seen EXCEPT ![n] = Registered(n, id)]
  PROVE  /\ Known(n, id)'
         /\ \A p \in Node : \A i : Known(p, i) => Known(p, i)'
         /\ \A p \in Node : \A i : Known(p, i)' => Known(p, i) \/ (p = n /\ i = id)
<1>1. /\ seen[n] \subseteq Registered(n, id)
      /\ \E s \in Registered(n, id) : s.id = id
  BY RegisteredKnown
<1>2. \A s \in Registered(n, id) : s \in seen[n] \/ s.id = id
  BY DEF Registered, Valid
<1>3. /\ seen'[n] = Registered(n, id)
      /\ \A p \in Node \ {n} : seen'[p] = seen[p]
  BY DEF Remembering, AllFit, CachesFit
<1> QED
  BY <1>1, <1>2, <1>3 DEF Known

(* Dropping a query changes no cache.                                      *)
LEMMA DropSame ==
  ASSUME Remembering, NEW m \in queries, DropQuery(m)
  PROVE  UNCHANGED seen /\ Known(m.to, m.id)
<1>1. m.to \in Node
  BY DEF Remembering, AllFit, MessagesFit, BoundedQuery, Query
<1>2. Known(m.to, m.id) /\ Registered(m.to, m.id) = seen[m.to]
  BY <1>1, NothingExpires DEF DropQuery, Registered
<1> QED
  BY <1>2 DEF DropQuery, Remembering, AllFit, CachesFit

LEMMA ReachedFinite ==
  \A id : IsFiniteSet(Reached(id)) /\ Cardinality(Reached(id)) \in Nat
<1> SUFFICES ASSUME NEW id
             PROVE  IsFiniteSet(Reached(id)) /\ Cardinality(Reached(id)) \in Nat
  OBVIOUS
<1>1. IsFiniteSet(Node) /\ Reached(id) \subseteq Node
  BY FloodAssumption DEF Reached
<1> QED
  BY <1>1, FS_Subset, FS_CardinalityType

LEMMA ReachedGrows ==
  ASSUME \A p \in Node : \A i : Known(p, i) => Known(p, i)'
  PROVE  \A i : /\ Reached(i) \subseteq Reached(i)'
                /\ Cardinality(Reached(i)') \in Nat
                /\ Cardinality(Reached(i)) <= Cardinality(Reached(i)')
<1> SUFFICES ASSUME NEW i
             PROVE  /\ Reached(i) \subseteq Reached(i)'
                    /\ Cardinality(Reached(i)') \in Nat
                    /\ Cardinality(Reached(i)) <= Cardinality(Reached(i)')
  OBVIOUS
<1>1. Reached(i) \subseteq Reached(i)' /\ Reached(i)' \subseteq Node
  BY DEF Reached
<1>2. IsFiniteSet(Reached(i)')
  BY <1>1, FloodAssumption, FS_Subset
<1> QED
  BY <1>1, <1>2, FS_Subset, FS_CardinalityType

(* As many clients as there are is every client.                           *)
LEMMA AllReached ==
  ASSUME NEW set, set \subseteq Node, Cardinality(set) >= Cardinality(Node)
  PROVE  Node \subseteq set
<1>1. IsFiniteSet(Node) /\ IsFiniteSet(set) /\ Cardinality(set) <= Cardinality(Node)
  BY FloodAssumption, FS_Subset
<1>2. Cardinality(Node) \in Nat /\ Cardinality(set) \in Nat
  BY <1>1, FS_CardinalityType
<1>3. Cardinality(Node) = Cardinality(set)
  BY <1>1, <1>2
<1> QED
  BY <1>1, <1>3, FS_Subset

(* One hop more and one less to go: the fields of the copies that          *)
(* flood_forward_query() sends, one for every neighbor while the TTL lasts. *)
LEMMA CopiesOf ==
  ASSUME NEW n, NEW list, NEW m \in AnyQuery
  PROVE  /\ \A l \in Forwarded(n, m, list) :
              /\ l.id = m.id /\ l.term = m.term /\ l.origin = m.origin
              /\ l.hops = m.hops + 1
              /\ l.ttl = (IF m.ttl > MaxTTL THEN MaxTTL ELSE m.ttl) - 1
         /\ m.ttl > 0 =>
              \A p \in list : \E l \in Forwarded(n, m, list) :
                l.id = m.id /\ l.to = p
<1> DEFINE ttl == IF m.ttl > MaxTTL THEN MaxTTL ELSE m.ttl
           Copy(peer) == [m EXCEPT !.ttl = ttl - 1, !.hops = @ + 1,
                                   !.from = n, !.to = peer]
<1>1. Forwarded(n, m, list) =
        IF ttl <= 0 THEN {} ELSE {Copy(peer) : peer \in list}
  BY DEF Forwarded
<1>2. m.ttl > 0 => ~(ttl <= 0)
  BY FloodAssumption DEF AnyQuery
<1> HIDE DEF ttl
<1>3. \A peer : /\ Copy(peer).id = m.id /\ Copy(peer).term = m.term
                /\ Copy(peer).origin = m.origin /\ Copy(peer).to = peer
                /\ Copy(peer).hops = m.hops + 1 /\ Copy(peer).ttl = ttl - 1
  BY DEF AnyQuery
<1> HIDE DEF Copy
<1>4. \A l \in Forwarded(n, m, list) : \E peer : l = Copy(peer)
  BY <1>1
<1>5. /\ \A l \in Forwarded(n, m, list) :
           /\ l.id = m.id /\ l.term = m.term /\ l.origin = m.origin
           /\ l.hops = m.hops + 1 /\ l.ttl = ttl - 1
      /\ m.ttl > 0 => \A p \in list : Copy(p) \in Forwarded(n, m, list)
  BY <1>1, <1>2, <1>3, <1>4
<1> QED
  BY <1>3, <1>5 DEF ttl

(* The steps that cannot undo SentOn.                                      *)
LEMMA SentOnKept ==
  ASSUME NEW n, NEW id, SentOn(n, id), network' = network,
         network.nbrs[n] \subseteq Node,
         lost => lost', Handled(n, id) => Handled(n, id)',
         \A p \in Node : \A i : Known(p, i) => Known(p, i)',
         \A p \in Node : Coming(p, id) => Coming(p, id)' \/ Known(p, id)'
  PROVE  SentOn(n, id)'
<1>1. Node \subseteq Reached(id) => Node \subseteq Reached(id)'
  BY DEF Reached
<1>2. \A p \in network.nbrs[n] :
        Known(p, id) \/ Coming(p, id) => Known(p, id)' \/ Coming(p, id)'
  OBVIOUS
<1> QED
  BY <1>1, <1>2 DEF SentOn

-----------------------------------------------------------------------------
(* Reaching is inductive: one lemma per action.                            *)

LEMMA InitReaches == Init => Reaching
<1> SUFFICES ASSUME Init PROVE Reaching
  OBVIOUS
<1>1. Remembering
  BY InitRemembers
<1>2. SearchesKnown /\ FromSearches /\ HopsReached
  BY DEF Init, SearchesKnown, FromSearches, HopsReached
<1>3. ListsGrow
  BY DEF Init, ListsGrow
<1>4. AllSentOn
  BY DEF Init, AllSentOn, Known
<1> QED
  BY <1>1, <1>2, <1>3, <1>4 DEF Reaching

LEMMA SearchReaches ==
  ASSUME Reaching, Remembering', IdsRemembered,
         NEW n \in Node, NEW term \in Term, Search(n, term)
  PROVE  Reaching'
<1> DEFINE query == [id |-> QueryId(n), term |-> term, origin |-> n,
                     ttl |-> TTL, hops |-> 0, from |-> n, to |-> n]
           made == [origin |-> n, term |-> term, id |-> QueryId(n),
                    nth |-> Cardinality(issued)]
           sent == Forwarded(n, query, nbrs[n])
<1>1. PICK id : id = QueryId(n)
  OBVIOUS
<1>2. query \in AnyQuery
  <2>1. QueryId(n) \in Ids
    BY QueryIdTyped DEF Reaching, Remembering, AllFit, RestFits
  <2> QED
    BY <2>1, FloodAssumption DEF AnyQuery
<1>3. /\ query.id = id /\ query.term = term /\ query.origin = n
      /\ query.ttl = TTL /\ query.hops = 0
      /\ made.id = id /\ made.term = term /\ made.origin = n
      /\ made.nth = Cardinality(issued) /\ made.id[1] = made.origin
  BY <1>1 DEF QueryId
<1>4. /\ queries \subseteq queries' /\ queries' \subseteq queries \cup sent
      /\ ~lost' => ~lost /\ sent \subseteq queries'
      /\ issued' = issued \cup {made}
      /\ seen' = [seen EXCEPT ![n] = Registered(n, id)]
      /\ Cardinality(issued) < network.searches
      /\ UNCHANGED <<network, nbrs, handling>>
  BY <1>1 DEF Search
<1> HIDE DEF query, made
<1>5. /\ \A l \in sent :
           /\ l.id = id /\ l.term = term /\ l.origin = n
           /\ l.hops = 0 + 1 /\ l.ttl = Hops - 1
      /\ TTL > 0 => \A p \in nbrs[n] : \E l \in sent : l.id = id /\ l.to = p
  BY <1>2, <1>3, CopiesOf DEF Hops
<1> HIDE DEF sent
<1>6. /\ Known(n, id)'
      /\ \A p \in Node : \A i : Known(p, i) => Known(p, i)'
      /\ \A p \in Node : \A i : Known(p, i)' => Known(p, i) \/ (p = n /\ i = id)
  BY <1>4, RegisteredGrows DEF Reaching
<1>7. /\ \A i : Cardinality(Reached(i)) \in Nat
      /\ \A i : /\ Cardinality(Reached(i)') \in Nat
                /\ Cardinality(Reached(i)) <= Cardinality(Reached(i)')
  BY <1>6, ReachedGrows, ReachedFinite
<1>8. Cardinality(Reached(id)') >= 1
  <2>1. n \in Reached(id)' /\ Reached(id)' \subseteq Node
    BY <1>6 DEF Reached
  <2>2. IsFiniteSet(Reached(id)')
    BY <2>1, FloodAssumption, FS_Subset
  <2> QED
    BY <1>7, <2>1, <2>2, FS_EmptySet
<1>9. SearchesKnown'
  <2>1. Cardinality(issued') = Cardinality(issued) + 1 /\ Cardinality(issued) \in Nat
    <3>1. IsFiniteSet(issued)
      BY DEF Reaching, Remembering, CachesRemember
    <3>2. made \notin issued
      BY <1>3, <3>1, FS_CardinalityType DEF Reaching, SearchesKnown
    <3> QED
      BY <1>4, <3>1, <3>2, FS_CardinalityType, FS_AddElement
  <2> QED
    BY <1>3, <1>4, <1>6, <2>1 DEF Reaching, SearchesKnown
<1>10. FromSearches'
  <2>1. \A m \in queries' \cup handling' :
          m \in queries \cup handling \/ m \in sent
    BY <1>4
  <2>2. \A m \in sent : made.id = m.id /\ made.term = m.term /\ made.origin = m.origin
    BY <1>3, <1>5
  <2> QED
    BY <1>4, <2>1, <2>2 DEF Reaching, FromSearches
<1>11. HopsReached'
  <2>1. Hops \in Nat
    BY FloodAssumption DEF Hops
  <2>2. \A m \in queries \cup handling :
          m.hops \in Nat
    BY FloodAssumption DEF Reaching, Remembering, AllFit, MessagesFit, BoundedQuery, Query
  <2>3. \A m \in queries' \cup handling' : m.hops + m.ttl = Hops
    BY <1>4, <1>5, <2>1 DEF Reaching, HopsReached
  <2>4. \A m \in queries' : m.hops <= Cardinality(Reached(m.id)')
    BY <1>4, <1>5, <1>7, <1>8, <2>2 DEF Reaching, HopsReached
  <2>5. \A m \in handling' : m.hops + 1 <= Cardinality(Reached(m.id)')
    BY <1>4, <1>7, <2>2 DEF Reaching, HopsReached
  <2> QED
    BY <2>3, <2>4, <2>5 DEF HopsReached, Reached, Known
<1>12. ListsGrow'
  BY <1>4 DEF Reaching, ListsGrow
<1>13. ASSUME EnoughHops PROVE AllSentOn'
  <2>1. SentOn(n, id)'
    <3>1. CASE TTL > 0
      <4>1. ~lost' => \A p \in network'.nbrs[n] : Coming(p, id)'
        BY <1>4, <1>5, <3>1 DEF Reaching, ListsGrow, Coming
      <4> QED
        BY <4>1 DEF SentOn
    <3>2. CASE ~(TTL > 0)
      <4>1. Cardinality(Node) \in Nat /\ Cardinality(Node) <= 1
        BY <1>13, <3>2, FloodAssumption, FS_CardinalityType DEF EnoughHops
      <4>2. Node \subseteq Reached(id)'
        <5>1. Reached(id)' \subseteq Node
          BY DEF Reached
        <5> QED
          BY <1>7, <1>8, <4>1, <5>1, AllReached
      <4> QED
        BY <4>2 DEF SentOn
    <3> QED
      BY <3>1, <3>2
  <2>2. ASSUME NEW p \in Node, NEW i, Known(p, i)
        PROVE  SentOn(p, i)'
    <3>1. SentOn(p, i)
      BY <1>13, <2>2 DEF Reaching, AllSentOn
    <3>2. network.nbrs[p] \subseteq Node
      BY FloodAssumption DEF Reaching, ListsGrow
    <3>3. /\ Handled(p, i) => Handled(p, i)'
          /\ \A q \in Node : Coming(q, i) => Coming(q, i)'
      BY <1>4 DEF Handled, Coming
    <3>4. network' = network /\ (lost => lost')
      BY <1>4
    <3> QED
      BY <1>6, <3>1, <3>2, <3>3, <3>4, SentOnKept
  <2> QED
    BY <1>6, <2>1, <2>2 DEF AllSentOn
<1> QED
  BY <1>9, <1>10, <1>11, <1>12, <1>13 DEF Reaching, EnoughHops

(* Steps that neither send a query nor answer one.                         *)
LEMMA ReachingSame ==
  ASSUME Reaching, Remembering',
         UNCHANGED <<network, nbrs, queries, handling, lost, issued>>,
         UNCHANGED seen
  PROVE  Reaching'
<1>1. /\ \A p, i : Known(p, i)' <=> Known(p, i)
      /\ \A p, i : Handled(p, i)' <=> Handled(p, i)
      /\ \A p, i : Coming(p, i)' <=> Coming(p, i)
      /\ \A i : Reached(i)' = Reached(i)
  BY DEF Known, Handled, Coming, Reached
<1>2. SearchesKnown' /\ FromSearches' /\ HopsReached' /\ ListsGrow'
  BY <1>1 DEF Reaching, SearchesKnown, FromSearches, HopsReached, ListsGrow
<1>3. \A p, i : SentOn(p, i)' <=> SentOn(p, i)
  BY <1>1 DEF SentOn
<1> QED
  BY <1>1, <1>2, <1>3 DEF Reaching, AllSentOn, EnoughHops

LEMMA DropReaches ==
  ASSUME Reaching, Remembering', NEW m \in queries, DropQuery(m)
  PROVE  Reaching'
<1>1. /\ UNCHANGED seen /\ Known(m.to, m.id)
      /\ queries' = queries \ {m}
      /\ UNCHANGED <<network, nbrs, handling, issued, lost>>
  BY DropSame DEF DropQuery, Reaching
<1>2. SearchesKnown' /\ FromSearches' /\ HopsReached' /\ ListsGrow'
  BY <1>1 DEF Reaching, SearchesKnown, FromSearches, HopsReached, ListsGrow,
              Reached, Known
<1>3. ASSUME EnoughHops PROVE AllSentOn'
  <2>1. \A p : \A i : Known(p, i)' <=> Known(p, i)
    BY <1>1 DEF Known
  <2>2. ASSUME NEW p \in Node, NEW i, Known(p, i)
        PROVE  SentOn(p, i)'
    <3>1. SentOn(p, i)
      BY <1>3, <2>2 DEF Reaching, AllSentOn
    <3>2. network.nbrs[p] \subseteq Node
      BY FloodAssumption DEF Reaching, ListsGrow
    <3>3. Handled(p, i) => Handled(p, i)'
      BY <1>1 DEF Handled
    <3>4. \A q \in Node : Coming(q, i) => Coming(q, i)' \/ Known(q, i)'
      BY <1>1, <2>1 DEF Coming
    <3> QED
      BY <1>1, <2>1, <3>1, <3>2, <3>3, <3>4, SentOnKept
  <2> QED
    BY <2>1, <2>2 DEF AllSentOn
<1> QED
  BY <1>2, <1>3 DEF Reaching, EnoughHops

LEMMA AcceptReaches ==
  ASSUME Reaching, Remembering', IdsRemembered, NEW m \in queries, AcceptQuery(m)
  PROVE  Reaching'
<1>1. /\ m.to \in Node /\ m.hops \in Nat
      /\ m.id \in IssuedIds
  BY DEF Reaching, Remembering, AllFit, MessagesFit, BoundedQuery, Query, OriginsKnow
<1>2. ~Known(m.to, m.id)
  BY <1>1, NothingExpires DEF AcceptQuery, Reaching
<1>3. /\ queries' = queries \ {m} /\ handling' = handling \cup {m}
      /\ seen' = [seen EXCEPT ![m.to] = Registered(m.to, m.id)]
      /\ nbrs' = [nbrs EXCEPT ![m.to] = WithNeighbor(@, m.origin)]
      /\ UNCHANGED <<network, issued, lost>>
  BY DEF AcceptQuery
<1>4. /\ Known(m.to, m.id)'
      /\ \A p \in Node : \A i : Known(p, i) => Known(p, i)'
      /\ \A p \in Node : \A i : Known(p, i)' =>
                                  Known(p, i) \/ (p = m.to /\ i = m.id)
  BY <1>1, <1>3, RegisteredGrows DEF Reaching
<1>5. \A i : /\ Cardinality(Reached(i)) \in Nat
             /\ Cardinality(Reached(i)') \in Nat
             /\ Cardinality(Reached(i)) <= Cardinality(Reached(i)')
  BY <1>4, ReachedGrows, ReachedFinite
<1>6. Cardinality(Reached(m.id)') = Cardinality(Reached(m.id)) + 1
  <2>1. m.to \notin Reached(m.id)
    BY <1>2 DEF Reached
  <2>2. Reached(m.id)' = Reached(m.id) \cup {m.to}
    BY <1>1, <1>4 DEF Reached
  <2> QED
    BY <2>1, <2>2, ReachedFinite, FS_AddElement
<1>7. SearchesKnown' /\ FromSearches'
  BY <1>3, <1>4 DEF Reaching, SearchesKnown, FromSearches
<1>8. HopsReached'
  <2>1. \A l \in queries \cup handling : l.hops \in Nat
    BY DEF Reaching, Remembering, AllFit, MessagesFit, BoundedQuery, Query
  <2>2. \A l \in queries' \cup handling' : l.hops + l.ttl = Hops
    BY <1>3 DEF Reaching, HopsReached
  <2>3. \A l \in queries' : l.hops <= Cardinality(Reached(l.id)')
    BY <1>3, <1>5, <2>1 DEF Reaching, HopsReached
  <2>4. \A l \in handling' : l.hops + 1 <= Cardinality(Reached(l.id)')
    BY <1>1, <1>3, <1>5, <1>6, <2>1 DEF Reaching, HopsReached
  <2> QED
    BY <2>2, <2>3, <2>4 DEF HopsReached, Reached, Known
<1>9. ListsGrow'
  BY <1>1, <1>3 DEF Reaching, ListsGrow, WithNeighbor, Remembering, AllFit, ListsFit
<1>10. ASSUME EnoughHops PROVE AllSentOn'
  <2>1. SentOn(m.to, m.id)'
    BY <1>3 DEF SentOn, Handled
  <2>2. ASSUME NEW p \in Node, NEW i, Known(p, i)
        PROVE  SentOn(p, i)'
    <3>1. SentOn(p, i)
      BY <1>10, <2>2 DEF Reaching, AllSentOn
    <3>2. network.nbrs[p] \subseteq Node
      BY FloodAssumption DEF Reaching, ListsGrow
    <3>3. Handled(p, i) => Handled(p, i)'
      BY <1>3 DEF Handled
    <3>4. \A q \in Node : Coming(q, i) => Coming(q, i)' \/ Known(q, i)'
      BY <1>3, <1>4 DEF Coming
    <3> QED
      BY <1>3, <1>4, <3>1, <3>2, <3>3, <3>4, SentOnKept
  <2> QED
    BY <1>4, <2>1, <2>2 DEF AllSentOn
<1> QED
  BY <1>7, <1>8, <1>9, <1>10 DEF Reaching, EnoughHops

LEMMA AnswerReaches ==
  ASSUME Reaching, Remembering', NEW m \in handling, AnswerQuery(m)
  PROVE  Reaching'
<1> DEFINE sent == Forwarded(m.to, m, nbrs[m.to])
<1>1. /\ m \in BoundedQuery /\ m \in AnyQuery
      /\ m.to \in Node /\ m.hops \in Nat /\ m.ttl \in Nat /\ m.ttl <= MaxTTL
  <2>1. m \in BoundedQuery
    BY DEF Reaching, Remembering, AllFit, MessagesFit
  <2> QED
    BY <2>1, BoundedAreQueries, FloodAssumption DEF BoundedQuery, Query
<1>2. /\ handling' = handling \ {m}
      /\ queries \subseteq queries' /\ queries' \subseteq queries \cup sent
      /\ ~lost' => ~lost /\ sent \subseteq queries'
      /\ UNCHANGED <<network, nbrs, seen, issued>>
  BY DEF AnswerQuery
<1>3. /\ \A l \in sent :
           /\ l.id = m.id /\ l.term = m.term /\ l.origin = m.origin
           /\ l.hops = m.hops + 1 /\ l.ttl = m.ttl - 1
      /\ m.ttl > 0 => \A p \in nbrs[m.to] : \E l \in sent : l.id = m.id /\ l.to = p
  BY <1>1, CopiesOf, FloodAssumption
<1> HIDE DEF sent
<1>4. /\ \A p, i : Known(p, i)' <=> Known(p, i)
      /\ \A i : Reached(i)' = Reached(i)
  BY <1>2 DEF Known, Reached
<1>5. SearchesKnown'
  BY <1>2, <1>4 DEF Reaching, SearchesKnown
<1>6. FromSearches'
  <2>1. \A l \in queries' \cup handling' :
          \/ l \in queries \cup handling
          \/ l.id = m.id /\ l.term = m.term /\ l.origin = m.origin
    BY <1>2, <1>3
  <2> QED
    BY <1>2, <2>1 DEF Reaching, FromSearches
<1>7. HopsReached'
  <2>1. \A l \in queries' \cup handling' : l.hops + l.ttl = Hops
    BY <1>1, <1>2, <1>3 DEF Reaching, HopsReached
  <2>2. \A l \in queries' : l.hops <= Cardinality(Reached(l.id))
    BY <1>2, <1>3 DEF Reaching, HopsReached
  <2>3. \A l \in handling' : l.hops + 1 <= Cardinality(Reached(l.id))
    BY <1>2 DEF Reaching, HopsReached
  <2> QED
    BY <1>4, <2>1, <2>2, <2>3 DEF HopsReached
<1>8. ListsGrow'
  BY <1>2 DEF Reaching, ListsGrow
<1>9. ASSUME EnoughHops PROVE AllSentOn'
  <2>1. SentOn(m.to, m.id)'
    <3>1. CASE m.ttl > 0
      <4>1. ~lost' => \A p \in network'.nbrs[m.to] : Coming(p, m.id)'
        BY <1>1, <1>2, <1>3, <3>1 DEF Reaching, ListsGrow, Coming
      <4> QED
        BY <4>1 DEF SentOn
    <3>2. CASE ~(m.ttl > 0)
      <4>1. m.hops = Hops /\ m.hops + 1 <= Cardinality(Reached(m.id))
        BY <1>1, <3>2 DEF Reaching, HopsReached
      <4>2. Cardinality(Node) \in Nat /\ Hops >= Cardinality(Node) - 1
        BY <1>9, FloodAssumption, FS_CardinalityType DEF EnoughHops, Hops
      <4>3. Cardinality(Reached(m.id)) >= Cardinality(Node)
        BY <1>1, <4>1, <4>2, ReachedFinite
      <4>4. Node \subseteq Reached(m.id)'
        <5>1. Reached(m.id) \subseteq Node
          BY DEF Reached
        <5> QED
          BY <1>4, <4>3, <5>1, AllReached
      <4> QED
        BY <4>4 DEF SentOn
    <3> QED
      BY <3>1, <3>2
  <2>2. ASSUME NEW p \in Node, NEW i, Known(p, i), ~(p = m.to /\ i = m.id)
        PROVE  SentOn(p, i)'
    <3>1. SentOn(p, i)
      BY <1>9, <2>2 DEF Reaching, AllSentOn
    <3>2. network.nbrs[p] \subseteq Node
      BY FloodAssumption DEF Reaching, ListsGrow
    <3>3. /\ Handled(p, i) => Handled(p, i)'
          /\ \A q \in Node : Coming(q, i) => Coming(q, i)'
      BY <1>2, <2>2 DEF Handled, Coming
    <3>4. network' = network /\ (lost => lost')
      BY <1>2
    <3> QED
      BY <1>4, <3>1, <3>2, <3>3, <3>4, SentOnKept
  <2> QED
    BY <1>4, <2>1, <2>2 DEF AllSentOn
<1> QED
  BY <1>5, <1>6, <1>7, <1>8, <1>9 DEF Reaching, EnoughHops

LEMMA StepReaches ==
  ASSUME IdsRemembered
  PROVE  Reaching /\ [Next]_vars => Reaching'
<1> SUFFICES ASSUME Reaching, [Next]_vars PROVE Reaching'
  OBVIOUS
<1>0. Remembering'
  BY StepRemembers DEF Reaching
<1>1. CASE \E n \in Node, term \in Term : Search(n, term)
  BY <1>0, <1>1, SearchReaches
<1>2. CASE \E n \in Node : Collect(n)
  BY <1>0, <1>2, ReachingSame DEF Collect
<1>3. CASE \E m \in queries : DropQuery(m)
  BY <1>0, <1>3, DropReaches
<1>4. CASE \E m \in queries : AcceptQuery(m)
  BY <1>0, <1>4, AcceptReaches
<1>5. CASE \E m \in handling : AnswerQuery(m)
  BY <1>0, <1>5, AnswerReaches
<1>6. CASE \E m \in answers : \E item \in m.items : AddResult(m, item)
  BY <1>0, <1>6, ReachingSame DEF AddResult
<1>7. CASE Tick
  BY <1>0, <1>7, ReachingSame DEF Tick
<1>8. CASE UNCHANGED vars
  BY <1>0, <1>8, ReachingSame DEF vars
<1> QED
  BY <1>1, <1>2, <1>3, <1>4, <1>5, <1>6, <1>7, <1>8 DEF Next, Handle

(* Nothing left to do: the clients that know the id are a set that no list *)
(* leads out of.                                                           *)
LEMMA ReachingReachesAll == Reaching => FloodReachesAll
<1> SUFFICES ASSUME Reaching, FloodOver, EnoughHops,
                    NEW s \in issued, NEW n \in Within(s.origin)
             PROVE  Known(n, s.id)
  BY DEF FloodReachesAll, EnoughHops
<1>1. s.origin \in Reached(s.id)
  BY DEF Reaching, SearchesKnown, Reached
<1>2. \A p \in Reached(s.id) : network.nbrs[p] \subseteq Reached(s.id)
  <2> SUFFICES ASSUME NEW p \in Reached(s.id)
               PROVE  network.nbrs[p] \subseteq Reached(s.id)
    OBVIOUS
  <2>1. SentOn(p, s.id) /\ network.nbrs[p] \subseteq Node
    BY FloodAssumption DEF Reaching, AllSentOn, Reached, ListsGrow
  <2>2. ~lost /\ ~Handled(p, s.id) /\ \A q : ~Coming(q, s.id)
    BY DEF FloodOver, Handled, Coming
  <2> QED
    BY <2>1, <2>2 DEF SentOn, Reached
<1>3. Reached(s.id) \in SUBSET Node
  BY DEF Reached
<1> QED
  BY <1>1, <1>2, <1>3 DEF Within, Reached

(* While caches remember ids and the TTL allows for as many hops as there  *)
(* are other clients, a flood of which nothing was lost and no copy is     *)
(* left is known to every client there is a path to from its origin,       *)
(* although check_and_register_query() drops all copies but the first,     *)
(* which may be the one with the fewest hops left.                         *)
THEOREM FloodReaches ==
  ASSUME IdsRemembered
  PROVE  Spec => []FloodReachesAll
<1>1. Spec => []Reaching
  BY InitReaches, StepReaches, PTL DEF Spec
<1> QED
  BY <1>1, ReachingReachesAll, PTL

-----------------------------------------------------------------------------
(* What becomes of the answers.                                            *)

Full(n) == Len(agg[n]) >= MaxResults

(* An answer that was cut off, and will fill the aggregator.               *)
WillFill(s, n) ==
  \E a \in answers : /\ a.from = n /\ a.id = s.id /\ a.to = s.origin
                     /\ Len(agg[s.origin]) + Cardinality(a.items) >= MaxResults

Pending(n, item) == \E a \in answers : a.to = n /\ item \in a.items

(* What a client that knows search s has done about it: each of its        *)
(* matches is listed or on its way, unless they are too many.              *)
Delivered(s, n) ==
  \/ lost
  \/ Handled(n, s.id)
  \/ Full(s.origin)
  \/ WillFill(s, n)
  \/ \A item \in Found(n, s) : Listed(s.origin, item) \/ Pending(s.origin, item)

(* The searches SearchComplete is about.                                   *)
Current(s) == s \in issued /\ ~Repeated(s) /\ s.id = current[s.origin]

AllDelivered ==
  \A s \in issued : Current(s) =>
    \A n \in Node \ {s.origin} : Known(n, s.id) => Delivered(s, n)

Delivering ==
  /\ Reaching
  /\ DOMAIN current = Node
  /\ \A a \in answers : IsFiniteSet(a.items)
  /\ AllDelivered

-----------------------------------------------------------------------------
(* Lemmas about what a client answers.                                     *)

(* The smaller one of two numbers.                                         *)
LEMMA MinOfTwo ==
  ASSUME NEW j \in Nat, NEW k \in Nat
  PROVE  /\ Min({j, k}) \in {j, k}
         /\ Min({j, k}) <= j /\ Min({j, k}) <= k
<1>1. \E x \in {j, k} : \A y \in {j, k} : x <= y
  <2>1. CASE j <= k
    BY <2>1
  <2>2. CASE k <= j
    BY <2>2
  <2> QED
    BY <2>1, <2>2
<1>2. /\ Min({j, k}) \in {j, k}
      /\ \A y \in {j, k} : Min({j, k}) <= y
  BY <1>1 DEF Min
<1> QED
  BY <1>2

(* A finite set has a subset of every smaller size.                        *)
LEMMA SubsetOfSize ==
  ASSUME NEW set, IsFiniteSet(set), NEW k \in Nat, k <= Cardinality(set)
  PROVE  \E sub \in SUBSET set : Cardinality(sub) = k
<1>1. Cardinality(set) \in Nat
  BY FS_CardinalityType
<1>2. PICK f \in Bijection(1 .. Cardinality(set), set) : TRUE
  BY FS_CardinalityType DEF ExistsBijection
<1> DEFINE sub == {f[i] : i \in 1 .. k}
<1>3. 1 .. k \subseteq 1 .. Cardinality(set)
  BY <1>1
<1>4. /\ f \in [1 .. Cardinality(set) -> set]
      /\ \A i, j \in 1 .. Cardinality(set) : f[i] = f[j] => i = j
  BY <1>2 DEF Bijection, Injection, IsInjective
<1>5. sub \subseteq set
  BY <1>3, <1>4
<1>6. [i \in 1 .. k |-> f[i]] \in Bijection(1 .. k, sub)
  <2>1. [i \in 1 .. k |-> f[i]] \in Injection(1 .. k, sub)
    BY <1>3, <1>4 DEF Injection, IsInjective
  <2>2. [i \in 1 .. k |-> f[i]] \in Surjection(1 .. k, sub)
    BY DEF Surjection
  <2> QED
    BY <2>1, <2>2 DEF Bijection
<1>7. IsFiniteSet(1 .. k) /\ Cardinality(1 .. k) = k
  BY FS_Interval
<1>8. Cardinality(sub) = k
  BY <1>6, <1>7, FS_Bijection DEF ExistsBijection
<1> QED
  BY <1>5, <1>8

(* An answer is complete, or as long as the array it is built in; there is *)
(* one whenever something matches.                                         *)
LEMMA AnswersFull ==
  ASSUME NEW n \in Node, NEW m
  PROVE  /\ Found(n, m) # {} => Answers(n, m) # {}
         /\ \A a \in Answers(n, m) :
              /\ a.from = n /\ a.id = m.id /\ a.to = m.origin
              /\ IsFiniteSet(a.items) /\ Cardinality(a.items) \in 1 .. MaxResults
              /\ a.items = Found(n, m) \/ Cardinality(a.items) = MaxResults
<1> DEFINE k == Min({Cardinality(Found(n, m)), MaxResults})
<1>1. IsFiniteSet(Found(n, m)) /\ Cardinality(Found(n, m)) \in Nat
  <2>1. IsFiniteSet(Holdings[n] \cap Matching[m.term])
    BY FloodAssumption, FS_Intersection
  <2> DEFINE itemOf == [f \in Holdings[n] \cap Matching[m.term] |-> Item(n, f, m.id)]
  <2>2. itemOf \in Surjection(Holdings[n] \cap Matching[m.term], Found(n, m))
    BY DEF Surjection, Found
  <2> QED
    BY <2>1, <2>2, FS_Surjection, FS_CardinalityType
<1>2. /\ k \in {Cardinality(Found(n, m)), MaxResults} /\ k \in Nat
      /\ k <= Cardinality(Found(n, m)) /\ k <= MaxResults
  BY <1>1, MinOfTwo, FloodAssumption
<1>3. Answers(n, m) =
        {[from |-> n, to |-> m.origin, id |-> m.id, items |-> items] :
           items \in kSubset(k, Found(n, m)) \ {{}}}
  BY DEF Answers, Found
<1> HIDE DEF k
<1>4. \A items \in kSubset(k, Found(n, m)) \ {{}} :
        /\ IsFiniteSet(items) /\ Cardinality(items) \in 1 .. MaxResults
        /\ items = Found(n, m) \/ Cardinality(items) = MaxResults
  <2> SUFFICES ASSUME NEW items \in SUBSET Found(n, m), Cardinality(items) = k,
                      items # {}
               PROVE  /\ IsFiniteSet(items) /\ Cardinality(items) \in 1 .. MaxResults
                      /\ items = Found(n, m) \/ Cardinality(items) = MaxResults
    BY DEF kSubset
  <2>1. IsFiniteSet(items) /\ Cardinality(items) # 0
    BY <1>1, FS_Subset, FS_EmptySet
  <2>2. Cardinality(items) \in 1 .. MaxResults
    BY <1>2, <2>1, FloodAssumption
  <2> QED
    BY <1>1, <1>2, <2>1, <2>2, FS_Subset
<1>5. ASSUME Found(n, m) # {} PROVE \E items \in kSubset(k, Found(n, m)) : items # {}
  <2>1. PICK items \in SUBSET Found(n, m) : Cardinality(items) = k
    BY <1>1, <1>2, SubsetOfSize
  <2>2. k # 0
    BY <1>1, <1>2, <1>5, FS_EmptySet, FloodAssumption
  <2> QED
    BY <2>1, <2>2, FS_EmptySet DEF kSubset
<1>6. Found(n, m) # {} => Answers(n, m) # {}
  BY <1>3, <1>5
<1>7. ASSUME NEW a \in Answers(n, m)
      PROVE  /\ a.from = n /\ a.id = m.id /\ a.to = m.origin
             /\ a.items \in kSubset(k, Found(n, m)) \ {{}}
  BY <1>3
<1> QED
  BY <1>4, <1>6, <1>7

-----------------------------------------------------------------------------
(* Delivering is inductive.                                                *)

(* Steps that leave the aggregator of the search alone.                    *)
LEMMA DeliveredKept ==
  ASSUME NEW s, NEW n, Delivered(s, n), lost => lost',
         Handled(n, s.id) => Handled(n, s.id)',
         agg'[s.origin] = agg[s.origin], answers \subseteq answers'
  PROVE  Delivered(s, n)'
<1>1. /\ Full(s.origin) => Full(s.origin)'
      /\ WillFill(s, n) => WillFill(s, n)'
      /\ \A item : Listed(s.origin, item) => Listed(s.origin, item)'
      /\ \A item : Pending(s.origin, item) => Pending(s.origin, item)'
      /\ Found(n, s)' = Found(n, s)
  BY DEF Full, WillFill, Listed, Pending, Found, Item
<1> QED
  BY <1>1 DEF Delivered

LEMMA DeliveringSame ==
  ASSUME Delivering, Reaching', queries' \subseteq queries,
         UNCHANGED <<handling, answers, agg, current, issued, lost>>,
         UNCHANGED seen
  PROVE  Delivering'
<1>1. /\ \A p, i : Known(p, i)' <=> Known(p, i)
      /\ \A p, i : Handled(p, i)' <=> Handled(p, i)
      /\ \A s : Current(s)' <=> Current(s)
  BY DEF Known, Handled, Current, Repeated
<1>2. AllDelivered'
  <2> SUFFICES ASSUME NEW s \in issued, Current(s),
                      NEW n \in Node \ {s.origin}, Known(n, s.id)
               PROVE  Delivered(s, n)'
    BY <1>1 DEF AllDelivered
  <2>1. Delivered(s, n)
    BY DEF Delivering, AllDelivered
  <2> QED
    BY <1>1, <2>1, DeliveredKept
<1> QED
  BY <1>2 DEF Delivering

LEMMA SearchDelivers ==
  ASSUME Delivering, Reaching', IdsRemembered,
         NEW o \in Node, NEW term \in Term, Search(o, term)
  PROVE  Delivering'
<1> DEFINE made == [origin |-> o, term |-> term, id |-> QueryId(o),
                    nth |-> Cardinality(issued)]
<1>1. PICK id : id = QueryId(o)
  OBVIOUS
<1>2. /\ made.id = id /\ made.origin = o /\ made.nth = Cardinality(issued)
      /\ issued' = issued \cup {made}
      /\ seen' = [seen EXCEPT ![o] = Registered(o, id)]
      /\ current' = [current EXCEPT ![o] = id]
      /\ agg' = [agg EXCEPT ![o] = <<>>]
      /\ lost => lost'
      /\ Cardinality(issued) < network.searches
      /\ UNCHANGED <<handling, answers>>
  BY <1>1 DEF Search
<1> HIDE DEF made
<1>3. \A p \in Node : \A i : Known(p, i)' => Known(p, i) \/ (p = o /\ i = id)
  BY <1>2, RegisteredGrows DEF Delivering, Reaching
<1>4. \A s \in issued : s # made
  <2>1. Cardinality(issued) \in Nat
    BY FS_CardinalityType DEF Delivering, Reaching, Remembering, CachesRemember
  <2> QED
    BY <1>2, <2>1 DEF Delivering, Reaching, SearchesKnown
<1>5. AllDelivered'
  <2> SUFFICES ASSUME NEW s \in issued', Current(s)',
                      NEW n \in Node \ {s.origin}, Known(n, s.id)'
               PROVE  Delivered(s, n)'
    BY DEF AllDelivered
  <2>1. \A t \in issued' : t # s => t.id # s.id
    BY DEF Current, Repeated
  <2>2. CASE s = made
    <3>1. Known(n, id) /\ \A t \in issued : t.id # id
      BY <1>2, <1>3, <1>4, <2>1, <2>2
    <3> QED
      BY <3>1 DEF Delivering, Reaching, Remembering, CachesRemember, IssuedIds, Known
  <2>3. CASE s \in issued
    <3>1. s.id # id
      BY <1>2, <1>4, <2>1, <2>3
    <3>2. s.origin # o /\ s.origin \in Node
      <4>1. s.id = current'[s.origin] /\ s.origin \in Node
        BY <1>2, <2>3 DEF Current, Delivering, Reaching, SearchesKnown
      <4>2. current'[o] = id
        BY <1>2 DEF Delivering
      <4> QED
        BY <3>1, <4>1, <4>2
    <3>3. agg'[s.origin] = agg[s.origin] /\ current'[s.origin] = current[s.origin]
      BY <1>2, <3>2
    <3>4. Known(n, s.id) /\ Current(s)
      BY <1>2, <1>3, <2>1, <2>3, <3>1, <3>3 DEF Current, Repeated
    <3>5. Delivered(s, n)
      BY <2>3, <3>4 DEF Delivering, AllDelivered
    <3>6. Handled(n, s.id) => Handled(n, s.id)'
      BY <1>2 DEF Handled
    <3> QED
      BY <1>2, <3>3, <3>5, <3>6, DeliveredKept
  <2> QED
    BY <1>2, <2>2, <2>3
<1> QED
  BY <1>2, <1>5 DEF Delivering

LEMMA AcceptDelivers ==
  ASSUME Delivering, Reaching', IdsRemembered, NEW m \in queries, AcceptQuery(m)
  PROVE  Delivering'
<1>1. m.to \in Node /\ m.id \in IssuedIds
  BY DEF Delivering, Reaching, Remembering, AllFit, MessagesFit, BoundedQuery, Query,
         OriginsKnow
<1>2. /\ handling' = handling \cup {m}
      /\ seen' = [seen EXCEPT ![m.to] = Registered(m.to, m.id)]
      /\ UNCHANGED <<answers, agg, current, issued, lost>>
  BY DEF AcceptQuery
<1>3. \A p \in Node : \A i : Known(p, i)' =>
                               Known(p, i) \/ (p = m.to /\ i = m.id)
  BY <1>1, <1>2, RegisteredGrows DEF Delivering, Reaching
<1>4. AllDelivered'
  <2> SUFFICES ASSUME NEW s \in issued, Current(s)',
                      NEW n \in Node \ {s.origin}, Known(n, s.id)'
               PROVE  Delivered(s, n)'
    BY <1>2 DEF AllDelivered
  <2>1. CASE n = m.to /\ s.id = m.id
    BY <1>2, <2>1 DEF Delivered, Handled
  <2>2. CASE Known(n, s.id)
    <3>1. Current(s)
      BY <1>2 DEF Current, Repeated
    <3>2. Delivered(s, n)
      BY <2>2, <3>1 DEF Delivering, AllDelivered
    <3>3. Handled(n, s.id) => Handled(n, s.id)'
      BY <1>2 DEF Handled
    <3> QED
      BY <1>2, <3>2, <3>3, DeliveredKept
  <2> QED
    BY <1>3, <2>1, <2>2
<1> QED
  BY <1>2, <1>4 DEF Delivering

LEMMA AnswerDelivers ==
  ASSUME Delivering, Reaching', NEW m \in handling, AnswerQuery(m)
  PROVE  Delivering'
<1>1. m.to \in Node
  BY DEF Delivering, Reaching, Remembering, AllFit, MessagesFit, BoundedQuery, Query
<1>2. /\ handling' = handling \ {m}
      /\ UNCHANGED <<seen, agg, current, issued>>
      /\ lost => lost'
  BY DEF AnswerQuery
<1>3. PICK answered \in {{}} \cup {{a} : a \in Answers(m.to, m)} :
        /\ answers' = answers \cup answered
        /\ ~lost' => ~(answered = {} /\ Answers(m.to, m) # {})
  BY DEF AnswerQuery
<1>4. /\ Found(m.to, m) # {} => Answers(m.to, m) # {}
      /\ \A a \in Answers(m.to, m) :
           /\ a.from = m.to /\ a.id = m.id /\ a.to = m.origin
           /\ IsFiniteSet(a.items)
           /\ a.items = Found(m.to, m) \/ Cardinality(a.items) = MaxResults
  BY <1>1, AnswersFull
<1>5. \A p, i : Known(p, i)' <=> Known(p, i)
  BY <1>2 DEF Known
<1>6. AllDelivered'
  <2> SUFFICES ASSUME NEW s \in issued, Current(s), NEW n \in Node \ {s.origin},
                      Known(n, s.id)
               PROVE  Delivered(s, n)'
    BY <1>2, <1>5 DEF AllDelivered, Current, Repeated
  <2>1. CASE ~(n = m.to /\ s.id = m.id)
    <3>1. Delivered(s, n)
      BY DEF Delivering, AllDelivered
    <3>2. Handled(n, s.id) => Handled(n, s.id)'
      BY <1>2, <2>1 DEF Handled
    <3>3. answers \subseteq answers'
      BY <1>3
    <3> QED
      BY <1>2, <3>1, <3>2, <3>3, DeliveredKept
  <2>2. CASE n = m.to /\ s.id = m.id
    <3>1. m.term = s.term /\ m.origin = s.origin
      <4>1. PICK t \in issued : t.id = m.id /\ t.term = m.term /\ t.origin = m.origin
        BY DEF Delivering, Reaching, FromSearches
      <4>2. t = s
        BY <2>2, <4>1 DEF Current, Repeated
      <4> QED
        BY <4>1, <4>2
    <3>2. Found(n, s)' = Found(m.to, m)
      BY <2>2, <3>1 DEF Found
    <3>3. agg'[s.origin] = agg[s.origin] /\ Len(agg[s.origin]) \in Nat
      <4>1. agg[s.origin] \in Seq(Items)
        BY DEF Delivering, Reaching, SearchesKnown, Remembering, AllFit, AggregatorsFit
      <4> QED
        BY <1>2, <4>1
    <3>4. CASE lost'
      BY <3>4 DEF Delivered
    <3>5. CASE answered = {} /\ ~lost'
      <4>1. Found(n, s)' = {}
        BY <1>3, <1>4, <3>2, <3>5
      <4> QED
        BY <4>1 DEF Delivered
    <3>6. ASSUME NEW a \in Answers(m.to, m), answered = {a}
          PROVE  Delivered(s, n)'
      <4>1. /\ a \in answers' /\ a.from = n /\ a.id = s.id /\ a.to = s.origin
            /\ a.items = Found(m.to, m) \/ Cardinality(a.items) = MaxResults
        BY <1>3, <1>4, <2>2, <3>1, <3>6
      <4>2. CASE a.items = Found(m.to, m)
        BY <3>2, <4>1, <4>2 DEF Delivered, Pending
      <4>3. CASE Cardinality(a.items) = MaxResults
        <5>1. Len(agg'[s.origin]) + Cardinality(a.items) >= MaxResults
          BY <3>3, <4>3, FloodAssumption
        <5>2. WillFill(s, n)'
          BY <4>1, <5>1 DEF WillFill
        <5> QED
          BY <5>2 DEF Delivered
      <4> QED
        BY <4>1, <4>2, <4>3
    <3> QED
      BY <3>4, <3>5, <3>6
  <2> QED
    BY <2>1, <2>2
<1>7. \A a \in answers' : IsFiniteSet(a.items)
  BY <1>3, <1>4 DEF Delivering
<1> QED
  BY <1>2, <1>6, <1>7 DEF Delivering

(* One item more is listed, unless the aggregator is full.                 *)
LEMMA AddDelivers ==
  ASSUME Delivering, Reaching', NEW m \in answers, NEW item \in m.items,
         AddResult(m, item)
  PROVE  Delivering'
<1> DEFINE left == [m EXCEPT !.items = m.items \ {item}]
<1>1. /\ m.to \in Node /\ IsFiniteSet(m.items)
      /\ left.from = m.from /\ left.to = m.to /\ left.id = m.id
      /\ left.items = m.items \ {item}
  BY DEF Delivering, Reaching, Remembering, AllFit, MessagesFit, Answer
<1>2. /\ answers' \subseteq answers \cup {left}
      /\ answers \ {m} \subseteq answers'
      /\ m.items # {item} => left \in answers'
      /\ agg' = [agg EXCEPT ![m.to] = Added(agg[m.to], item)]
      /\ UNCHANGED <<handling, current, issued, lost>>
      /\ UNCHANGED seen
  <2>1. m.items \ {item} = {} => m.items = {item}
    OBVIOUS
  <2> QED
    BY <2>1 DEF AddResult
<1> HIDE DEF left
<1>3. /\ \A p, i : Known(p, i)' <=> Known(p, i)
      /\ \A p, i : Handled(p, i)' <=> Handled(p, i)
      /\ \A s : Current(s)' <=> Current(s)
  BY <1>2 DEF Known, Handled, Current, Repeated
<1>4. \A n \in Node :
        /\ agg[n] \in Seq(Items) /\ agg'[n] \in Seq(Items)
        /\ Len(agg[n]) <= Len(agg'[n])
        /\ \A k \in DOMAIN agg[n] : k \in DOMAIN agg'[n] /\ agg'[n][k] = agg[n][k]
  <2> SUFFICES ASSUME NEW n \in Node
               PROVE  /\ agg[n] \in Seq(Items) /\ agg'[n] \in Seq(Items)
                      /\ Len(agg[n]) <= Len(agg'[n])
                      /\ \A k \in DOMAIN agg[n] :
                           k \in DOMAIN agg'[n] /\ agg'[n][k] = agg[n][k]
    OBVIOUS
  <2>1. agg[n] \in Seq(Items) /\ agg'[n] \in Seq(Items)
    BY DEF Delivering, Reaching, Remembering, AllFit, AggregatorsFit
  <2>2. agg'[n] \in {agg[n], Append(agg[n], item)}
    BY <1>1, <1>2 DEF Added, Delivering, Reaching, Remembering, AllFit, AggregatorsFit
  <2>3. /\ Len(Append(agg[n], item)) = Len(agg[n]) + 1
        /\ DOMAIN Append(agg[n], item) = 1 .. Len(agg[n]) + 1
        /\ \A k \in 1 .. Len(agg[n]) : Append(agg[n], item)[k] = agg[n][k]
        /\ DOMAIN agg[n] = 1 .. Len(agg[n]) /\ Len(agg[n]) \in Nat
    BY <2>1
  <2> QED
    BY <2>1, <2>2, <2>3
<1>5. ~Full(m.to) => /\ Len(agg'[m.to]) = Len(agg[m.to]) + 1
                     /\ Listed(m.to, item)'
  <2> SUFFICES ASSUME ~Full(m.to)
               PROVE  /\ Len(agg'[m.to]) = Len(agg[m.to]) + 1
                      /\ Listed(m.to, item)'
    OBVIOUS
  <2>1. agg[m.to] \in Seq(Items) /\ Len(agg[m.to]) < MaxResults
    BY <1>1, <1>4, FloodAssumption DEF Full
  <2>2. agg'[m.to] = Append(agg[m.to], item)
    BY <1>1, <1>2, <2>1 DEF Added, Delivering, Reaching, Remembering, AllFit, AggregatorsFit
  <2>3. /\ Len(Append(agg[m.to], item)) = Len(agg[m.to]) + 1
        /\ Len(agg[m.to]) + 1 \in DOMAIN Append(agg[m.to], item)
        /\ Append(agg[m.to], item)[Len(agg[m.to]) + 1] = item
    BY <2>1
  <2> QED
    BY <2>2, <2>3 DEF Listed
<1>6. \A n \in Node :
        /\ Full(n) => Full(n)'
        /\ \A other : Listed(n, other) => Listed(n, other)'
  BY <1>4, FloodAssumption DEF Full, Listed
<1>7. AllDelivered'
  <2> SUFFICES ASSUME NEW s \in issued, Current(s), NEW n \in Node \ {s.origin},
                      Known(n, s.id), ~lost, ~Handled(n, s.id), ~Full(s.origin)
               PROVE  Delivered(s, n)'
    <3>1. \A s \in issued : s.origin \in Node
      BY DEF Delivering, Reaching, SearchesKnown
    <3> QED
      BY <1>2, <1>3, <1>6, <3>1 DEF AllDelivered, Delivered
  <2>0. s.origin \in Node
    BY DEF Delivering, Reaching, SearchesKnown
  <2>1. WillFill(s, n) \/ \A other \in Found(n, s) :
                            Listed(s.origin, other) \/ Pending(s.origin, other)
    BY DEF Delivering, AllDelivered, Delivered
  <2>2. CASE WillFill(s, n)
    <3>1. PICK a \in answers :
            /\ a.from = n /\ a.id = s.id /\ a.to = s.origin
            /\ Len(agg[s.origin]) + Cardinality(a.items) >= MaxResults
      BY <2>2 DEF WillFill
    <3>2. /\ Len(agg[s.origin]) \in Nat /\ Len(agg'[s.origin]) \in Nat
          /\ Len(agg[s.origin]) <= Len(agg'[s.origin])
      BY <1>4, <2>0
    <3>3. IsFiniteSet(a.items) /\ Cardinality(a.items) \in Nat
      BY FS_CardinalityType DEF Delivering
    <3>4. CASE a # m
      <4>1. /\ a \in answers'
            /\ Len(agg'[s.origin]) + Cardinality(a.items) >= MaxResults
        BY <1>2, <3>1, <3>2, <3>3, <3>4, FloodAssumption
      <4> QED
        BY <3>1, <4>1 DEF Delivered, WillFill
    <3>5. CASE a = m
      <4>1. Len(agg'[s.origin]) = Len(agg[s.origin]) + 1
        BY <1>5, <3>1, <3>5
      <4>2. Cardinality(left.items) = Cardinality(a.items) - 1
        BY <1>1, <3>5, FS_RemoveElement
      <4>3. CASE m.items = {item}
        <5>1. Cardinality(a.items) = 1
          BY <3>5, <4>3, FS_Singleton
        <5>2. Full(s.origin)'
          BY <3>1, <3>2, <4>1, <5>1, FloodAssumption DEF Full
        <5> QED
          BY <5>2 DEF Delivered
      <4>4. CASE m.items # {item}
        <5>1. Len(agg'[s.origin]) + Cardinality(left.items) >= MaxResults
          BY <3>1, <3>2, <3>3, <4>1, <4>2, FloodAssumption
        <5>2. /\ left \in answers'
              /\ left.from = n /\ left.id = s.id /\ left.to = s.origin
          BY <1>1, <1>2, <3>1, <3>5, <4>4
        <5> QED
          BY <5>1, <5>2 DEF Delivered, WillFill
      <4> QED
        BY <4>3, <4>4
    <3> QED
      BY <3>4, <3>5
  <2>3. CASE \A other \in Found(n, s) :
               Listed(s.origin, other) \/ Pending(s.origin, other)
    <3>1. ASSUME NEW other \in Found(n, s)
          PROVE  Listed(s.origin, other)' \/ Pending(s.origin, other)'
      <4>1. CASE Listed(s.origin, other)
        BY <1>6, <2>0, <4>1
      <4>2. ASSUME NEW a \in answers, a.to = s.origin, other \in a.items
            PROVE  Listed(s.origin, other)' \/ Pending(s.origin, other)'
        <5>1. CASE a # m
          BY <1>2, <4>2, <5>1 DEF Pending
        <5>2. CASE a = m /\ other = item
          BY <1>5, <4>2, <5>2
        <5>3. CASE a = m /\ other # item
          <6>1. left \in answers' /\ left.to = s.origin /\ other \in left.items
            BY <1>1, <1>2, <4>2, <5>3
          <6> QED
            BY <6>1 DEF Pending
        <5> QED
          BY <5>1, <5>2, <5>3
      <4> QED
        BY <2>3, <4>1, <4>2 DEF Pending
    <3>2. Found(n, s)' = Found(n, s)
      BY DEF Found, Item
    <3> QED
      BY <3>1, <3>2 DEF Delivered
  <2> QED
    BY <2>1, <2>2, <2>3
<1>8. \A a \in answers' : IsFiniteSet(a.items)
  <2>1. IsFiniteSet(left.items)
    BY <1>1, FS_RemoveElement
  <2> QED
    BY <1>2, <2>1 DEF Delivering
<1> QED
  BY <1>2, <1>7, <1>8 DEF Delivering

LEMMA InitDelivers == Init => Delivering
BY InitReaches DEF Init, Delivering, AllDelivered

LEMMA StepDelivers ==
  ASSUME IdsRemembered
  PROVE  Delivering /\ [Next]_vars => Delivering'
<1> SUFFICES ASSUME Delivering, [Next]_vars PROVE Delivering'
  OBVIOUS
<1>0. Reaching'
  BY StepReaches DEF Delivering
<1>1. CASE \E n \in Node, term \in Term : Search(n, term)
  BY <1>0, <1>1, SearchDelivers
<1>2. CASE \E n \in Node : Collect(n)
  BY <1>0, <1>2, DeliveringSame DEF Collect
<1>3. CASE \E m \in queries : DropQuery(m)
  <2> SUFFICES ASSUME NEW m \in queries, DropQuery(m) PROVE Delivering'
    BY <1>3
  <2>1. UNCHANGED seen
    BY DropSame DEF Delivering, Reaching
  <2> QED
    BY <1>0, <2>1, DeliveringSame DEF DropQuery
<1>4. CASE \E m \in queries : AcceptQuery(m)
  BY <1>0, <1>4, AcceptDelivers
<1>5. CASE \E m \in handling : AnswerQuery(m)
  BY <1>0, <1>5, AnswerDelivers
<1>6. CASE \E m \in answers : \E item \in m.items : AddResult(m, item)
  BY <1>0, <1>6, AddDelivers
<1>7. CASE Tick
  BY <1>0, <1>7, DeliveringSame DEF Tick
<1>8. CASE UNCHANGED vars
  BY <1>0, <1>8, DeliveringSame DEF vars
<1> QED
  BY <1>1, <1>2, <1>3, <1>4, <1>5, <1>6, <1>7, <1>8 DEF Next, Handle

(* Nobody is missing, and no answer is pending.                            *)
LEMMA DeliveringCompletes == Delivering => SearchComplete
<1> SUFFICES ASSUME Delivering, FloodOver, answers = {}, EnoughHops,
                    NEW s \in issued, ~Repeated(s), s.id = current[s.origin],
                    Len(agg[s.origin]) < MaxResults,
                    NEW n \in Within(s.origin) \ {s.origin},
                    NEW f \in Holdings[n] \cap Matching[s.term]
             PROVE  Listed(s.origin, Item(n, f, s.id))
  BY DEF SearchComplete, EnoughHops, Listed
<1>1. n \in Node /\ Known(n, s.id)
  BY ReachingReachesAll DEF Delivering, FloodReachesAll, EnoughHops, Within
<1>2. Delivered(s, n)
  BY <1>1 DEF Delivering, AllDelivered, Current
<1>3. ~lost /\ ~Handled(n, s.id) /\ ~WillFill(s, n)
      /\ \A item : ~Pending(s.origin, item)
  BY DEF FloodOver, Handled, WillFill, Pending
<1>4. ~Full(s.origin)
  <2>1. s.origin \in Node
    BY DEF Delivering, Reaching, SearchesKnown
  <2>2. agg[s.origin] \in Seq(Items)
    BY <2>1 DEF Delivering, Reaching, Remembering, AllFit, AggregatorsFit
  <2> QED
    BY <2>2, FloodAssumption DEF Full
<1>5. Item(n, f, s.id) \in Found(n, s)
  BY DEF Found
<1> QED
  BY <1>2, <1>3, <1>4, <1>5 DEF Delivered

(* Then, once the answers are in too, the aggregator of a client that has  *)
(* made no other search since has every matching file of every client      *)
(* there is a path to, or is full: an answer that was cut off at           *)
(* P2P_MAX_RESULTS files fills it (flood_handle_message() and              *)
(* aggregator_add()).                                                      *)
THEOREM SearchesComplete ==
  ASSUME IdsRemembered
  PROVE  Spec => []SearchComplete
<1>1. Spec => []Delivering
  BY InitDelivers, StepDelivers, PTL DEF Spec
<1> QED
  BY <1>1, DeliveringCompletes, PTL

-----------------------------------------------------------------------------
(* The flood implements Lookup.                                            *)

(* The three places where a file that is owed can be.                      *)
Unasked(o) ==
  \E s \in issued, n \in Node :
    ~Known(n, s.id) /\ o \in [to : {s.origin}, item : Found(n, s)]
InThread(o) == \E m \in handling : o \in [to : {m.origin}, item : Found(m.to, m)]
InAnswer(o) == \E a \in answers : o \in [to : {a.to}, item : a.items]

OwedParts == \A o : o \in Owed <=> Unasked(o) \/ InThread(o) \/ InAnswer(o)

LEMMA OwedIs == OwedParts
<1> DEFINE unasked == {x \in issued \X Node : ~Known(x[2], x[1].id)}
           Unsent(x) == [to : {x[1].origin}, item : Found(x[2], x[1])]
<1>1. \A o : (\E x \in unasked : o \in Unsent(x)) <=> Unasked(o)
  <2>1. ASSUME NEW o, NEW x \in unasked, o \in Unsent(x)
        PROVE  Unasked(o)
    <3>1. x[1] \in issued /\ x[2] \in Node /\ ~Known(x[2], x[1].id)
      OBVIOUS
    <3> QED
      BY <2>1, <3>1 DEF Unasked
  <2>2. ASSUME NEW o, NEW s \in issued, NEW n \in Node, ~Known(n, s.id),
               o \in [to : {s.origin}, item : Found(n, s)]
        PROVE  \E x \in unasked : o \in Unsent(x)
    <3>1. <<s, n>> \in unasked /\ o \in Unsent(<<s, n>>)
      BY <2>2
    <3> QED
      BY <3>1
  <2> QED
    BY <2>1, <2>2 DEF Unasked
<1>2. Owed = UNION ({Unsent(x) : x \in unasked}
            \cup {[to : {m.origin}, item : Found(m.to, m)] : m \in handling}
            \cup {[to : {m.to}, item : m.items] : m \in answers})
  BY DEF Owed
<1> HIDE DEF unasked, Unsent
<1> QED
  BY <1>1, <1>2 DEF OwedParts, InThread, InAnswer

(* The same in the next state.                                             *)
LEMMA OwedNext == OwedParts'
BY OwedIs, PTL

(* Items tell who owes them, and for which search.                         *)
LEMMA FoundOwned ==
  \A n, q : \A item \in Found(n, q) : item.owner = n /\ item.id = q.id
BY DEF Found, Item

LEMMA SearchLooksUp ==
  ASSUME Reaching, IdsRemembered, NEW n \in Node, NEW term \in Term, Search(n, term)
  PROVE  Promise!Next
<1> DEFINE made == [origin |-> n, term |-> term, id |-> QueryId(n),
                    nth |-> Cardinality(issued)]
<1>1. PICK id \in Ids : id = QueryId(n) /\ id[1] = n
  BY QueryIdTyped DEF Reaching, Remembering, AllFit, RestFits, QueryId
<1>2. /\ made.id = id /\ made.origin = n /\ made.term = term
      /\ issued' = issued \cup {made}
      /\ seen' = [seen EXCEPT ![n] = Registered(n, id)]
      /\ Cardinality(issued) < network.searches
      /\ UNCHANGED <<handling, answers>>
  BY <1>1 DEF Search
<1> HIDE DEF made
<1>3. /\ Known(n, id)'
      /\ \A p \in Node : \A i : Known(p, i) => Known(p, i)'
      /\ \A p \in Node : \A i : Known(p, i)' => Known(p, i) \/ (p = n /\ i = id)
  BY <1>2, RegisteredGrows DEF Reaching
<1>4. \A o : (InThread(o)' <=> InThread(o)) /\ (InAnswer(o)' <=> InAnswer(o))
  BY <1>2 DEF InThread, InAnswer
<1>5. Owed \subseteq Owed'
  <2>1. \A s \in issued : s.id = id => Known(n, s.id)
    BY <1>1 DEF Reaching, SearchesKnown
  <2>2. \A o : Unasked(o) => Unasked(o)'
    BY <1>2, <1>3, <2>1 DEF Unasked
  <2> QED
    BY <1>4, <2>2, OwedIs, OwedNext DEF OwedParts
<1>6. Owed' \ Owed \subseteq Promise!Matches(n, term, id)
  <2> SUFFICES ASSUME NEW o, Unasked(o)', ~Unasked(o)
               PROVE  o \in Promise!Matches(n, term, id)
    BY <1>4, OwedIs, OwedNext DEF OwedParts
  <2>1. PICK s \in issued', p \in Node :
          ~Known(p, s.id)' /\ o \in [to : {s.origin}, item : Found(p, s)]
    BY DEF Unasked
  <2>2. s = made
    BY <1>2, <1>3, <2>1 DEF Unasked
  <2>3. p \in Node \ {n} /\ o \in [to : {n}, item : Found(p, s)]
    BY <1>2, <1>3, <2>1, <2>2
  <2>4. PICK f \in Holdings[p] \cap Matching[term] :
          o = [to |-> n, item |-> Item(p, f, id)]
    <3>1. o.item \in Found(p, s) /\ o = [to |-> n, item |-> o.item]
      BY <2>3
    <3>2. PICK f \in Holdings[p] \cap Matching[term] : o.item = Item(p, f, id)
      BY <1>2, <2>2, <3>1 DEF Found
    <3> QED
      BY <3>1, <3>2
  <2> QED
    BY <2>3, <2>4 DEF Promise!Matches, Promise!Match, Item
<1>7. Promise!Search(n, term, id)
  BY <1>5, <1>6 DEF Search, Promise!Search
<1> QED
  BY <1>7 DEF Promise!Next

LEMMA CollectLooksUp ==
  ASSUME NEW n \in Node, Collect(n)
  PROVE  Promise!Next
<1>1. /\ UNCHANGED <<seen, issued, handling, answers>>
  BY DEF Collect
<1>2. Owed' = Owed
  BY <1>1 DEF Owed, Known
<1>3. Promise!Return(n)
  BY <1>2 DEF Collect, Promise!Return, ToSet, Promise!ToSet
<1> QED
  BY <1>3 DEF Promise!Next

(* Steps that collect nothing do not make anybody owe more.                *)
LEMMA LosingLooksUp ==
  ASSUME UNCHANGED <<agg, waiting, results>>,
         \A o : Unasked(o)' \/ InThread(o)' \/ InAnswer(o)' =>
                  Unasked(o) \/ InThread(o) \/ InAnswer(o)
  PROVE  Promise!Next
<1>1. Owed' \subseteq Owed
  BY OwedIs, OwedNext DEF OwedParts
<1> QED
  BY <1>1 DEF Promise!Next, Promise!Lose

LEMMA AcceptLooksUp ==
  ASSUME Reaching, IdsRemembered, NEW m \in queries, AcceptQuery(m)
  PROVE  Promise!Next
<1>1. /\ m.to \in Node /\ m.id \in IssuedIds
  BY DEF Reaching, Remembering, AllFit, MessagesFit, BoundedQuery, Query, OriginsKnow
<1>2. ~Known(m.to, m.id)
  BY <1>1, NothingExpires DEF AcceptQuery, Reaching
<1>3. /\ handling' = handling \cup {m}
      /\ seen' = [seen EXCEPT ![m.to] = Registered(m.to, m.id)]
      /\ UNCHANGED <<issued, answers, agg, waiting, results>>
  BY DEF AcceptQuery
<1>4. \A p \in Node : \A i : Known(p, i) => Known(p, i)'
  BY <1>1, <1>3, RegisteredGrows DEF Reaching
<1>5. \A o : o \in [to : {m.origin}, item : Found(m.to, m)] => Unasked(o)
  <2>1. PICK s \in issued : s.id = m.id /\ s.term = m.term /\ s.origin = m.origin
    BY DEF Reaching, FromSearches
  <2>2. Found(m.to, m) = Found(m.to, s)
    BY <2>1 DEF Found
  <2> QED
    BY <1>1, <1>2, <2>1, <2>2 DEF Unasked
<1>6. \A o : /\ Unasked(o)' => Unasked(o)
             /\ InThread(o)' => InThread(o) \/ Unasked(o)
             /\ InAnswer(o)' => InAnswer(o)
  BY <1>3, <1>4, <1>5 DEF Unasked, InThread, InAnswer
<1> QED
  BY <1>3, <1>6, LosingLooksUp

LEMMA AnswerLooksUp ==
  ASSUME Reaching, NEW m \in handling, AnswerQuery(m)
  PROVE  Promise!Next
<1>1. /\ handling' = handling \ {m}
      /\ UNCHANGED <<seen, issued, agg, waiting, results>>
      /\ \A a \in answers' : a \in answers \/ a \in Answers(m.to, m)
  BY DEF AnswerQuery
<1>2. \A a \in Answers(m.to, m) : a.to = m.origin /\ a.items \subseteq Found(m.to, m)
  BY DEF Answers, kSubset
<1>3. \A o : /\ Unasked(o)' => Unasked(o)
             /\ InThread(o)' => InThread(o)
  BY <1>1 DEF Unasked, InThread, Known
<1>4. \A o : InAnswer(o)' => InAnswer(o) \/ InThread(o)
  <2> SUFFICES ASSUME NEW o, NEW a \in answers', a \notin answers,
                      o \in [to : {a.to}, item : a.items]
               PROVE  InThread(o)
    BY DEF InAnswer
  <2>1. a.to = m.origin /\ a.items \subseteq Found(m.to, m)
    BY <1>1, <1>2
  <2>2. o \in [to : {m.origin}, item : Found(m.to, m)]
    BY <2>1
  <2> QED
    BY <2>2 DEF InThread
<1> QED
  BY <1>1, <1>3, <1>4, LosingLooksUp

LEMMA AddLooksUp ==
  ASSUME Reaching, NEW m \in answers, NEW item \in m.items, AddResult(m, item)
  PROVE  Promise!Next
<1> DEFINE left == [m EXCEPT !.items = m.items \ {item}]
           o == [to |-> m.to, item |-> item]
<1>1. /\ item.owner = m.from /\ item.id = m.id
      /\ Known(m.from, m.id) /\ ~Handled(m.from, m.id)
      /\ \A a \in answers : item \in a.items => a = m
      /\ left.to = m.to /\ left.items = m.items \ {item}
  BY DEF Reaching, Remembering, AllFit, MessagesFit, Answer, AnsweredOnce
<1>2. /\ \A a \in answers' : (a \in answers /\ a # m) \/ a = left
      /\ answers \ {m} \subseteq answers'
      /\ m.items # {item} => left \in answers'
      /\ UNCHANGED <<seen, handling, issued, waiting, results>>
  <2>1. m.items \ {item} = {} => m.items = {item}
    OBVIOUS
  <2> QED
    BY <2>1 DEF AddResult
<1> HIDE DEF left
<1>3. \A x : (Unasked(x)' <=> Unasked(x)) /\ (InThread(x)' <=> InThread(x))
  BY <1>2 DEF Unasked, InThread, Known
<1>4. ~Unasked(o) /\ ~InThread(o) /\ InAnswer(o)
  <2>1. ~Unasked(o)
    BY <1>1, FoundOwned DEF Unasked
  <2>2. ~InThread(o)
    BY <1>1, FoundOwned DEF InThread, Handled
  <2> QED
    BY <2>1, <2>2 DEF InAnswer
<1>5. ~InAnswer(o)'
  BY <1>1, <1>2 DEF InAnswer
<1>6. \A x : x # o => (InAnswer(x)' <=> InAnswer(x))
  <2>1. ASSUME NEW x, InAnswer(x)' PROVE InAnswer(x)
    <3>1. PICK a \in answers' : x \in [to : {a.to}, item : a.items]
      BY <2>1 DEF InAnswer
    <3>2. CASE a = left
      <4>1. x \in [to : {m.to}, item : m.items]
        BY <1>1, <3>1, <3>2
      <4> QED
        BY <4>1 DEF InAnswer
    <3> QED
      BY <1>2, <3>1, <3>2 DEF InAnswer
  <2>2. ASSUME NEW x, x # o, InAnswer(x) PROVE InAnswer(x)'
    <3>1. PICK a \in answers : x \in [to : {a.to}, item : a.items]
      BY <2>2 DEF InAnswer
    <3>2. CASE a = m
      <4>1. x.item \in m.items /\ x.item # item /\ x = [to |-> m.to, item |-> x.item]
        BY <2>2, <3>1, <3>2
      <4>2. left \in answers' /\ x \in [to : {left.to}, item : left.items]
        BY <1>1, <1>2, <4>1
      <4> QED
        BY <4>2 DEF InAnswer
    <3> QED
      BY <1>2, <3>1, <3>2 DEF InAnswer
  <2> QED
    BY <2>1, <2>2
<1>7. o \in Owed /\ Owed' = Owed \ {o}
  BY <1>3, <1>4, <1>5, <1>6, OwedIs, OwedNext DEF OwedParts
<1>8. agg' = [agg EXCEPT ![o.to] = IF Len(@) < MaxResults THEN Append(@, o.item) ELSE @]
  BY DEF AddResult, Added
<1> HIDE DEF o
<1>9. Promise!Receive(o)
  BY <1>2, <1>7, <1>8 DEF Promise!Receive
<1> QED
  BY <1>7, <1>9 DEF Promise!Next

(* While ids are remembered the flood implements Lookup: whatever paths    *)
(* queries and answers take, and in whatever order threads add items, what *)
(* a search collects is owned by the client that sent it, matches a search *)
(* of the client that collects it, and is collected once per search        *)
(* (flood_handle_message(), search_distributed(), aggregator_add()).       *)
THEOREM FloodRefinement ==
  ASSUME IdsRemembered
  PROVE  Spec => ImplementsLookup
<1>1. Init => Promise!Init
  <2> SUFFICES ASSUME Init PROVE Promise!Init
    OBVIOUS
  <2>1. \A o : ~Unasked(o) /\ ~InThread(o) /\ ~InAnswer(o)
    BY DEF Init, Unasked, InThread, InAnswer
  <2>2. Owed = {}
    BY <2>1, OwedIs DEF OwedParts
  <2> QED
    BY <2>2 DEF Init, Promise!Init
<1>2. Reaching /\ [Next]_vars => [Promise!Next]_(Promise!vars)
  <2> SUFFICES ASSUME Reaching, [Next]_vars PROVE [Promise!Next]_(Promise!vars)
    OBVIOUS
  <2>1. CASE \E n \in Node, term \in Term : Search(n, term)
    BY <2>1, SearchLooksUp
  <2>2. CASE \E n \in Node : Collect(n)
    BY <2>2, CollectLooksUp
  <2>3. CASE \E m \in queries : AcceptQuery(m)
    BY <2>3, AcceptLooksUp
  <2>4. CASE \E m \in handling : AnswerQuery(m)
    BY <2>4, AnswerLooksUp
  <2>5. CASE \E m \in answers : \E item \in m.items : AddResult(m, item)
    BY <2>5, AddLooksUp
  <2>6. CASE (\E m \in queries : DropQuery(m)) \/ Tick \/ UNCHANGED vars
    <3>1. UNCHANGED seen
      BY <2>6, DropSame DEF Reaching, Tick, vars
    <3>2. UNCHANGED <<issued, handling, answers, agg, waiting, results>>
      BY <2>6 DEF DropQuery, Tick, vars
    <3>3. Owed' = Owed
      BY <3>1, <3>2 DEF Owed, Known
    <3> QED
      BY <3>2, <3>3 DEF Promise!vars
  <2> QED
    BY <2>1, <2>2, <2>3, <2>4, <2>5, <2>6 DEF Next, Handle
<1>3. Spec => []Reaching
  BY InitReaches, StepReaches, PTL DEF Spec
<1> QED
  BY <1>1, <1>2, <1>3, PTL DEF Spec, ImplementsLookup, Promise!Spec

-----------------------------------------------------------------------------
(* Floods run down, also when ids are forgotten.  A message is ranked by   *)
(* its level; handling it takes it off its level, and all that comes of it *)
(* has a lower one.  So the numbers of messages, from the highest level    *)
(* downwards, decrease lexicographically.                                  *)

QueryLevel(m) == MaxResults + 2 * m.ttl + 2
HandlingLevel(m) == MaxResults + 2 * m.ttl + 1
AnswerLevel(a) == Cardinality(a.items)

TopLevel == MaxResults + 2 * MaxTTL + 2

(* The messages of a level: queries on their way, queries being answered,  *)
(* or answers of which as many items are not yet added.                    *)
AtLevel(k) ==
  {m \in queries : QueryLevel(m) = k}
  \cup {m \in handling : HandlingLevel(m) = k}
  \cup {a \in answers : AnswerLevel(a) = k}

(* A message of some level is gone, and none of that level or a higher one *)
(* is new.                                                                 *)
Lowered ==
  \E k \in 1 .. TopLevel :
    /\ AtLevel(k)' \subseteq AtLevel(k) /\ AtLevel(k)' # AtLevel(k)
    /\ \A j \in k + 1 .. TopLevel : AtLevel(j)' = AtLevel(j)

(* What a step does to the messages of a flood.                            *)
RunsDown ==
  /\ \A k \in 1 .. TopLevel : IsFiniteSet(AtLevel(k))
  /\ queries \cup handling \cup answers # {} => \E k \in 1 .. TopLevel : AtLevel(k) # {}
  /\ Handle => Lowered
  /\ \/ \E n \in Node, term \in Term : Search(n, term)
     \/ Lowered
     \/ UNCHANGED <<queries, handling, answers>>

(* All messages are finitely many, and no answer is empty.                 *)
Finitely ==
  /\ AllFit
  /\ IsFiniteSet(queries) /\ IsFiniteSet(handling) /\ IsFiniteSet(answers)
  /\ \A a \in answers :
       IsFiniteSet(a.items) /\ Cardinality(a.items) \in 1 .. MaxResults

(* As many copies are sent as there are neighbors.                         *)
LEMMA SentFinite ==
  ASSUME NEW n, NEW m, NEW list \in SUBSET Node
  PROVE  IsFiniteSet(Forwarded(n, m, list))
<1> DEFINE ttl == IF m.ttl > MaxTTL THEN MaxTTL ELSE m.ttl
           Copy(peer) == [m EXCEPT !.ttl = ttl - 1, !.hops = @ + 1,
                                   !.from = n, !.to = peer]
           copies == {Copy(peer) : peer \in list}
<1>1. IsFiniteSet(list)
  BY FloodAssumption, FS_Subset
<1>2. Forwarded(n, m, list) \subseteq copies
  BY DEF Forwarded
<1> HIDE DEF Copy
<1>3. [peer \in list |-> Copy(peer)] \in Surjection(list, copies)
  BY DEF Surjection
<1> QED
  BY <1>1, <1>2, <1>3, FS_Surjection, FS_Subset

(* A copy has a lower level than the query it is made of.                  *)
LEMMA SentLower ==
  ASSUME NEW n, NEW list, NEW m \in BoundedQuery
  PROVE  \A l \in Forwarded(n, m, list) : l.ttl < m.ttl
<1> DEFINE ttl == IF m.ttl > MaxTTL THEN MaxTTL ELSE m.ttl
<1>1. /\ m.ttl \in Nat /\ ttl <= m.ttl /\ ttl \in Nat
  BY FloodAssumption DEF BoundedQuery, Query
<1>2. Forwarded(n, m, list) \subseteq
        {[m EXCEPT !.ttl = ttl - 1, !.hops = @ + 1, !.from = n, !.to = peer] :
           peer \in list}
  BY DEF Forwarded
<1> HIDE DEF ttl
<1>3. \A l \in Forwarded(n, m, list) : l.ttl = ttl - 1
  BY <1>2 DEF BoundedQuery, Query
<1> QED
  BY <1>1, <1>3

(* Levels of queries are above those of answers, and apart from those of   *)
(* queries being answered.                                                 *)
LEMMA LevelsApart ==
  ASSUME Finitely
  PROVE  /\ \A m \in queries : /\ m.ttl \in 0 .. MaxTTL
                               /\ QueryLevel(m) \in MaxResults + 2 .. TopLevel
         /\ \A m \in handling : /\ m.ttl \in 0 .. MaxTTL
                                /\ HandlingLevel(m) \in MaxResults + 1 .. TopLevel
         /\ \A a \in answers : AnswerLevel(a) \in 1 .. MaxResults
         /\ \A m \in queries, l \in handling : QueryLevel(m) # HandlingLevel(l)
<1>1. \A m \in queries \cup handling : m.ttl \in 0 .. MaxTTL
  BY DEF Finitely, AllFit, MessagesFit, BoundedQuery, Query
<1> QED
  BY <1>1, FloodAssumption
  DEF Finitely, QueryLevel, HandlingLevel, AnswerLevel, TopLevel

-----------------------------------------------------------------------------
(* Finitely is inductive.                                                  *)

LEMMA SearchFinitely ==
  ASSUME Finitely, NEW n \in Node, NEW term \in Term, Search(n, term)
  PROVE  Finitely'
<1> DEFINE query == [id |-> QueryId(n), term |-> term, origin |-> n,
                     ttl |-> TTL, hops |-> 0, from |-> n, to |-> n]
<1>1. nbrs[n] \in SUBSET Node
  BY DEF Finitely, AllFit, ListsFit
<1>2. IsFiniteSet(Forwarded(n, query, nbrs[n]))
  BY <1>1, SentFinite
<1>3. queries' \subseteq queries \cup Forwarded(n, query, nbrs[n])
  BY DEF Search
<1> HIDE DEF query
<1>4. IsFiniteSet(queries')
  BY <1>2, <1>3, FS_Union, FS_Subset DEF Finitely
<1>5. AllFit'
  BY SearchFits DEF Finitely
<1> QED
  BY <1>4, <1>5 DEF Search, Finitely

LEMMA AnswerFinitely ==
  ASSUME Finitely, NEW m \in handling, AnswerQuery(m)
  PROVE  Finitely'
<1>1. m \in BoundedQuery /\ m.to \in Node
  BY DEF Finitely, AllFit, MessagesFit, BoundedQuery, Query
<1>2. nbrs[m.to] \in SUBSET Node
  BY <1>1 DEF Finitely, AllFit, ListsFit
<1>3. IsFiniteSet(Forwarded(m.to, m, nbrs[m.to]))
  BY <1>2, SentFinite
<1>4. PICK answered \in {{}} \cup {{a} : a \in Answers(m.to, m)} :
        answers' = answers \cup answered
  BY DEF AnswerQuery
<1>5. /\ queries' \subseteq queries \cup Forwarded(m.to, m, nbrs[m.to])
      /\ handling' = handling \ {m}
  BY DEF AnswerQuery
<1>6. IsFiniteSet(queries') /\ IsFiniteSet(handling')
  BY <1>3, <1>5, FS_Union, FS_Subset DEF Finitely
<1>7. IsFiniteSet(answered)
  BY FS_EmptySet, FS_Singleton
<1>8. IsFiniteSet(answers')
  BY <1>4, <1>7, FS_Union DEF Finitely
<1>9. \A a \in answered :
        IsFiniteSet(a.items) /\ Cardinality(a.items) \in 1 .. MaxResults
  BY <1>1, AnswersFull
<1>10. AllFit'
  BY AnswerFits DEF Finitely
<1> QED
  BY <1>4, <1>6, <1>8, <1>9, <1>10 DEF Finitely

LEMMA AddFinitely ==
  ASSUME Finitely, NEW m \in answers, NEW item \in m.items, AddResult(m, item)
  PROVE  /\ Finitely'
         /\ \A a \in answers' \ answers : AnswerLevel(a) < AnswerLevel(m)
<1> DEFINE rest == m.items \ {item}
           left == [m EXCEPT !.items = rest]
<1>1. /\ IsFiniteSet(m.items) /\ Cardinality(m.items) \in 1 .. MaxResults
      /\ m \in Answer
  BY DEF Finitely, AllFit, MessagesFit
<1>2. IsFiniteSet(rest) /\ Cardinality(rest) = Cardinality(m.items) - 1
  BY <1>1, FS_RemoveElement
<1>3. rest # {} => Cardinality(rest) \in 1 .. MaxResults
  BY <1>1, <1>2, FS_EmptySet, FloodAssumption
<1>4. left.items = rest
  BY <1>1 DEF Answer
<1>5. answers' = (answers \ {m}) \cup (IF rest = {} THEN {} ELSE {left})
  BY DEF AddResult
<1> HIDE DEF rest, left
<1>6. IsFiniteSet(answers')
  BY <1>5, FS_EmptySet, FS_Singleton, FS_Union, FS_Subset DEF Finitely
<1>7. AllFit'
  BY AddFits DEF Finitely
<1>8. Finitely'
  BY <1>2, <1>3, <1>4, <1>5, <1>6, <1>7 DEF AddResult, Finitely
<1>9. \A a \in answers' \ answers : a = left
  BY <1>5
<1> QED
  BY <1>1, <1>2, <1>4, <1>8, <1>9 DEF AnswerLevel

LEMMA StepFinitely == Finitely /\ [Next]_vars => Finitely'
<1> SUFFICES ASSUME Finitely, [Next]_vars PROVE Finitely'
  OBVIOUS
<1>1. AllFit'
  BY StepInv DEF Finitely
<1>2. CASE \E n \in Node, term \in Term : Search(n, term)
  BY <1>2, SearchFinitely
<1>3. CASE \E m \in handling : AnswerQuery(m)
  BY <1>3, AnswerFinitely
<1>4. CASE \E m \in answers : \E item \in m.items : AddResult(m, item)
  BY <1>4, AddFinitely
<1>5. CASE \E m \in queries : DropQuery(m) \/ AcceptQuery(m)
  <2>1. PICK m \in queries : DropQuery(m) \/ AcceptQuery(m)
    BY <1>5
  <2>2. /\ queries' \subseteq queries /\ handling' \subseteq handling \cup {m}
        /\ answers' = answers
    BY <2>1 DEF DropQuery, AcceptQuery
  <2>3. IsFiniteSet(queries') /\ IsFiniteSet(handling')
    BY <2>2, FS_AddElement, FS_Subset DEF Finitely
  <2> QED
    BY <1>1, <2>2, <2>3 DEF Finitely
<1>6. CASE UNCHANGED <<queries, handling, answers>>
  BY <1>1, <1>6 DEF Finitely
<1> QED
  BY <1>2, <1>3, <1>4, <1>5, <1>6 DEF Next, Handle, Collect, Tick, vars

-----------------------------------------------------------------------------
(* What a step of a thread does to the levels.                             *)

(* A step is a lowering one if it takes a message off a level and all that *)
(* is new is below.                                                        *)
LEMMA LowersOne ==
  ASSUME Finitely, NEW k \in 1 .. TopLevel, NEW m \in AtLevel(k),
         m \notin AtLevel(k)',
         queries' \subseteq queries \/ \A l \in queries' \ queries : QueryLevel(l) < k,
         handling' \subseteq handling \/ \A l \in handling' \ handling : HandlingLevel(l) < k,
         answers' \subseteq answers \/ \A a \in answers' \ answers : AnswerLevel(a) < k,
         \A l \in queries \ queries' : QueryLevel(l) = k,
         \A l \in handling \ handling' : HandlingLevel(l) = k,
         \A a \in answers \ answers' : AnswerLevel(a) = k
  PROVE  Lowered
<1>1. k \in Nat /\ TopLevel \in Nat
  BY FloodAssumption DEF TopLevel
<1>2. AtLevel(k)' \subseteq AtLevel(k)
  BY <1>1 DEF AtLevel, QueryLevel, HandlingLevel, AnswerLevel
<1>3. \A j \in k + 1 .. TopLevel : AtLevel(j)' = AtLevel(j)
  <2> SUFFICES ASSUME NEW j \in k + 1 .. TopLevel
               PROVE  AtLevel(j)' = AtLevel(j)
    OBVIOUS
  <2>1. j # k /\ ~(j < k)
    BY <1>1
  <2> QED
    BY <2>1 DEF AtLevel, QueryLevel, HandlingLevel, AnswerLevel
<1> QED
  BY <1>2, <1>3 DEF Lowered

LEMMA QueryLowers ==
  ASSUME Finitely, Finitely', NEW m \in queries, DropQuery(m) \/ AcceptQuery(m)
  PROVE  Lowered
<1> DEFINE k == QueryLevel(m)
<1>1. /\ m.ttl \in 0 .. MaxTTL /\ k \in MaxResults + 2 .. TopLevel
      /\ HandlingLevel(m) < k
  BY LevelsApart, FloodAssumption DEF QueryLevel, HandlingLevel
<1>2. k \in 1 .. TopLevel /\ k > MaxResults
  BY <1>1, FloodAssumption DEF TopLevel
<1>3. /\ queries' = queries \ {m} /\ answers' = answers
      /\ handling' = handling \/ handling' = handling \cup {m}
  BY DEF DropQuery, AcceptQuery
<1>4. \A l \in handling' : HandlingLevel(l) # k
  BY <1>1, <1>3, LevelsApart
<1>5. \A a \in answers : AnswerLevel(a) # k
  BY <1>2, LevelsApart, FloodAssumption
<1>6. m \in AtLevel(k) /\ m \notin AtLevel(k)'
  BY <1>3, <1>4, <1>5 DEF AtLevel, QueryLevel, HandlingLevel, AnswerLevel
<1> HIDE DEF k
<1>7. /\ \A l \in handling' \ handling : HandlingLevel(l) < k
      /\ handling \ handling' = {}
  BY <1>1, <1>3
<1>8. \A l \in queries \ queries' : QueryLevel(l) = k
  BY <1>3 DEF k
<1> QED
  BY <1>2, <1>3, <1>6, <1>7, <1>8, LowersOne

LEMMA AnswerLowers ==
  ASSUME Finitely, Finitely', NEW m \in handling, AnswerQuery(m)
  PROVE  Lowered
<1> DEFINE k == HandlingLevel(m)
           sent == Forwarded(m.to, m, nbrs[m.to])
<1>1. m.ttl \in 0 .. MaxTTL /\ k \in MaxResults + 1 .. TopLevel
  BY LevelsApart
<1>2. k \in 1 .. TopLevel /\ k > MaxResults
  BY <1>1, FloodAssumption DEF TopLevel
<1>3. /\ queries \subseteq queries' /\ queries' \subseteq queries \cup sent
      /\ handling' = handling \ {m} /\ answers \subseteq answers'
  BY DEF AnswerQuery
<1>4. \A l \in queries' \ queries : QueryLevel(l) < k
  <2> SUFFICES ASSUME NEW l \in queries' \ queries PROVE QueryLevel(l) < k
    OBVIOUS
  <2>1. m \in BoundedQuery
    BY DEF Finitely, AllFit, MessagesFit
  <2>2. l.ttl < m.ttl
    BY <1>3, <2>1, SentLower
  <2>3. l.ttl \in 0 .. MaxTTL
    BY DEF Finitely, AllFit, MessagesFit, BoundedQuery, Query
  <2> QED
    BY <1>1, <2>2, <2>3, FloodAssumption DEF QueryLevel, HandlingLevel
<1>5. \A a \in answers' : AnswerLevel(a) < k
  <2>1. \A a \in answers' : AnswerLevel(a) \in 1 .. MaxResults
    BY DEF Finitely, AnswerLevel
  <2> QED
    BY <1>2, <2>1, FloodAssumption
<1>6. \A l \in queries' : QueryLevel(l) # k
  <2>1. \A l \in queries : QueryLevel(l) # k
    BY LevelsApart
  <2>2. \A l \in queries' \ queries : QueryLevel(l) # k
    BY <1>4, <1>2
  <2> QED
    BY <2>1, <2>2
<1>7. \A a \in answers' : AnswerLevel(a) # k
  BY <1>2, <1>5
<1>8. m \in AtLevel(k) /\ m \notin AtLevel(k)'
  BY <1>3, <1>6, <1>7 DEF AtLevel, QueryLevel, HandlingLevel, AnswerLevel
<1>9. \A l \in handling \ handling' : HandlingLevel(l) = k
  BY <1>3
<1> HIDE DEF k, sent
<1> QED
  BY <1>2, <1>3, <1>4, <1>5, <1>8, <1>9, LowersOne

LEMMA AddLowers ==
  ASSUME Finitely, Finitely', NEW m \in answers, NEW item \in m.items,
         AddResult(m, item)
  PROVE  Lowered
<1> DEFINE k == AnswerLevel(m)
<1>1. k \in 1 .. MaxResults
  BY LevelsApart
<1>2. k \in 1 .. TopLevel
  BY <1>1, FloodAssumption DEF TopLevel
<1>3. \A a \in answers' \ answers : AnswerLevel(a) < k
  BY AddFinitely
<1>4. UNCHANGED <<queries, handling>>
  BY DEF AddResult
<1>5. m \notin answers' /\ answers \ answers' \subseteq {m}
  <2>1. m.items \ {item} # m.items /\ m \in Answer
    BY DEF Finitely, AllFit, MessagesFit
  <2>2. [m EXCEPT !.items = m.items \ {item}] # m
    BY <2>1 DEF Answer
  <2> QED
    BY <2>2 DEF AddResult
<1>6. /\ \A l \in queries : QueryLevel(l) # k
      /\ \A l \in handling : HandlingLevel(l) # k
  BY <1>1, LevelsApart, FloodAssumption
<1>7. m \in AtLevel(k) /\ m \notin AtLevel(k)'
  BY <1>4, <1>5, <1>6 DEF AtLevel, QueryLevel, HandlingLevel, AnswerLevel
<1>8. \A a \in answers \ answers' : AnswerLevel(a) = k
  BY <1>5
<1> HIDE DEF k
<1> QED
  BY <1>2, <1>3, <1>4, <1>7, <1>8, LowersOne

(* Each level holds finitely many messages, and every message has one.     *)
LEMMA LevelsHold ==
  ASSUME Finitely
  PROVE  /\ \A k \in 1 .. TopLevel : IsFiniteSet(AtLevel(k))
         /\ queries \cup handling \cup answers # {} =>
              \E k \in 1 .. TopLevel : AtLevel(k) # {}
<1>1. \A k : AtLevel(k) \subseteq queries \cup handling \cup answers
  BY DEF AtLevel
<1>2. IsFiniteSet(queries \cup handling \cup answers)
  BY FS_Union DEF Finitely
<1>3. MaxResults \in Nat /\ TopLevel \in Nat /\ MaxResults <= TopLevel
  BY FloodAssumption DEF TopLevel
<1>4. /\ \A m \in queries : QueryLevel(m) \in 1 .. TopLevel
      /\ \A m \in handling : HandlingLevel(m) \in 1 .. TopLevel
      /\ \A a \in answers : AnswerLevel(a) \in 1 .. TopLevel
  BY <1>3, LevelsApart
<1>5. /\ \A m \in queries : m \in AtLevel(QueryLevel(m))
      /\ \A m \in handling : m \in AtLevel(HandlingLevel(m))
      /\ \A a \in answers : a \in AtLevel(AnswerLevel(a))
  BY DEF AtLevel
<1> QED
  BY <1>1, <1>2, <1>4, <1>5, FS_Subset

(* Floods run down even when the caches are full or ids expire, and copies *)
(* are processed again and again (flood_handle_message()): each thread     *)
(* that handles a query or adds an item takes one message off its level    *)
(* and puts new ones on lower levels only (flood_forward_query() with one  *)
(* hop less), and only a new search puts messages on top.  A lexicographic *)
(* order of finitely many finite sets has no infinite descent.             *)
THEOREM FloodsRunDown == Spec => [][RunsDown]_vars
<1>1. Init => Finitely
  BY InitInv, FS_EmptySet DEF Init, Finitely
<1>2. Spec => []Finitely
  BY <1>1, StepFinitely, PTL DEF Spec
<1>3. Finitely /\ Finitely' /\ [Next]_vars => [RunsDown]_vars
  <2> SUFFICES ASSUME Finitely, Finitely', Next PROVE RunsDown
    OBVIOUS
  <2>1. Handle => Lowered
    BY QueryLowers, AnswerLowers, AddLowers DEF Handle
  <2>2. (\E n \in Node : Collect(n)) \/ Tick => UNCHANGED <<queries, handling, answers>>
    BY DEF Collect, Tick
  <2> QED
    BY <2>1, <2>2, LevelsHold DEF Next, RunsDown
<1> QED
  BY <1>2, <1>3, PTL DEF Spec
=============================================================================
