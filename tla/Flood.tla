-------------------------------- MODULE Flood --------------------------------
(***************************************************************************)
(* Distributed search: search_distributed() in the console of one client   *)
(* (src/search/neighbors.c), the query it floods over the neighbor lists,  *)
(* flood_handle_message() in a thread per incoming connection at every     *)
(* client (src/search/flood.c), and the aggregator that collects the       *)
(* answers at the origin (src/search/aggregator.c).                        *)
(*                                                                         *)
(* A message is one TCP connection with one frame: it is delivered at most *)
(* once, in any order with the others, or its send fails.  A thread that   *)
(* handles a query registers its id and its origin, and later takes its    *)
(* copy of the neighbor list and sends: other threads may change the list  *)
(* in between.  A thread that handles an answer takes the aggregator's     *)
(* lock for every item.                                                    *)
(***************************************************************************)
EXTENDS Integers, FiniteSetsExt, SequencesExt

CONSTANTS
  Node,          \* clients, each with its own address
  Term, File,    \* search terms and file names
  Matching,      \* Matching[t]: the names that contain term t
  Holdings,      \* Holdings[n]: files n scanned when it started
  Networks,      \* what the server may have told the clients, and searches made
  TTL,           \* the --ttl option of the clients
  MaxTTL,        \* P2P_MAX_TTL
  MaxNeighbors,  \* P2P_MAX_NEIGHBORS
  MaxSeen,       \* MAX_SEEN_QUERIES
  Expiry,        \* QUERY_EXPIRY_SEC
  MaxResults,    \* P2P_MAX_RESULTS
  MaxTime        \* bound: seconds the clock advances

ASSUME FloodAssumption ==
  /\ IsFiniteSet(Node)
  /\ Matching \in [Term -> SUBSET File]
  /\ Holdings \in [Node -> SUBSET File] /\ \A n \in Node : IsFiniteSet(Holdings[n])
  /\ Networks \subseteq [nbrs : [Node -> SUBSET Node], searches : Nat]
  /\ TTL \in Nat /\ MaxTTL \in Nat \ {0} /\ Expiry \in Nat \ {0}
  /\ MaxNeighbors \in Nat \ {0} /\ MaxSeen \in Nat \ {0}
  /\ MaxResults \in Nat \ {0} /\ MaxTime \in Nat
  /\ \A net \in Networks, n \in Node :
       n \notin net.nbrs[n] /\ Cardinality(net.nbrs[n]) <= MaxNeighbors

VARIABLES
  network,   \* the network of this behaviour, with its bound of searches
  nbrs,      \* global_neighbors of each client
  seen,      \* query_cache of each client
  queries,   \* QUERY_FLOOD messages on their way
  handling,  \* those that were new, in the threads still answering them
  answers,   \* QUERY_RESULT messages on their way or being added
  agg,       \* global_aggregator of each client
  waiting,   \* clients whose search_distributed() is in its response window
  results,   \* what it returned last
  clock,     \* time(NULL), the same at every client
  current,   \* history: id of the last search of each client
  issued,    \* history: the searches made
  lost       \* history: a send failed or a share folder was unavailable

vars == <<network, nbrs, seen, queries, handling, answers, agg, waiting, results,
          clock, current, issued, lost>>

(* generate_query_id() seeds rand() with the time and the process id: the  *)
(* id of a search is a function of the two.                                *)
QueryId(n) == <<n, clock>>

Init ==
  /\ network \in Networks
  /\ nbrs = network.nbrs
  /\ seen = [n \in Node |-> {}]
  /\ queries = {}
  /\ handling = {}
  /\ answers = {}
  /\ agg = [n \in Node |-> <<>>]
  /\ waiting = {}
  /\ results = [n \in Node |-> {}]
  /\ clock = 0
  /\ current = [n \in Node |-> <<n, -1>>]
  /\ issued = {}
  /\ lost = FALSE

-----------------------------------------------------------------------------
(* check_and_register_query(): expired ids are purged, and a new id is     *)
(* stored only if there is room for it.                                    *)
Valid(n) == {s \in seen[n] : s.expiry > clock}

(* Mutant: a comparison of no characters finds every id equal.             *)
IsNewIfNone(n, id) == Valid(n) = {}

IsNew(n, id) == \A s \in Valid(n) : s.id # id

(* Mutant: ids are not stored.                                             *)
RegisteredNever(n, id) == Valid(n)

(* Mutant: ids are stored past the end of the array.                       *)
RegisteredAlways(n, id) ==
  IF IsNew(n, id)
  THEN Valid(n) \cup {[id |-> id, expiry |-> clock + Expiry]}
  ELSE Valid(n)

Registered(n, id) ==
  IF IsNew(n, id) /\ Cardinality(Valid(n)) < MaxSeen
  THEN Valid(n) \cup {[id |-> id, expiry |-> clock + Expiry]}
  ELSE Valid(n)

(* neighbors_add(): entries are never removed, and a full list ignores     *)
(* new ones.                                                               *)
WithNeighbor(list, peer) ==
  IF Cardinality(list) < MaxNeighbors THEN list \cup {peer} ELSE list

(* Mutant: the incoming query is sent on instead of its copy.              *)
ForwardedUnchanged(n, query, list) ==
  IF query.ttl <= 0 THEN {}
  ELSE {[query EXCEPT !.from = n, !.to = peer] : peer \in list}

(* Mutant: the TTL of the console is not capped.                           *)
ForwardedUncapped(n, query, list) ==
  IF query.ttl <= 0 THEN {}
  ELSE {[query EXCEPT !.ttl = @ - 1, !.hops = @ + 1,
                      !.from = n, !.to = peer] : peer \in list}

(* Mutant: the last hop is not made.                                       *)
ForwardedShort(n, query, list) ==
  LET ttl == IF query.ttl > MaxTTL THEN MaxTTL ELSE query.ttl
  IN IF ttl <= 1 THEN {}
     ELSE {[query EXCEPT !.ttl = ttl - 1, !.hops = @ + 1,
                         !.from = n, !.to = peer] : peer \in list}

(* flood_forward_query() at node n: a copy for every neighbor in `list'.   *)
(* The sender it should skip is always empty, so nobody is skipped.        *)
Forwarded(n, query, list) ==
  LET ttl == IF query.ttl > MaxTTL THEN MaxTTL ELSE query.ttl
  IN IF ttl <= 0 THEN {}
     ELSE {[query EXCEPT !.ttl = ttl - 1, !.hops = @ + 1,
                         !.from = n, !.to = peer] : peer \in list}

Item(n, f, id) == [owner |-> n, file |-> f, id |-> id]

Found(n, query) ==
  {Item(n, f, query.id) : f \in Holdings[n] \cap Matching[query.term]}

(* Mutant: every file matches.                                             *)
AnswersUnmatched(n, query) ==
  LET found == {Item(n, f, query.id) : f \in Holdings[n]}
  IN {[from |-> n, to |-> query.origin, id |-> query.id, items |-> items] :
        items \in kSubset(Min({Cardinality(found), MaxResults}), found) \ {{}}}

(* What node n may answer to a query: its matches, cut off when the array  *)
(* is full; nothing at all when there are none.                            *)
Answers(n, query) ==
  LET found == Found(n, query)
  IN {[from |-> n, to |-> query.origin, id |-> query.id, items |-> items] :
        items \in kSubset(Min({Cardinality(found), MaxResults}), found) \ {{}}}

-----------------------------------------------------------------------------
(* Mutant: the searching client does not remember its own id.              *)
SearchUnregistered(n, term) ==
  LET query == [id |-> QueryId(n), term |-> term, origin |-> n,
                ttl |-> TTL, hops |-> 0, from |-> n, to |-> n]
      sent == Forwarded(n, query, nbrs[n])
  IN /\ n \notin waiting
     /\ Cardinality(issued) < network.searches
     /\ agg' = [agg EXCEPT ![n] = <<>>]
     /\ \E arrived \in SUBSET sent :
          /\ queries' = queries \cup arrived
          /\ lost' = (lost \/ arrived # sent)
     /\ waiting' = waiting \cup {n}
     /\ results' = [results EXCEPT ![n] = {}]
     /\ current' = [current EXCEPT ![n] = QueryId(n)]
     /\ issued' = issued \cup
          {[origin |-> n, term |-> term, id |-> QueryId(n),
            nth |-> Cardinality(issued)]}
     /\ UNCHANGED <<network, nbrs, seen, handling, answers, clock>>

(* search_distributed() up to the response window: clear the aggregator,   *)
(* register the new id (ignoring whether it was new), flood the query.     *)
Search(n, term) ==
  LET query == [id |-> QueryId(n), term |-> term, origin |-> n,
                ttl |-> TTL, hops |-> 0, from |-> n, to |-> n]
      sent == Forwarded(n, query, nbrs[n])
  IN /\ n \notin waiting
     /\ Cardinality(issued) < network.searches
     /\ agg' = [agg EXCEPT ![n] = <<>>]
     /\ seen' = [seen EXCEPT ![n] = Registered(n, QueryId(n))]
     /\ \E arrived \in SUBSET sent :
          /\ queries' = queries \cup arrived
          /\ lost' = (lost \/ arrived # sent)
     /\ waiting' = waiting \cup {n}
     /\ results' = [results EXCEPT ![n] = {}]
     /\ current' = [current EXCEPT ![n] = QueryId(n)]
     /\ issued' = issued \cup
          {[origin |-> n, term |-> term, id |-> QueryId(n),
            nth |-> Cardinality(issued)]}
     /\ UNCHANGED <<network, nbrs, handling, answers, clock>>

(* The window ends: aggregator_collect(), then drop the client's own files. *)
Collect(n) ==
  /\ n \in waiting
  /\ results' = [results EXCEPT ![n] =
                    {item \in ToSet(agg[n]) : item.owner # n}]
  /\ waiting' = waiting \ {n}
  /\ UNCHANGED <<network, nbrs, seen, queries, handling, answers, agg, clock,
                 current, issued, lost>>

(* The QUERY_FLOOD case of flood_handle_message() for a known id.          *)
DropQuery(m) ==
  /\ ~IsNew(m.to, m.id)
  /\ queries' = queries \ {m}
  /\ seen' = [seen EXCEPT ![m.to] = Registered(m.to, m.id)]
  /\ UNCHANGED <<network, nbrs, handling, answers, agg, waiting, results,
                 clock, current, issued, lost>>

(* The same for a new id: remember it, and learn the origin.               *)
AcceptQuery(m) ==
  /\ IsNew(m.to, m.id)
  /\ queries' = queries \ {m}
  /\ handling' = handling \cup {m}
  /\ seen' = [seen EXCEPT ![m.to] = Registered(m.to, m.id)]
  /\ nbrs' = [nbrs EXCEPT ![m.to] = WithNeighbor(@, m.origin)]
  /\ UNCHANGED <<network, answers, agg, waiting, results, clock, current,
                 issued, lost>>

(* The rest of its handler: the matches of the startup scan go directly to *)
(* the origin (none if the share folder is unavailable), and the query to  *)
(* the neighbors.                                                          *)
AnswerQuery(m) ==
  LET sent == Forwarded(m.to, m, nbrs[m.to])
  IN /\ handling' = handling \ {m}
     /\ \E arrived \in SUBSET sent,
           answered \in {{}} \cup {{a} : a \in Answers(m.to, m)} :
          /\ queries' = queries \cup arrived
          /\ answers' = answers \cup answered
          /\ lost' = (lost \/ arrived # sent
                      \/ (answered = {} /\ Answers(m.to, m) # {}))
     /\ UNCHANGED <<network, nbrs, seen, agg, waiting, results, clock, current,
                    issued>>

(* aggregator_add(): a full aggregator drops the item.                     *)
Added(list, item) == IF Len(list) < MaxResults THEN Append(list, item) ELSE list

(* The QUERY_RESULT case: one turn of its loop.  The id of the answer is   *)
(* not looked at.                                                          *)
AddResult(m, item) ==
  LET rest == m.items \ {item}
  IN /\ agg' = [agg EXCEPT ![m.to] = Added(@, item)]
     /\ answers' = (answers \ {m}) \cup
          (IF rest = {} THEN {} ELSE {[m EXCEPT !.items = rest]})
     /\ UNCHANGED <<network, nbrs, seen, queries, handling, waiting, results,
                    clock, current, issued, lost>>

Tick ==
  /\ clock < MaxTime
  /\ clock' = clock + 1
  /\ UNCHANGED <<network, nbrs, seen, queries, handling, answers, agg, waiting,
                 results, current, issued, lost>>

Handle ==
  \/ \E m \in queries : DropQuery(m) \/ AcceptQuery(m)
  \/ \E m \in handling : AnswerQuery(m)
  \/ \E m \in answers : \E item \in m.items : AddResult(m, item)

Next ==
  \/ \E n \in Node : Collect(n) \/ \E term \in Term : Search(n, term)
  \/ Handle
  \/ Tick

Spec == Init /\ [][Next]_vars

(* A frame that was delivered is handled, and nanosleep() returns.  New    *)
(* searches and the passing of time are up to the users.                   *)
FairSpec ==
  /\ Spec
  /\ WF_vars(Handle)
  /\ \A n \in Node : WF_vars(Collect(n))

-----------------------------------------------------------------------------
(* Properties. *)

Ids == Node \X (-1 .. MaxTime)
Items == [owner : Node, file : File, id : Ids]
Query == [id : Ids, term : Term, origin : Node, ttl : 0 .. MaxTTL,
          hops : 0 .. MaxTTL, from : Node, to : Node]

(* Types; a neighbor list and a query cache never exceed their arrays.     *)
TypeOK ==
  /\ nbrs \in [Node -> SUBSET Node]
  /\ \A n \in Node :
       /\ Cardinality(nbrs[n]) <= MaxNeighbors
       /\ Cardinality(seen[n]) <= MaxSeen
       /\ Len(agg[n]) <= MaxResults
  /\ seen \in [Node -> SUBSET [id : Ids, expiry : Nat]]
  /\ queries \cup handling \subseteq Query
  /\ answers \subseteq
       [from : Node, to : Node, id : Ids, items : SUBSET Items]
  /\ agg \in [Node -> Seq(Items)] /\ results \in [Node -> SUBSET Items]
  /\ waiting \subseteq Node
  /\ clock \in 0 .. MaxTime
  /\ lost \in BOOLEAN

(* While ids are remembered, a client answers a query once, whatever the   *)
(* number of paths the flood takes to it: no file is listed twice.         *)
NoDuplicateResults ==
  \A n \in Node : \A j, k \in DOMAIN agg[n] : agg[n][j] = agg[n][k] => j = k

(* While ids are remembered, a client never becomes its own neighbor,      *)
(* although its own queries come back to it with itself as the origin.     *)
NeverOwnNeighbor == \A n \in Node : n \notin nbrs[n]

(* A query makes at most P2P_MAX_TTL hops, even if ids are forgotten.      *)
HopBound ==
  \A m \in queries \cup handling : m.hops <= MaxTTL /\ m.hops + m.ttl <= MaxTTL

(* The clients there is a path to from `origin' over the initial neighbor  *)
(* lists: the smallest set with the origin that no list leads out of.      *)
Within(origin) ==
  {n \in Node : \A set \in SUBSET Node :
     origin \in set /\ (\A p \in set : network.nbrs[p] \subseteq set) => n \in set}

Known(n, id) == \E s \in seen[n] : s.id = id

(* Searches that got the id of another one are set apart.                  *)
Repeated(s) == \E t \in issued : t # s /\ t.id = s.id

FloodOver == queries = {} /\ handling = {} /\ ~lost

(* If nothing was lost and the TTL allows for as many hops as there are    *)
(* other clients, the id of a flood that has died out is known to every    *)
(* client there is a path to: dropping what was seen already loses nobody, *)
(* although the copy that came first may have travelled furthest.          *)
FloodReachesAll ==
  FloodOver /\ TTL >= Cardinality(Node) - 1 /\ MaxTTL >= Cardinality(Node) - 1 =>
    \A s \in issued : \A n \in Within(s.origin) : Known(n, s.id)

(* Then, once the answers have arrived too, the aggregator has every       *)
(* matching file of those clients, unless it is full.                      *)
SearchComplete ==
  FloodOver /\ answers = {}
  /\ TTL >= Cardinality(Node) - 1 /\ MaxTTL >= Cardinality(Node) - 1 =>
    \A s \in issued :
      ~Repeated(s) /\ s.id = current[s.origin] /\ Len(agg[s.origin]) < MaxResults =>
        \A n \in Within(s.origin) \ {s.origin} :
          \A f \in Holdings[n] \cap Matching[s.term] :
            \E k \in DOMAIN agg[s.origin] : agg[s.origin][k] = Item(n, f, s.id)

(* The files that may still be collected: those of clients that have not   *)
(* seen the id, those a thread is answering with, and those in answers.    *)
Owed ==
  LET unasked == {x \in issued \X Node : ~Known(x[2], x[1].id)}
  IN UNION ({[to : {x[1].origin}, item : Found(x[2], x[1])] : x \in unasked}
            \cup {[to : {m.origin}, item : Found(m.to, m)] : m \in handling}
            \cup {[to : {m.to}, item : m.items] : m \in answers})

Promise == INSTANCE Lookup WITH Id <- Ids, owed <- Owed

(* While ids are remembered, the flood implements Lookup: whatever paths   *)
(* queries and answers take, a search collects nothing but files that      *)
(* their owners have and that match a search of this client, each at most  *)
(* once per search.                                                        *)
ImplementsLookup == Promise!Spec

(* Every flood dies out, even when the caches are full and queries are     *)
(* processed again and again: the TTL alone is enough.                     *)
FloodDiesOut == <>[](queries = {} /\ handling = {} /\ answers = {})

(* docs/main.tex says that the aggregator, cleared between searches, keeps *)
(* asynchronous answers from interfering with the console: what a search   *)
(* returns are answers to that search.                                     *)
ResultsAnswerSearch ==
  \A n \in Node : \A item \in results[n] : item.id = current[n]
=============================================================================
