--------------------------- MODULE RegistryProofs ---------------------------
(***************************************************************************)
(* Theorems about Registry, for every capacity, neighbor and result limit, *)
(* set of clients and number of connections.                               *)
(***************************************************************************)
EXTENDS Registry, FiniteSetTheorems, SequenceTheorems, TLAPS

EntrySet == [peer : Peer, lastSeen : 0 .. MaxTime, files : SUBSET File]

-----------------------------------------------------------------------------
(* Minima and counting. *)

LEMMA MinOfOne ==
  ASSUME NEW a \in Int
  PROVE  Min({a}) = a
  BY DEF Min

LEMMA MinOfTwo ==
  ASSUME NEW a \in Int, NEW b \in Int
  PROVE  Min({a, b}) = IF a <= b THEN a ELSE b
<1> DEFINE m == IF a <= b THEN a ELSE b
<1>1. m \in {a, b} /\ \A y \in {a, b} : m <= y
  OBVIOUS
<1>2. \A x \in {a, b} : (\A y \in {a, b} : x <= y) => x = m
  OBVIOUS
<1>3. Min({a, b}) \in {a, b} /\ \A y \in {a, b} : Min({a, b}) <= y
  BY <1>1 DEF Min
<1> QED
  BY <1>2, <1>3

(* Of a set of slots, those with fewer than K above them are K, or all.    *)
LEMMA TopCount ==
  ASSUME NEW n \in Nat, NEW O \in SUBSET (1 .. n), NEW K \in Nat
  PROVE  LET R == {i \in O : Cardinality({j \in O : j > i}) < K}
         IN Cardinality(R) = Min({Cardinality(O), K})
<1> DEFINE Above(i) == {j \in O : j > i}
           R == {i \in O : Cardinality(Above(i)) < K}
           N == Cardinality(O)
           rank == [i \in O |-> Cardinality(Above(i))]
           m == IF N <= K THEN N ELSE K
<1>1. IsFiniteSet(O) /\ N \in Nat
  <2>1. IsFiniteSet(1 .. n)
    BY FS_Interval
  <2>2. IsFiniteSet(O)
    BY <2>1, FS_Subset
  <2> QED
    BY <2>2, FS_CardinalityType
<1>2. \A i \in O : IsFiniteSet(Above(i)) /\ Cardinality(Above(i)) \in 0 .. N - 1
  <2> SUFFICES ASSUME NEW i \in O
               PROVE  IsFiniteSet(Above(i)) /\ Cardinality(Above(i)) \in 0 .. N - 1
    OBVIOUS
  <2>1. IsFiniteSet(O \ {i}) /\ Cardinality(O \ {i}) = N - 1
    BY <1>1, FS_RemoveElement
  <2>2. Above(i) \in SUBSET (O \ {i})
    OBVIOUS
  <2>3. IsFiniteSet(Above(i)) /\ Cardinality(Above(i)) <= N - 1
    BY <2>1, <2>2, FS_Subset
  <2> QED
    BY <2>3, <1>1, FS_CardinalityType
<1>3. \A i, j \in O : i < j => rank[j] < rank[i]
  <2> SUFFICES ASSUME NEW i \in O, NEW j \in O, i < j
               PROVE  Cardinality(Above(j)) < Cardinality(Above(i))
    OBVIOUS
  <2>1. IsFiniteSet(Above(i) \ {j}) /\ Cardinality(Above(i) \ {j}) = Cardinality(Above(i)) - 1
    <3>1. j \in Above(i)
      OBVIOUS
    <3> QED
      BY <3>1, <1>2, FS_RemoveElement
  <2>2. Above(j) \in SUBSET (Above(i) \ {j})
    <3>1. \A k \in O : k \in Int
      OBVIOUS
    <3>2. \A k \in O : k > j => k > i /\ k # j
      BY <3>1
    <3> QED
      BY <3>2
  <2>3. Cardinality(Above(j)) <= Cardinality(Above(i)) - 1
    BY <2>1, <2>2, FS_Subset
  <2> QED
    BY <2>3, <1>2
<1>4. rank \in Injection(O, 0 .. N - 1)
  <2>1. rank \in [O -> 0 .. N - 1]
    BY <1>2
  <2>2. \A i, j \in O : rank[i] = rank[j] => i = j
    <3> SUFFICES ASSUME NEW i \in O, NEW j \in O, rank[i] = rank[j]
                 PROVE  i = j
      OBVIOUS
    <3>1. i \in Int /\ j \in Int /\ rank[i] \in Int /\ rank[j] \in Int
      BY <2>1
    <3> QED
      BY <3>1, <1>3
  <2> HIDE DEF rank
  <2> QED
    BY <2>1, <2>2 DEF Injection, IsInjective
<1>5. rank \in Surjection(O, 0 .. N - 1)
  <2>1. IsFiniteSet(0 .. N - 1) /\ Cardinality(0 .. N - 1) = N
    BY <1>1, FS_Interval
  <2> HIDE DEF rank
  <2> QED
    BY <1>4, <2>1, FS_Injection
<1>6. m \in Nat /\ IsFiniteSet(0 .. m - 1) /\ Cardinality(0 .. m - 1) = m
  <2>1. m \in Nat
    BY <1>1
  <2> HIDE DEF m
  <2> QED
    BY <2>1, FS_Interval
<1> DEFINE f == [i \in R |-> rank[i]]
<1>7. f \in Bijection(R, 0 .. m - 1)
  <2>1. f \in [R -> 0 .. m - 1]
    <3> SUFFICES ASSUME NEW i \in R
                 PROVE  rank[i] \in 0 .. m - 1
      OBVIOUS
    <3>1. rank[i] \in 0 .. N - 1 /\ rank[i] < K
      BY <1>2
    <3> QED
      BY <3>1, <1>1
  <2>2. \A i, j \in R : f[i] = f[j] => i = j
    BY <1>4 DEF Injection, IsInjective
  <2>3. \A t \in 0 .. m - 1 : \E i \in R : f[i] = t
    <3> SUFFICES ASSUME NEW t \in 0 .. m - 1
                 PROVE  \E i \in R : f[i] = t
      OBVIOUS
    <3>1. t \in 0 .. N - 1 /\ t < K
      BY <1>1
    <3>2. PICK i \in O : rank[i] = t
      BY <3>1, <1>5 DEF Surjection
    <3> QED
      BY <3>1, <3>2
  <2> HIDE DEF f, m, R
  <2> QED
    BY <2>1, <2>2, <2>3 DEF Bijection, Injection, Surjection, IsInjective
<1>8. Cardinality(R) = m
  <2>1. IsFiniteSet(R)
    BY <1>1, FS_Subset
  <2>2. ExistsBijection(R, 0 .. m - 1)
    BY <1>7 DEF ExistsBijection
  <2> HIDE DEF R, m
  <2> QED
    BY <1>6, <2>1, <2>2, FS_Bijection
<1> QED
  BY <1>8, <1>1, MinOfTwo

-----------------------------------------------------------------------------
(* What storing a client does to the array. *)

PeersOK == peers \in Seq(EntrySet) /\ Len(peers) <= Capacity /\ UniquePeers

(* registry_register_peer() changes one slot, or adds one at the end.      *)
LEMMA StoreEffect ==
  ASSUME PeersOK, clock \in 0 .. MaxTime,
         NEW p \in Peer, NEW fs \in SUBSET File,
         HasRoom(p), Store(p, fs)
  PROVE  /\ PeersOK'
         /\ Len(peers') >= Len(peers)
         /\ \A i \in Slots : peers'[i].peer = peers[i].peer
         /\ \A i \in Slots' : peers'[i].peer = p \/ (i \in Slots /\ peers'[i] = peers[i])
         /\ \E i \in Slots' : peers'[i] = Entry(p, fs)
<1> DEFINE e == Entry(p, fs)
<1>1. e \in EntrySet /\ e.peer = p
  BY DEF Entry, EntrySet
<1>2. peers \in Seq(EntrySet) /\ Slots = 1 .. Len(peers) /\ Len(peers) \in Nat
  BY DEF PeersOK, Slots
<1>3. CASE SlotsOf(p) # {}
  <2>1. PICK k \in Slots : peers[k].peer = p
    BY <1>3 DEF SlotsOf
  <2>2. SlotsOf(p) = {k}
    BY <2>1 DEF SlotsOf, PeersOK, UniquePeers
  <2>3. Min(SlotsOf(p)) = k
    BY <2>1, <2>2, <1>2, MinOfOne
  <2>4. peers' = [peers EXCEPT ![k] = e]
    BY <1>3, <2>3 DEF Store
  <2> HIDE DEF e
  <2>5. peers' \in Seq(EntrySet) /\ Len(peers') = Len(peers)
    BY <2>4, <2>1, <1>1, <1>2, ExceptSeq
  <2>6. Slots' = Slots /\ peers'[k] = e /\ \A i \in Slots \ {k} : peers'[i] = peers[i]
    BY <2>4, <2>5, <2>1, <1>2 DEF Slots
  <2>7. UniquePeers'
    BY <2>6, <2>1, <1>1 DEF UniquePeers, PeersOK
  <2> QED
    BY <2>1, <2>5, <2>6, <2>7, <1>1, <1>2 DEF PeersOK, e
<1>4. CASE SlotsOf(p) = {}
  <2>1. peers' = Append(peers, e) /\ Len(peers) < Capacity
    BY <1>4 DEF Store, HasRoom
  <2>2. \A i \in Slots : peers[i].peer # p
    BY <1>4 DEF SlotsOf
  <2> HIDE DEF e
  <2>3. /\ peers' \in Seq(EntrySet)
        /\ Len(peers') = Len(peers) + 1
        /\ \A i \in 1 .. Len(peers) : peers'[i] = peers[i]
        /\ peers'[Len(peers) + 1] = e
    BY <2>1, <1>1, <1>2, AppendProperties
  <2>4. Slots' = Slots \cup {Len(peers) + 1}
    BY <2>3, <1>2 DEF Slots
  <2>5. UniquePeers'
    BY <2>2, <2>3, <2>4, <1>1, <1>2 DEF UniquePeers, PeersOK
  <2>6. Len(peers') <= Capacity
    BY <2>1, <2>3, <1>2, RegistryAssumption
  <2> QED
    BY <2>3, <2>4, <2>5, <2>6, <1>1, <1>2 DEF PeersOK, e
<1> QED
  BY <1>3, <1>4

-----------------------------------------------------------------------------
(* The invariant: the registry, and for every connection what its progress *)
(* and its reply say about the registry.                                   *)

Full == [kind |-> "full"]

(* A registration that has been stored is listed, and one that was refused *)
(* is not, and never will be: the registry is full.                        *)
Stored(c) ==
  /\ pc[c] \in {"recent", "done"}
  /\ req[c].op = "register"
  /\ Listed(req[c].peer)

ThreadOK(c) ==
  /\ pc[c] = "free" => req[c] = NoRequest
  /\ pc[c] # "done" => reply[c] = NoReply
  /\ pc[c] = "recent" => Stored(c)
  /\ pc[c] = "done" /\ req[c].op = "register" /\ reply[c] # Full => Stored(c)
  /\ reply[c] = Full =>
       /\ req[c] \in [op : {"register"}, peer : Peer, files : Shares]
       /\ ~Listed(req[c].peer)
       /\ Len(peers) = Capacity

RegistryInv == TypeOK /\ UniquePeers /\ \A c \in Conn : ThreadOK(c)

LEMMA InitInv == Init => RegistryInv
<1> SUFFICES ASSUME Init PROVE RegistryInv
  OBVIOUS
<1>1. TypeOK
  BY RegistryAssumption, EmptySeq DEF Init, TypeOK, NoRequest
<1>2. UniquePeers
  BY DEF Init, UniquePeers, Slots
<1>3. \A c \in Conn : ThreadOK(c)
  BY NoReplyAssumption DEF Init, ThreadOK, NoRequest, Full, Replies
<1> QED
  BY <1>1, <1>2, <1>3 DEF RegistryInv

LEMMA InvPeersOK == RegistryInv => PeersOK
  BY DEF RegistryInv, TypeOK, PeersOK, EntrySet

LEMMA SlotTypes ==
  ASSUME RegistryInv
  PROVE  /\ Len(peers) \in Nat /\ Slots = 1 .. Len(peers)
         /\ \A i \in Slots : peers[i] \in EntrySet /\ peers[i].peer \in Peer
<1>1. peers \in Seq(EntrySet)
  BY DEF RegistryInv, TypeOK, EntrySet
<1>2. \A i \in 1 .. Len(peers) : peers[i] \in EntrySet
  BY <1>1
<1> QED
  BY <1>1, <1>2 DEF Slots, EntrySet

(* A step that leaves the registry alone leaves Listed and Stored alone.   *)
LEMMA QuietStep ==
  ASSUME RegistryInv, UNCHANGED peers, TypeOK', \A c \in Conn : ThreadOK(c)'
  PROVE  RegistryInv'
  BY DEF RegistryInv, UniquePeers, Slots

LEMMA QuietThread ==
  ASSUME NEW c \in Conn, ThreadOK(c), UNCHANGED peers,
         pc'[c] = pc[c], req'[c] = req[c], reply'[c] = reply[c]
  PROVE  ThreadOK(c)'
  BY DEF ThreadOK, Stored, Listed, Slots

LEMMA RegisterPeerInv ==
  ASSUME RegistryInv, NEW c \in Conn, RegisterPeer(c)
  PROVE  RegistryInv'
<1> DEFINE p == req[c].peer
<1>1. p \in Peer /\ req[c].files \in SUBSET File /\ req[c].op = "register"
  BY RegistryAssumption
     DEF RegistryInv, TypeOK, RegisterPeer, Handling, Request, NoRequest
<1>2. PeersOK /\ clock \in 0 .. MaxTime
  BY InvPeersOK DEF RegistryInv, TypeOK
<1>3. HasRoom(p) /\ Store(p, req[c].files)
  BY DEF RegisterPeer
<1> HIDE DEF p
<1>4. /\ PeersOK'
      /\ Len(peers') >= Len(peers)
      /\ \A i \in Slots : peers'[i].peer = peers[i].peer
      /\ \A i \in Slots' : peers'[i].peer = p \/ (i \in Slots /\ peers'[i] = peers[i])
      /\ \E i \in Slots' : peers'[i] = Entry(p, req[c].files)
  BY <1>1, <1>2, <1>3, StoreEffect
<1>5. Len(peers) \in Nat /\ Len(peers') \in Nat /\ Capacity \in Nat
      /\ Slots = 1 .. Len(peers) /\ Slots' = 1 .. Len(peers')
      /\ Len(peers) <= Capacity /\ Len(peers') <= Capacity
  BY <1>2, <1>4, RegistryAssumption DEF PeersOK, Slots
<1>6. \A q : Listed(q) => Listed(q)'
  <2>1. Slots \subseteq Slots'
    BY <1>4, <1>5
  <2> QED
    BY <2>1, <1>4 DEF Listed
<1>7. Listed(p)'
  <2>1. Entry(p, req[c].files).peer = p
    BY DEF Entry
  <2>2. \E i \in Slots' : peers'[i].peer = p
    BY <2>1, <1>4
  <2>3. p' = p
    BY DEF RegisterPeer, p
  <2> QED
    BY <2>2, <2>3 DEF Listed
<1>8. ASSUME NEW q, ~Listed(q), Len(peers) = Capacity
      PROVE  ~Listed(q)' /\ Len(peers') = Capacity
  <2>1. SlotsOf(p) # {}
    BY <1>3, <1>5, <1>8 DEF HasRoom
  <2>2. Listed(p)
    BY <2>1 DEF SlotsOf, Listed
  <2>3. ~Listed(q)'
    BY <2>2, <1>4, <1>8 DEF Listed
  <2> QED
    BY <2>3, <1>4, <1>5, <1>8
<1>9. TypeOK'
  BY <1>4 DEF RegistryInv, TypeOK, PeersOK, EntrySet, RegisterPeer
<1>10. ASSUME NEW d \in Conn
       PROVE  ThreadOK(d)'
  <2>1. req' = req /\ reply' = reply /\ ThreadOK(d)
    BY DEF RegisterPeer, RegistryInv
  <2>2. CASE d = c
    <3>1. pc[c] = "handle" /\ pc'[c] = "recent"
      BY DEF RegisterPeer, Handling, RegistryInv, TypeOK
    <3>2. reply[c] = NoReply
      BY <2>1, <2>2, <3>1 DEF ThreadOK
    <3>3. NoReply # Full
      BY NoReplyAssumption DEF Replies, Full
    <3>4. Stored(c)'
      BY <3>1, <2>1, <1>1, <1>7 DEF Stored, p
    <3> QED
      BY <2>1, <2>2, <3>1, <3>2, <3>3, <3>4 DEF ThreadOK
  <2>3. CASE d # c
    <3>1. pc'[d] = pc[d]
      BY <2>3 DEF RegisterPeer, RegistryInv, TypeOK
    <3>2. Stored(d) => Stored(d)'
      BY <3>1, <2>1, <1>6 DEF Stored
    <3>3. ~Listed(req[d].peer) /\ Len(peers) = Capacity
          => ~Listed(req[d].peer)' /\ Len(peers') = Capacity
      BY <1>8, <2>1
    <3> QED
      BY <2>1, <3>1, <3>2, <3>3 DEF ThreadOK
  <2> QED
    BY <2>2, <2>3
<1> QED
  BY <1>4, <1>9, <1>10 DEF RegistryInv, PeersOK

LEMMA NextInv == RegistryInv /\ [Next]_vars => RegistryInv'
<1> SUFFICES ASSUME RegistryInv, [Next]_vars
             PROVE  RegistryInv'
  OBVIOUS
<1> USE DEF RegistryInv
<1>0. NoReply # Full /\ Full \in Replies /\ [kind |-> "error"] \in Replies
      /\ [kind |-> "error"] # Full
  BY NoReplyAssumption DEF Replies, Full
<1>1. ASSUME NEW c \in Conn, NEW r \in Request, Accept(c, r)
      PROVE  RegistryInv'
  <2>1. TypeOK'
    BY <1>1 DEF Accept, TypeOK
  <2>2. ASSUME NEW d \in Conn
        PROVE  ThreadOK(d)'
    <3>1. CASE d = c
      <4>1. pc[c] = "free" /\ pc'[c] = "handle" /\ reply'[c] = reply[c]
        BY <1>1 DEF Accept, TypeOK
      <4>2. reply[c] = NoReply
        BY <4>1 DEF ThreadOK
      <4> QED
        BY <3>1, <4>1, <4>2, <1>0 DEF ThreadOK
    <3>2. CASE d # c
      BY <3>2, <1>1, QuietThread DEF Accept, TypeOK
    <3> QED
      BY <3>1, <3>2
  <2> QED
    BY <2>1, <2>2, <1>1, QuietStep DEF Accept
<1>2. ASSUME NEW c \in Conn, ReceiveFails(c)
      PROVE  RegistryInv'
  <2>1. TypeOK'
    BY <1>2 DEF ReceiveFails, TypeOK
  <2>2. ASSUME NEW d \in Conn
        PROVE  ThreadOK(d)'
    <3>1. CASE d = c
      <4>1. pc'[c] = "done" /\ req'[c] = NoRequest /\ reply'[c] = NoReply
        BY <1>2 DEF ReceiveFails, TypeOK, ThreadOK
      <4> QED
        BY <3>1, <4>1, <1>0 DEF ThreadOK, NoRequest
    <3>2. CASE d # c
      BY <3>2, <1>2, QuietThread DEF ReceiveFails, TypeOK
    <3> QED
      BY <3>1, <3>2
  <2> QED
    BY <2>1, <2>2, <1>2, QuietStep DEF ReceiveFails
<1>3. ASSUME NEW c \in Conn, RejectRequest(c)
      PROVE  RegistryInv'
  <2>1. TypeOK'
    BY <1>3, <1>0 DEF RejectRequest, Reply, TypeOK
  <2>2. ASSUME NEW d \in Conn
        PROVE  ThreadOK(d)'
    <3>1. CASE d = c
      <4>1. pc'[c] = "done" /\ req'[c].op = "malformed" /\ reply'[c] = [kind |-> "error"]
        BY <1>3 DEF RejectRequest, Handling, Reply, TypeOK
      <4> QED
        BY <3>1, <4>1, <1>0 DEF ThreadOK
    <3>2. CASE d # c
      BY <3>2, <1>3, QuietThread DEF RejectRequest, Reply, TypeOK
    <3> QED
      BY <3>1, <3>2
  <2> QED
    BY <2>1, <2>2, <1>3, QuietStep DEF RejectRequest
<1>4. ASSUME NEW c \in Conn, RegistryFull(c)
      PROVE  RegistryInv'
  <2>1. TypeOK'
    BY <1>4, <1>0 DEF RegistryFull, Reply, TypeOK, Full
  <2>2. ASSUME NEW d \in Conn
        PROVE  ThreadOK(d)'
    <3>1. CASE d = c
      <4>1. pc'[c] = "done" /\ req' = req /\ reply'[c] = Full
        BY <1>4 DEF RegistryFull, Reply, TypeOK, Full
      <4>2. req[c] \in [op : {"register"}, peer : Peer, files : Shares]
        BY <1>4 DEF RegistryFull, Handling, TypeOK, Request, NoRequest
      <4>3. ~Listed(req[c].peer)
        BY <1>4 DEF RegistryFull, HasRoom, SlotsOf, Listed
      <4>4. Len(peers) = Capacity
        <5>1. Len(peers) >= Capacity /\ Len(peers) \in Nat
          BY <1>4, RegistryAssumption DEF RegistryFull, HasRoom, TypeOK
        <5> QED
          BY <5>1, RegistryAssumption DEF TypeOK
      <4>5. (~Listed(req[c].peer))' /\ (Len(peers) = Capacity)'
        BY <1>4, <4>1, <4>3, <4>4 DEF RegistryFull, Listed, Slots
      <4> QED
        BY <3>1, <4>1, <4>2, <4>5 DEF ThreadOK
    <3>2. CASE d # c
      BY <3>2, <1>4, QuietThread DEF RegistryFull, Reply, TypeOK
    <3> QED
      BY <3>1, <3>2
  <2> QED
    BY <2>1, <2>2, <1>4, QuietStep DEF RegistryFull
<1>5. ASSUME NEW c \in Conn, ListNeighbors(c)
      PROVE  RegistryInv'
  <2> DEFINE told == [kind |-> "neighbors",
                      peers |-> {peers[i].peer : i \in RecentSlots(req[c].peer)}]
  <2>1. told \in Replies /\ told # Full
    <3>1. \A i \in RecentSlots(req[c].peer) : peers[i].peer \in Peer
      BY SlotTypes DEF RecentSlots
    <3> QED
      BY <3>1 DEF Replies, Full
  <2> HIDE DEF told
  <2>2. Reply(c, told) /\ peers' = peers /\ pc[c] = "recent"
    BY <1>5 DEF ListNeighbors, told
  <2>3. TypeOK'
    BY <2>1, <2>2 DEF Reply, TypeOK
  <2>4. ASSUME NEW d \in Conn
        PROVE  ThreadOK(d)'
    <3>1. CASE d = c
      <4>1. pc'[c] = "done" /\ req' = req /\ reply'[c] = told
        BY <2>2 DEF Reply, TypeOK
      <4>2. Stored(c)
        BY <2>2 DEF ThreadOK
      <4>3. Stored(c)'
        BY <4>1, <4>2, <2>2 DEF Stored, Listed, Slots
      <4> QED
        BY <3>1, <4>1, <4>3, <2>1 DEF ThreadOK
    <3>2. CASE d # c
      BY <3>2, <2>2, QuietThread DEF Reply, TypeOK
    <3> QED
      BY <3>1, <3>2
  <2> QED
    BY <2>2, <2>3, <2>4, QuietStep
<1>6. ASSUME NEW c \in Conn, FindFiles(c)
      PROVE  RegistryInv'
  <2> DEFINE Items(S) == {[owner |-> peers[h[1]].peer, file |-> h[2]] : h \in S}
             found(S) == [kind |-> "found", items |-> Items(S)]
  <2>1. PICK S \in Results(req[c].term) : Reply(c, found(S))
    BY <1>6 DEF FindFiles
  <2>2. found(S) \in Replies /\ found(S) # Full
    <3>1. S \subseteq Hits(req[c].term)
      BY DEF Results, kSubset
    <3>2. \A h \in Hits(req[c].term) : h[1] \in Slots /\ h[2] \in File
      BY RegistryAssumption, <1>6
         DEF Hits, Selected, FindFiles, Handling, TypeOK, Request, NoRequest
    <3>3. \A h \in S : [owner |-> peers[h[1]].peer, file |-> h[2]]
                       \in [owner : Peer, file : File]
      BY <3>1, <3>2, SlotTypes
    <3>4. Items(S) \subseteq [owner : Peer, file : File]
      BY <3>3
    <3> HIDE DEF Items
    <3> QED
      BY <3>4 DEF Replies, Full
  <2> HIDE DEF found
  <2>3. peers' = peers /\ pc[c] = "handle" /\ req[c].op = "find"
    BY <1>6 DEF FindFiles, Handling
  <2>4. TypeOK'
    BY <2>1, <2>2, <2>3 DEF Reply, TypeOK
  <2>5. ASSUME NEW d \in Conn
        PROVE  ThreadOK(d)'
    <3>1. CASE d = c
      <4>1. pc'[c] = "done" /\ req' = req /\ reply'[c] = found(S)
        BY <2>1 DEF Reply, TypeOK
      <4> QED
        BY <3>1, <4>1, <2>2, <2>3 DEF ThreadOK
    <3>2. CASE d # c
      BY <3>2, <2>1, <2>3, QuietThread DEF Reply, TypeOK
    <3> QED
      BY <3>1, <3>2
  <2> QED
    BY <2>3, <2>4, <2>5, QuietStep
<1>7. CASE Tick
  <2>1. TypeOK'
    BY <1>7, RegistryAssumption DEF Tick, TypeOK
  <2> QED
    BY <2>1, <1>7, QuietThread, QuietStep DEF Tick
<1>8. CASE UNCHANGED vars
  <2>1. TypeOK'
    BY <1>8 DEF vars, TypeOK
  <2> QED
    BY <2>1, <1>8, QuietThread, QuietStep DEF vars
<1>9. ASSUME NEW c \in Conn, RegisterPeer(c)
      PROVE  RegistryInv'
  BY <1>9, RegisterPeerInv
<1> QED
  BY <1>1, <1>2, <1>3, <1>4, <1>5, <1>6, <1>7, <1>8, <1>9 DEF Next

(* Every reachable registry satisfies the invariant.                       *)
THEOREM Invariant == Spec => []RegistryInv
  BY InitInv, NextInv, PTL DEF Spec

-----------------------------------------------------------------------------
(* The safety properties. *)

(* registry.c, query_handler.c: the state has its types, and the array     *)
(* never holds more than REGISTRY_MAX_PEERS peers.                         *)
THEOREM RegistryTypes == Spec => []TypeOK
<1>1. RegistryInv => TypeOK
  BY DEF RegistryInv
<1> QED
  BY <1>1, Invariant, PTL

(* registry_register_peer() never gives a client a second slot, however    *)
(* the registrations of the connection threads interleave.                 *)
THEOREM OneSlotEach == Spec => []UniquePeers
<1>1. RegistryInv => UniquePeers
  BY DEF RegistryInv
<1> QED
  BY <1>1, Invariant, PTL

(* handle_register(): a client whose registration was stored stays listed. *)
THEOREM AcceptedStay == Spec => []WelcomedStayListed
<1>1. RegistryInv => WelcomedStayListed
  BY DEF RegistryInv, ThreadOK, Stored, WelcomedStayListed, Welcomed, Full
<1> QED
  BY <1>1, Invariant, PTL

(* handle_register(): a client that was answered "registry full" is not    *)
(* listed then or later, since registry.c never frees a slot.              *)
THEOREM RefusedNeverIn == Spec => []RefusedStayOut
<1>1. RegistryInv => RefusedStayOut
  BY DEF RegistryInv, ThreadOK, RefusedStayOut, Full
<1> QED
  BY <1>1, Invariant, PTL

LEMMA SlotsKept ==
  ASSUME RegistryInv, [Next]_vars
  PROVE  /\ Len(peers') >= Len(peers)
         /\ \A i \in Slots : peers'[i].peer = peers[i].peer
<1>1. CASE peers' = peers
  BY <1>1, SlotTypes
<1>2. ASSUME NEW c \in Conn, RegisterPeer(c)
      PROVE  /\ Len(peers') >= Len(peers)
             /\ \A i \in Slots : peers'[i].peer = peers[i].peer
  <2>1. req[c].peer \in Peer /\ req[c].files \in SUBSET File
    BY <1>2, RegistryAssumption
       DEF RegistryInv, TypeOK, RegisterPeer, Handling, Request, NoRequest
  <2>2. PeersOK /\ clock \in 0 .. MaxTime
    BY InvPeersOK DEF RegistryInv, TypeOK
  <2> QED
    BY <1>2, <2>1, <2>2, StoreEffect DEF RegisterPeer
<1>3. peers' = peers \/ \E c \in Conn : RegisterPeer(c)
  BY DEF Next, vars, Accept, ReceiveFails, RejectRequest, RegistryFull,
         ListNeighbors, FindFiles, Tick
<1> QED
  BY <1>1, <1>2, <1>3

(* registry_register_peer() never moves or removes a peer.                 *)
THEOREM SlotsNeverMove == Spec => SlotsStable
<1>1. RegistryInv /\ [Next]_vars
      => [Len(peers') >= Len(peers)
          /\ \A i \in Slots : peers'[i].peer = peers[i].peer]_vars
  BY SlotsKept
<1> QED
  BY <1>1, Invariant, PTL DEF Spec, SlotsStable

(* When everybody else fits, the neighbor list names everybody else.       *)
LEMMA AllFit ==
  ASSUME RegistryInv, NEW k \in Slots, NEW i \in Slots,
         peers[i].peer # peers[k].peer, Len(peers) - 1 <= MaxNeighbors
  PROVE  i \in RecentSlots(peers[k].peer)
<1> DEFINE others == {j \in Slots : peers[j].peer # peers[k].peer}
           above == {j \in others : j > i}
           rest == (Slots \ {k}) \ {i}
<1>1. Len(peers) \in Nat /\ Slots = 1 .. Len(peers) /\ MaxNeighbors \in Nat
  BY SlotTypes, RegistryAssumption
<1>2. IsFiniteSet(Slots) /\ Cardinality(Slots) = Len(peers)
  <2>1. /\ IsFiniteSet(1 .. Len(peers))
        /\ Cardinality(1 .. Len(peers)) = IF 1 > Len(peers) THEN 0 ELSE Len(peers) - 1 + 1
    BY <1>1, FS_Interval
  <2> QED
    BY <1>1, <2>1
<1>3. IsFiniteSet(Slots \ {k}) /\ Cardinality(Slots \ {k}) = Len(peers) - 1
  BY <1>2, FS_RemoveElement
<1>4. IsFiniteSet(rest) /\ Cardinality(rest) = Len(peers) - 2
  <2>1. i \in Slots \ {k}
    OBVIOUS
  <2>2. IsFiniteSet(rest) /\ Cardinality(rest) = Cardinality(Slots \ {k}) - 1
    BY <2>1, <1>3, FS_RemoveElement
  <2> QED
    BY <2>2, <1>1, <1>3
<1>5. above \in SUBSET rest
  BY <1>1
<1>6. IsFiniteSet(above) /\ Cardinality(above) <= Len(peers) - 2
  BY <1>4, <1>5, FS_Subset
<1>7. Cardinality(above) < MaxNeighbors
  BY <1>6, <1>1, FS_CardinalityType
<1> QED
  BY <1>7 DEF RecentSlots

(* handle_register(): of two registered clients at least one was told of   *)
(* the other, as long as the neighbor lists hold everybody.  Inductive     *)
(* over RegistryInv: the second of the two to list its neighbors finds the *)
(* first one stored.                                                       *)
THEOREM NobodyMissed == Spec => []NobodyMissesBoth
<1>1. Init => NobodyMissesBoth
  BY DEF Init, NobodyMissesBoth
<1>2. RegistryInv /\ RegistryInv' /\ NobodyMissesBoth /\ [Next]_vars
      => NobodyMissesBoth'
  <2> SUFFICES ASSUME RegistryInv, RegistryInv', NobodyMissesBoth, [Next]_vars,
                      NEW c \in Conn, NEW d \in Conn,
                      (Len(peers) - 1 <= MaxNeighbors)',
                      (Welcomed(c) /\ pc[c] = "done")',
                      (Welcomed(d) /\ pc[d] = "done")',
                      (req[c].peer # req[d].peer)'
               PROVE  (req[d].peer \in reply[c].peers \/ req[c].peer \in reply[d].peers)'
    BY DEF NobodyMissesBoth
  <2> DEFINE Old(x) == /\ Welcomed(x) /\ pc[x] = "done"
                       /\ req'[x] = req[x] /\ reply'[x] = reply[x]
  <2>1. \A x \in Conn : (Welcomed(x) /\ pc[x] = "done")' => Old(x) \/ ListNeighbors(x)
    <3> SUFFICES ASSUME NEW x \in Conn, (Welcomed(x) /\ pc[x] = "done")',
                        ~ListNeighbors(x)
                 PROVE  Old(x)
      OBVIOUS
    <3>1. pc'[x] = "done" /\ req'[x].op = "register" /\ reply'[x] # Full
      BY DEF Welcomed, Full
    <3>2. pc[x] = "done" /\ req'[x] = req[x] /\ reply'[x] = reply[x]
      BY <3>1
         DEF Next, vars, Accept, ReceiveFails, RejectRequest, RegistryFull, RegisterPeer,
             ListNeighbors, FindFiles, Tick, Reply, Handling, RegistryInv, TypeOK,
             ThreadOK, NoRequest, Full
    <3> QED
      BY <3>1, <3>2 DEF Welcomed, Full
  <2>2. ASSUME NEW x \in Conn, NEW y \in Conn, ListNeighbors(x),
               (Welcomed(y) /\ pc[y] = "done")', (req[x].peer # req[y].peer)'
        PROVE  (req[y].peer \in reply[x].peers)'
    <3>1. peers' = peers /\ req' = req /\ pc[x] = "recent"
      BY <2>2 DEF ListNeighbors, Reply
    <3>2. reply'[x].peers = {peers[i].peer : i \in RecentSlots(req[x].peer)}
      BY <2>2 DEF ListNeighbors, Reply, RegistryInv, TypeOK
    <3>3. Listed(req[x].peer)
      BY <3>1 DEF RegistryInv, ThreadOK, Stored
    <3>4. Stored(y)'
      BY <2>2 DEF RegistryInv, ThreadOK, Welcomed, Full
    <3>5. Listed(req[y].peer)
      BY <3>1, <3>4 DEF Stored, Listed, Slots
    <3>6. PICK k \in Slots, i \in Slots :
             peers[k].peer = req[x].peer /\ peers[i].peer = req[y].peer
      BY <3>3, <3>5 DEF Listed
    <3>7. i \in RecentSlots(req[x].peer)
      BY <3>6, <3>1, <2>2, AllFit
    <3> QED
      BY <3>1, <3>2, <3>6, <3>7
  <2>3. CASE Old(c) /\ Old(d)
    <3>1. Len(peers) - 1 <= MaxNeighbors
      <4>1. Len(peers') >= Len(peers)
        BY SlotsKept
      <4>2. Len(peers) \in Nat /\ Len(peers') \in Nat /\ MaxNeighbors \in Nat
        BY RegistryAssumption DEF RegistryInv, TypeOK
      <4> QED
        BY <4>1, <4>2
    <3> QED
      BY <2>3, <3>1 DEF NobodyMissesBoth
  <2>4. CASE ListNeighbors(c)
    BY <2>2, <2>4
  <2>5. CASE ListNeighbors(d)
    BY <2>2, <2>5
  <2> QED
    BY <2>1, <2>3, <2>4, <2>5
<1> QED
  BY <1>1, <1>2, Invariant, PTL DEF Spec

-----------------------------------------------------------------------------
(* The refinement of Directory. *)

(* An injective image has as many elements.                                *)
LEMMA ImageCount ==
  ASSUME NEW S, IsFiniteSet(S), NEW g,
         \A x, y \in S : g[x] = g[y] => x = y
  PROVE  /\ IsFiniteSet({g[x] : x \in S})
         /\ Cardinality({g[x] : x \in S}) = Cardinality(S)
<1> DEFINE T == {g[x] : x \in S}
           f == [x \in S |-> g[x]]
<1>1. f \in [S -> T] /\ \A x, y \in S : f[x] = f[y] => x = y
  OBVIOUS
<1>2. \A t \in T : \E x \in S : f[x] = t
  OBVIOUS
<1>3. f \in Bijection(S, T)
  <2> HIDE DEF f, T
  <2> QED
    BY <1>1, <1>2 DEF Bijection, Injection, Surjection, IsInjective
<1>4. ExistsBijection(S, T)
  BY <1>3 DEF ExistsBijection
<1> HIDE DEF T
<1>5. IsFiniteSet(T) /\ Cardinality(T) = Cardinality(S)
  BY <1>4, FS_Bijection
<1> QED
  BY <1>5 DEF T

(* The directory of an array of peers, and the names of some of its slots. *)
Names(I) == {peers[i].peer : i \in I}

Dir == [p \in Names(Slots) |-> FilesOf(p)]

LEMMA NamesCount ==
  ASSUME RegistryInv, NEW I \in SUBSET Slots
  PROVE  /\ IsFiniteSet(I)
         /\ IsFiniteSet(Names(I))
         /\ Cardinality(Names(I)) = Cardinality(I)
<1>1. IsFiniteSet(I)
  <2>1. IsFiniteSet(1 .. Len(peers))
    BY SlotTypes, FS_Interval
  <2> QED
    BY <2>1, SlotTypes, FS_Subset
<1> DEFINE g == [i \in I |-> peers[i].peer]
<1>2. \A i, j \in I : g[i] = g[j] => i = j
  BY DEF RegistryInv, UniquePeers
<1>3. {g[i] : i \in I} = Names(I)
  BY DEF Names
<1> HIDE DEF g
<1> QED
  BY <1>1, <1>2, <1>3, ImageCount

LEMMA SlotsCount == RegistryInv => Cardinality(Names(Slots)) = Len(peers)
<1> SUFFICES ASSUME RegistryInv
             PROVE  Cardinality(Names(Slots)) = Len(peers)
  OBVIOUS
<1>1. /\ Len(peers) \in Nat
      /\ Cardinality(1 .. Len(peers)) = IF 1 > Len(peers) THEN 0 ELSE Len(peers) - 1 + 1
  BY SlotTypes, FS_Interval
<1>2. Cardinality(Slots) = Len(peers)
  BY <1>1, SlotTypes
<1> QED
  BY <1>2, NamesCount

LEMMA FilesOfSlot == UniquePeers => \A i \in Slots : FilesOf(peers[i].peer) = peers[i].files
<1> SUFFICES ASSUME UniquePeers, NEW i \in Slots
             PROVE  FilesOf(peers[i].peer) = peers[i].files
  OBVIOUS
<1> DEFINE j == CHOOSE k \in Slots : peers[k].peer = peers[i].peer
<1>1. j \in Slots /\ peers[j].peer = peers[i].peer
  OBVIOUS
<1>2. j = i
  BY <1>1 DEF UniquePeers
<1> QED
  BY <1>2 DEF FilesOf

LEMMA QuietDir == UNCHANGED peers => UNCHANGED Dir
  BY DEF Dir, Names, Slots, FilesOf

(* Directory has its own copies of these operators.                        *)
LEMMA SameCardinality == ASSUME NEW S PROVE Promise!Cardinality(S) = Cardinality(S)
  BY DEF Promise!Cardinality, Cardinality

LEMMA SameMin == ASSUME NEW S PROVE Promise!Min(S) = Min(S)
  BY DEF Promise!Min, Min

LEMMA SameSubsets == ASSUME NEW S, NEW k PROVE Promise!kSubset(k, S) = kSubset(k, S)
  BY SameCardinality DEF Promise!kSubset, kSubset

(* Storing a client is enrolling it.                                       *)
LEMMA RegisterPeerEnrolls ==
  ASSUME RegistryInv, RegistryInv', NEW c \in Conn, RegisterPeer(c)
  PROVE  Promise!Enroll(req[c].peer, req[c].files)
<1> DEFINE p == req[c].peer
           fs == req[c].files
<1>1. p \in Peer /\ fs \in SUBSET File
  BY RegistryAssumption
     DEF RegistryInv, TypeOK, RegisterPeer, Handling, Request, NoRequest
<1>2. PeersOK /\ clock \in 0 .. MaxTime
  BY InvPeersOK DEF RegistryInv, TypeOK
<1>3. HasRoom(p) /\ Store(p, fs) /\ reply' = reply
  BY DEF RegisterPeer
<1> HIDE DEF p, fs
<1>4. /\ Len(peers') >= Len(peers)
      /\ \A i \in Slots : peers'[i].peer = peers[i].peer
      /\ \A i \in Slots' : peers'[i].peer = p \/ (i \in Slots /\ peers'[i] = peers[i])
      /\ \E i \in Slots' : peers'[i] = Entry(p, fs)
  BY <1>1, <1>2, <1>3, StoreEffect
<1>5. PICK k \in Slots' : peers'[k].peer = p /\ peers'[k].files = fs
  <2>1. Entry(p, fs).peer = p /\ Entry(p, fs).files = fs
    BY DEF Entry
  <2> QED
    BY <1>4, <2>1
<1>6. Slots \subseteq Slots'
  <2>1. Slots = 1 .. Len(peers) /\ Len(peers) \in Nat
        /\ Slots' = 1 .. Len(peers') /\ Len(peers') \in Nat
    BY SlotTypes DEF RegistryInv, TypeOK, Slots
  <2> QED
    BY <2>1, <1>4
<1>7. p \in Names(Slots) \/ Cardinality(Names(Slots)) < Capacity
  <2>1. CASE SlotsOf(p) # {}
    BY <2>1 DEF SlotsOf, Names
  <2>2. CASE Len(peers) < Capacity
    BY <2>2, SlotsCount
  <2> QED
    BY <2>1, <2>2, <1>3 DEF HasRoom
<1>8. Names(Slots)' = Names(Slots) \cup {p}
  <2>1. \A q : q \in Names(Slots)' => q \in Names(Slots) \cup {p}
    BY <1>4 DEF Names
  <2>2. \A q : q \in Names(Slots) \cup {p} => q \in Names(Slots)'
    BY <1>4, <1>5, <1>6 DEF Names
  <2> QED
    BY <2>1, <2>2
<1>9. (\A i \in Slots : FilesOf(peers[i].peer) = peers[i].files)'
  <2>1. (UniquePeers => \A i \in Slots : FilesOf(peers[i].peer) = peers[i].files)'
    BY FilesOfSlot, PTL
  <2> QED
    BY <2>1 DEF RegistryInv
<1>10. \A q \in Names(Slots)' : FilesOf(q)' = IF q = p THEN fs ELSE FilesOf(q)
  <2> SUFFICES ASSUME NEW q \in Names(Slots)'
               PROVE  FilesOf(q)' = IF q = p THEN fs ELSE FilesOf(q)
    OBVIOUS
  <2>1. PICK i \in Slots' : peers'[i].peer = q
    BY DEF Names
  <2>2. FilesOf(q)' = peers'[i].files
    BY <1>9, <2>1
  <2>3. CASE q = p
    <3>1. i = k
      BY <2>1, <2>3, <1>5 DEF RegistryInv, UniquePeers
    <3> QED
      BY <3>1, <2>2, <2>3, <1>5
  <2>4. CASE q # p
    <3>1. i \in Slots /\ peers'[i] = peers[i]
      BY <2>1, <2>4, <1>4
    <3>2. FilesOf(q) = peers[i].files
      BY <3>1, <2>1, FilesOfSlot DEF RegistryInv
    <3> QED
      BY <3>1, <3>2, <2>2, <2>4
  <2> QED
    BY <2>3, <2>4
<1>11. DOMAIN Dir = Names(Slots) /\ \A q \in Names(Slots) : Dir[q] = FilesOf(q)
  BY DEF Dir
<1>12. Dir' = [q \in DOMAIN Dir \cup {p} |-> IF q = p THEN fs ELSE Dir[q]]
  <2>1. Dir' = [q \in Names(Slots)' |-> FilesOf(q)']
    BY DEF Dir
  <2> HIDE DEF Dir
  <2>2. \A q \in Names(Slots)' : FilesOf(q)' = IF q = p THEN fs ELSE Dir[q]
    BY <1>10, <1>11, <1>8
  <2> QED
    BY <2>1, <2>2, <1>8, <1>11
<1>13. p \in DOMAIN Dir \/ Cardinality(DOMAIN Dir) < Capacity
  BY <1>7, <1>11
<1> QED
  BY <1>3, <1>12, <1>13, SameCardinality DEF Promise!Enroll, Dir, Names, p, fs

(* Listing the neighbors is welcoming the client with as many as fit.      *)
LEMMA ListNeighborsWelcomes ==
  ASSUME RegistryInv, NEW c \in Conn, ListNeighbors(c)
  PROVE  Promise!Welcome(c, req[c].peer)
<1> DEFINE p == req[c].peer
           O == {i \in Slots : peers[i].peer # p}
           R == RecentSlots(p)
           told == [kind |-> "neighbors", peers |-> Names(R)]
<1>1. pc[c] = "recent" /\ peers' = peers /\ reply' = [reply EXCEPT ![c] = told]
  BY DEF ListNeighbors, Reply, Names
<1>2. reply[c] = NoReply /\ Listed(p)
  BY <1>1 DEF RegistryInv, ThreadOK, Stored
<1>3. p \in Names(Slots)
  BY <1>2 DEF Listed, Names
<1>4. Names(O) = Names(Slots) \ {p}
  <2>1. \A q : q \in Names(O) => q \in Names(Slots) \ {p}
    BY DEF Names
  <2>2. \A q : q \in Names(Slots) \ {p} => q \in Names(O)
    BY DEF Names
  <2> QED
    BY <2>1, <2>2
<1>5. R \in SUBSET O /\ O \in SUBSET Slots
  BY DEF RecentSlots
<1>6. Cardinality(R) = Min({Cardinality(O), MaxNeighbors})
  <2>1. R = {i \in O : Cardinality({j \in O : j > i}) < MaxNeighbors}
    BY DEF RecentSlots
  <2>2. O \in SUBSET (1 .. Len(peers)) /\ Len(peers) \in Nat /\ MaxNeighbors \in Nat
    BY <1>5, SlotTypes, RegistryAssumption
  <2> HIDE DEF O, R
  <2> QED
    BY <2>1, <2>2, TopCount
<1>7. Cardinality(Names(R)) = Cardinality(R) /\ Cardinality(Names(O)) = Cardinality(O)
  <2> HIDE DEF O, R
  <2>1. R \in SUBSET Slots
    BY <1>5
  <2> QED
    BY <2>1, <1>5, NamesCount
<1>8. Names(R) \in kSubset(Min({Cardinality(Names(O)), MaxNeighbors}), Names(O))
  <2> HIDE DEF O, R
  <2>1. Names(R) \in SUBSET Names(O)
    BY <1>5 DEF Names
  <2> QED
    BY <2>1, <1>6, <1>7 DEF kSubset
<1>9. DOMAIN Dir = Names(Slots)
  BY DEF Dir
<1>10. LET others == DOMAIN Dir \ {p} IN
       /\ p \in DOMAIN Dir
       /\ \E S \in kSubset(Min({Cardinality(others), MaxNeighbors}), others) :
            /\ reply[c] = NoReply
            /\ reply' = [reply EXCEPT ![c] = [kind |-> "neighbors", peers |-> S]]
            /\ UNCHANGED Dir
  <2>1. UNCHANGED Dir
    BY <1>1, QuietDir
  <2> HIDE DEF p, O, R
  <2> QED
    BY <2>1, <1>1, <1>2, <1>3, <1>4, <1>8, <1>9
<1> HIDE DEF p
<1>11. Promise!Welcome(c, p)
  BY <1>10, SameCardinality, SameMin, SameSubsets
     DEF Promise!Welcome, Promise!Tell, Dir, Names
<1> QED
  BY <1>11 DEF p

(* Searching is answering with every item that was asked for, or as many   *)
(* as fit: hits and items correspond one to one.                           *)
LEMMA FindFilesAnswers ==
  ASSUME RegistryInv, NEW c \in Conn, FindFiles(c)
  PROVE  Promise!Answer(c, req[c].term)
<1> DEFINE q == req[c].term
           H == Hits(q)
           g == [h \in H |-> [owner |-> peers[h[1]].peer, file |-> h[2]]]
           Items(X) == {[owner |-> peers[h[1]].peer, file |-> h[2]] : h \in X}
           items == {x \in [owner : DOMAIN Dir, file : Selected(q)] : x.file \in Dir[x.owner]}
<1>1. PICK S \in Results(q) : Reply(c, [kind |-> "found", items |-> Items(S)])
  BY DEF FindFiles
<1>2. pc[c] = "handle" /\ peers' = peers /\ q \in Term
  BY DEF FindFiles, Handling, RegistryInv, TypeOK, Request, NoRequest
<1>3. reply[c] = NoReply
  BY <1>2 DEF RegistryInv, ThreadOK
<1>4. IsFiniteSet(H)
  <2>1. Selected(q) \in SUBSET File
    BY <1>2, RegistryAssumption DEF Selected
  <2>2. IsFiniteSet(Selected(q))
    BY <2>1, RegistryAssumption, FS_Subset
  <2>3. IsFiniteSet(Slots)
    BY NamesCount
  <2>4. IsFiniteSet(Slots \X Selected(q))
    BY <2>2, <2>3, FS_Product
  <2> QED
    BY <2>4, FS_Subset DEF Hits
<1>5. \A h, k \in H : g[h] = g[k] => h = k
  <2> SUFFICES ASSUME NEW h \in H, NEW k \in H, g[h] = g[k]
               PROVE  h = k
    OBVIOUS
  <2>1. h \in Slots \X Selected(q) /\ k \in Slots \X Selected(q)
    BY DEF Hits
  <2>2. peers[h[1]].peer = peers[k[1]].peer /\ h[2] = k[2]
    OBVIOUS
  <2>3. h[1] = k[1]
    BY <2>1, <2>2 DEF RegistryInv, UniquePeers
  <2> QED
    BY <2>1, <2>2, <2>3
<1>6. DOMAIN Dir = Names(Slots) /\ \A i \in Slots : Dir[peers[i].peer] = peers[i].files
  BY FilesOfSlot DEF Dir, Names, RegistryInv
<1>7. items = Items(H)
  <2>1. ASSUME NEW x, x \in items
        PROVE  x \in Items(H)
    <3>1. PICK p \in DOMAIN Dir, f \in Selected(q) : x = [owner |-> p, file |-> f]
      BY <2>1
    <3>2. PICK i \in Slots : peers[i].peer = p
      BY <3>1, <1>6 DEF Names
    <3>3. f \in peers[i].files
      BY <2>1, <3>1, <3>2, <1>6
    <3>4. <<i, f>> \in H
      BY <3>1, <3>2, <3>3 DEF Hits
    <3> QED
      BY <3>1, <3>2, <3>4
  <2>2. ASSUME NEW h \in H
        PROVE  [owner |-> peers[h[1]].peer, file |-> h[2]] \in items
    <3>1. h[1] \in Slots /\ h[2] \in Selected(q) /\ h[2] \in peers[h[1]].files
      BY DEF Hits
    <3>2. peers[h[1]].peer \in DOMAIN Dir /\ h[2] \in Dir[peers[h[1]].peer]
      BY <3>1, <1>6 DEF Names
    <3> QED
      BY <3>1, <3>2
  <2>3. \A x : x \in Items(H) => x \in items
    BY <2>2
  <2> QED
    BY <2>1, <2>3
<1>8. S \in SUBSET H /\ Cardinality(S) = Min({Cardinality(H), MaxResults})
  BY <1>1 DEF Results, kSubset
<1>9. Cardinality(Items(S)) = Cardinality(S) /\ Cardinality(Items(H)) = Cardinality(H)
  <2>1. IsFiniteSet(S) /\ \A h, k \in S : g[h] = g[k] => h = k
    BY <1>4, <1>5, <1>8, FS_Subset
  <2>2. Items(S) = {g[h] : h \in S} /\ Items(H) = {g[h] : h \in H}
    BY <1>8
  <2> HIDE DEF g, H, Items
  <2> QED
    BY <2>1, <2>2, <1>4, <1>5, ImageCount
<1>10. Items(S) \in kSubset(Min({Cardinality(items), MaxResults}), items)
  <2>1. Items(S) \in SUBSET Items(H)
    BY <1>8
  <2> HIDE DEF items, Items, H
  <2> QED
    BY <2>1, <1>7, <1>8, <1>9 DEF kSubset
<1>11. \E X \in kSubset(Min({Cardinality(items), MaxResults}), items) :
         /\ reply[c] = NoReply
         /\ reply' = [reply EXCEPT ![c] = [kind |-> "found", items |-> X]]
         /\ UNCHANGED Dir
  <2>1. UNCHANGED Dir
    BY <1>2, QuietDir
  <2>2. reply' = [reply EXCEPT ![c] = [kind |-> "found", items |-> Items(S)]]
    BY <1>1 DEF Reply
  <2> HIDE DEF items, Items
  <2> QED
    BY <2>1, <2>2, <1>3, <1>10
<1>12. items = Promise!Asked(q)
  BY DEF Promise!Asked, Dir, Names
<1>13. \E X \in Promise!kSubset(Promise!Min({Promise!Cardinality(items), MaxResults}), items) :
         Promise!Tell(c, [kind |-> "found", items |-> X])
  <2> HIDE DEF items
  <2> QED
    BY <1>11, SameCardinality, SameMin, SameSubsets DEF Promise!Tell, Dir, Names
<1>14. Promise!Answer(c, q)
  <2> HIDE DEF items, q
  <2> QED
    BY <1>12, <1>13 DEF Promise!Answer
<1> QED
  BY <1>14

LEMMA RegistryFullRefuses ==
  ASSUME RegistryInv, RegistryInv', NEW c \in Conn, RegistryFull(c)
  PROVE  Promise!Refuse(c, req[c].peer)
<1>1. pc[c] = "handle" /\ peers' = peers /\ reply' = [reply EXCEPT ![c] = Full]
  BY DEF RegistryFull, Handling, Reply, Full
<1>2. reply[c] = NoReply /\ UNCHANGED Dir
  BY <1>1, QuietDir DEF RegistryInv, ThreadOK
<1>3. DOMAIN Dir = Names(Slots)
  BY DEF Dir
<1>4. req[c].peer \notin DOMAIN Dir
  BY <1>3 DEF RegistryFull, HasRoom, SlotsOf, Names
<1>5. Cardinality(DOMAIN Dir) = Capacity
  <2>1. Len(peers) \in Nat /\ Capacity \in Nat /\ Len(peers) <= Capacity
    BY RegistryAssumption DEF RegistryInv, TypeOK
  <2>2. Len(peers) = Capacity
    BY <2>1 DEF RegistryFull, HasRoom
  <2> QED
    BY <2>2, <1>3, SlotsCount
<1> QED
  BY <1>1, <1>2, <1>4, <1>5, SameCardinality
     DEF Promise!Refuse, Promise!Tell, Dir, Names, Full

(* The central server implements the directory: the two critical sections  *)
(* of handle_register() are an enrollment and a welcome, every other       *)
(* handler is one step, and the rest cannot be seen.                       *)
THEOREM RegistryRefinement == Spec => ImplementsDirectory
<1>1. Init => Promise!Init
  <2> SUFFICES ASSUME Init
               PROVE  Dir = [p \in {} |-> {}]
    BY DEF Promise!Init, Init, Dir, Names
  <2>1. Slots = {}
    BY DEF Init, Slots
  <2>2. Names(Slots) = {}
    BY <2>1 DEF Names
  <2> QED
    BY <2>2 DEF Dir
<1>2. RegistryInv /\ RegistryInv' /\ [Next]_vars => [Promise!Next]_(Promise!vars)
  <2> SUFFICES ASSUME RegistryInv, RegistryInv', [Next]_vars
               PROVE  [Promise!Next]_(Promise!vars)
    OBVIOUS
  <2>1. ASSUME NEW c \in Conn
        PROVE  Handling(c, "register") \/ pc[c] = "recent" => req[c].peer \in Peer
    <3>1. Handling(c, "register") => req[c].peer \in Peer
      BY RegistryAssumption DEF RegistryInv, TypeOK, Handling, Request, NoRequest
    <3>2. pc[c] = "recent" => req[c].peer \in Peer
      BY SlotTypes DEF RegistryInv, ThreadOK, Stored, Listed
    <3> QED
      BY <3>1, <3>2
  <2>2. ASSUME peers' = peers, reply' = reply
        PROVE  UNCHANGED Promise!vars
    BY <2>2, QuietDir DEF Promise!vars, Dir, Names
  <2>3. ASSUME NEW c \in Conn, RejectRequest(c)
        PROVE  Promise!Complain(c)
    <3>1. pc[c] = "handle" /\ peers' = peers /\ reply' = [reply EXCEPT ![c] = [kind |-> "error"]]
      BY <2>3 DEF RejectRequest, Handling, Reply
    <3>2. reply[c] = NoReply /\ UNCHANGED Dir
      BY <3>1, QuietDir DEF RegistryInv, ThreadOK
    <3> QED
      BY <3>1, <3>2 DEF Promise!Complain, Promise!Tell, Dir, Names
  <2>4. ASSUME NEW c \in Conn, RegisterPeer(c)
        PROVE  Promise!Next
    <3>1. Promise!Enroll(req[c].peer, req[c].files)
      BY <2>4, RegisterPeerEnrolls
    <3>2. req[c].peer \in Peer /\ req[c].files \in SUBSET File
      BY <2>4, RegistryAssumption
         DEF RegistryInv, TypeOK, RegisterPeer, Handling, Request, NoRequest
    <3> QED
      BY <3>1, <3>2 DEF Promise!Next, Promise!Enroll
  <2>5. ASSUME NEW c \in Conn, ListNeighbors(c)
        PROVE  Promise!Next
    <3>1. Promise!Welcome(c, req[c].peer)
      BY <2>5, ListNeighborsWelcomes
    <3>2. req[c].peer \in Peer
      BY <2>1, <2>5 DEF ListNeighbors
    <3> QED
      BY <3>1, <3>2 DEF Promise!Next
  <2>6. ASSUME NEW c \in Conn, FindFiles(c)
        PROVE  Promise!Next
    <3>1. Promise!Answer(c, req[c].term)
      BY <2>6, FindFilesAnswers
    <3>2. req[c].term \in Term
      BY <2>6 DEF FindFiles, Handling, RegistryInv, TypeOK, Request, NoRequest
    <3> QED
      BY <3>1, <3>2 DEF Promise!Next
  <2>7. ASSUME NEW c \in Conn, RegistryFull(c)
        PROVE  Promise!Next
    <3>1. Promise!Refuse(c, req[c].peer)
      BY <2>7, RegistryFullRefuses
    <3>2. req[c].peer \in Peer
      BY <2>1, <2>7 DEF RegistryFull
    <3> QED
      BY <3>1, <3>2 DEF Promise!Next
  <2>8. \/ peers' = peers /\ reply' = reply
        \/ \E c \in Conn : \/ RejectRequest(c) \/ RegisterPeer(c) \/ ListNeighbors(c)
                           \/ FindFiles(c) \/ RegistryFull(c)
    BY DEF Next, vars, Accept, ReceiveFails, Tick
  <2>9. (\E c \in Conn : Promise!Complain(c)) => Promise!Next
    BY DEF Promise!Next
  <2> QED
    BY <2>2, <2>3, <2>4, <2>5, <2>6, <2>7, <2>8, <2>9
<1> QED
  BY <1>1, <1>2, Invariant, PTL DEF Spec, ImplementsDirectory, Promise!Spec

=============================================================================
