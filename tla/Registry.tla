------------------------------- MODULE Registry -------------------------------
(***************************************************************************)
(* The central server: one detached thread per connection                  *)
(* (src/server/query_handler.c), each with one request, over the registry, *)
(* an array of peers behind a mutex (src/server/registry.c).               *)
(*                                                                         *)
(* A step is a critical section of the registry.  A registration takes     *)
(* two: it stores the peer, releases the lock, and takes it again to list  *)
(* the neighbors it returns.                                               *)
(***************************************************************************)
EXTENDS Integers, FiniteSetsExt, Sequences

CONSTANTS
  IP, Port,      \* addresses and announced data ports
  File,          \* shared files, each with a name and an identity (S, H)
  Identity, NoIdentity,
  Content,       \* Content[f]: the identity of f
  Term,          \* terms of find requests
  Parsed,        \* Parsed[t]: the identity t spells, or NoIdentity
  Matching,      \* Matching[t]: files whose name contains t
  Shares,        \* bound: the sets of files a client may register
  Conn,          \* bound: connections, each used once
  Capacity,      \* REGISTRY_MAX_PEERS
  MaxNeighbors,  \* P2P_MAX_NEIGHBORS
  MaxResults,    \* P2P_MAX_RESULTS
  MaxTime,       \* bound: seconds the clock advances
  NoReply

Peer == [ip : IP, port : Port]

Request ==
  [op : {"register"}, peer : Peer, files : Shares]
  \cup [op : {"find"}, term : Term]
  \cup [op : {"malformed"}]

ASSUME RegistryAssumption ==
  /\ NoIdentity \notin Identity
  /\ Content \in [File -> Identity]
  /\ Parsed \in [Term -> Identity \cup {NoIdentity}]
  /\ Matching \in [Term -> SUBSET File]
  /\ Shares \subseteq SUBSET File
  /\ IsFiniteSet(File)
  /\ Capacity \in Nat \ {0}
  /\ MaxNeighbors \in Nat \ {0}
  /\ MaxResults \in Nat \ {0}
  /\ MaxTime \in Nat

Replies ==
  [kind : {"full", "error"}]
  \cup [kind : {"neighbors"}, peers : SUBSET Peer]
  \cup [kind : {"found"}, items : SUBSET [owner : Peer, file : File]]

ASSUME NoReplyAssumption == NoReply \notin Replies

VARIABLES
  peers,  \* registry->peers[0 .. peer_count - 1]
  pc,     \* where the thread of each connection is
  req,    \* its request
  reply,  \* what it sent
  clock   \* time(NULL)

vars == <<peers, pc, req, reply, clock>>

NoRequest == [op |-> "none"]

Init ==
  /\ peers = <<>>
  /\ pc = [c \in Conn |-> "free"]
  /\ req = [c \in Conn |-> NoRequest]
  /\ reply = [c \in Conn |-> NoReply]
  /\ clock = 0

-----------------------------------------------------------------------------
(* registry.c *)

Slots == DOMAIN peers

(* Mutant: the last slot is not looked at.                                 *)
SlotsOfButLast(peer) ==
  {i \in Slots : i < Len(peers) /\ peers[i].peer = peer}

(* Mutant: the port is not compared.                                       *)
SlotsOfHost(peer) == {i \in Slots : peers[i].peer.ip = peer.ip}

(* The lookup of registry_register_peer(). *)
SlotsOf(peer) == {i \in Slots : peers[i].peer = peer}

(* Its update: the owner of the stored files is the registering address,   *)
(* whatever the request says.                                              *)
Entry(peer, files) == [peer |-> peer, lastSeen |-> clock, files |-> files]

(* Mutant: a client that registers again moves to the end.                 *)
StoreLast(peer, files) ==
  peers' = Append(SelectSeq(peers, LAMBDA e : e.peer # peer), Entry(peer, files))

Store(peer, files) ==
  IF SlotsOf(peer) # {}
  THEN peers' = [peers EXCEPT ![Min(SlotsOf(peer))] = Entry(peer, files)]
  ELSE peers' = Append(peers, Entry(peer, files))

(* Mutant: one slot too many.                                              *)
HasRoomForOneMore(peer) == SlotsOf(peer) # {} \/ Len(peers) <= Capacity

(* Mutant: the capacity is checked before the lookup.                      *)
HasRoomUnlessFull(peer) == Len(peers) < Capacity

HasRoom(peer) == SlotsOf(peer) # {} \/ Len(peers) < Capacity

(* Mutant: the loop stops before the first slot.                           *)
RecentSlotsButFirst(peer) ==
  LET others == {i \in Slots : peers[i].peer # peer}
  IN {i \in others : i > 1 /\ Cardinality({j \in others : j > i}) < MaxNeighbors}

(* registry_recent_peers_except(): from the last slot down. *)
RecentSlots(peer) ==
  LET others == {i \in Slots : peers[i].peer # peer}
  IN {i \in others : Cardinality({j \in others : j > i}) < MaxNeighbors}

(* The test of registry_find_by_identity() or registry_find_by_name(),     *)
(* whichever handle_find() calls.                                          *)
Selected(term) ==
  IF Parsed[term] \in Identity
  THEN {f \in File : Content[f] = Parsed[term]}
  ELSE Matching[term]

Hits(term) == {h \in Slots \X Selected(term) : h[2] \in peers[h[1]].files}

(* Mutant: one result too many.                                            *)
ResultsOneMore(term) ==
  {S \in kSubset(Min({Cardinality(Hits(term)), MaxResults + 1}), Hits(term)) :
     \A h \in S, k \in Hits(term) \ S : h[1] <= k[1]}

(* The hits that fill the results: those of the first slots.  Which files  *)
(* of the last slot still fit depends on the order of its scan.            *)
Results(term) ==
  {S \in kSubset(Min({Cardinality(Hits(term)), MaxResults}), Hits(term)) :
     \A h \in S, k \in Hits(term) \ S : h[1] <= k[1]}

-----------------------------------------------------------------------------
(* query_handler.c *)

(* accept() and the whole request of a connection. *)
Accept(c, r) ==
  /\ pc[c] = "free"
  /\ pc' = [pc EXCEPT ![c] = "handle"]
  /\ req' = [req EXCEPT ![c] = r]
  /\ UNCHANGED <<peers, reply, clock>>

(* The request does not arrive: the thread ends without a reply. *)
ReceiveFails(c) ==
  /\ pc[c] = "free"
  /\ pc' = [pc EXCEPT ![c] = "done"]
  /\ UNCHANGED <<peers, req, reply, clock>>

Reply(c, r) ==
  /\ reply' = [reply EXCEPT ![c] = r]
  /\ pc' = [pc EXCEPT ![c] = "done"]
  /\ UNCHANGED <<req, clock>>

Handling(c, op) == pc[c] = "handle" /\ req[c].op = op

(* Bad header, version, length or opcode, too many files, or empty term. *)
RejectRequest(c) ==
  /\ Handling(c, "malformed")
  /\ Reply(c, [kind |-> "error"])
  /\ UNCHANGED peers

(* handle_register(), first critical section. *)
RegisterPeer(c) ==
  /\ Handling(c, "register")
  /\ HasRoom(req[c].peer)
  /\ Store(req[c].peer, req[c].files)
  /\ pc' = [pc EXCEPT ![c] = "recent"]
  /\ UNCHANGED <<req, reply, clock>>

RegistryFull(c) ==
  /\ Handling(c, "register")
  /\ ~HasRoom(req[c].peer)
  /\ Reply(c, [kind |-> "full"])
  /\ UNCHANGED peers

(* handle_register(), second critical section. *)
ListNeighbors(c) ==
  /\ pc[c] = "recent"
  /\ Reply(c, [kind |-> "neighbors",
               peers |-> {peers[i].peer : i \in RecentSlots(req[c].peer)}])
  /\ UNCHANGED peers

FindFiles(c) ==
  /\ Handling(c, "find")
  /\ \E S \in Results(req[c].term) :
       Reply(c, [kind |-> "found",
                 items |-> {[owner |-> peers[h[1]].peer, file |-> h[2]] : h \in S}])
  /\ UNCHANGED peers

Tick ==
  /\ clock < MaxTime
  /\ clock' = clock + 1
  /\ UNCHANGED <<peers, pc, req, reply>>

Next ==
  \/ \E c \in Conn :
       \/ \E r \in Request : Accept(c, r)
       \/ ReceiveFails(c) \/ RejectRequest(c) \/ RegisterPeer(c)
       \/ RegistryFull(c) \/ ListNeighbors(c) \/ FindFiles(c)
  \/ Tick

Spec == Init /\ [][Next]_vars

-----------------------------------------------------------------------------
(* Properties. *)

(* Types; the array of peers never overflows, and each file list is one a  *)
(* client sent.                                                            *)
TypeOK ==
  /\ peers \in Seq([peer : Peer, lastSeen : 0 .. MaxTime, files : SUBSET File])
  /\ Len(peers) <= Capacity
  /\ pc \in [Conn -> {"free", "handle", "recent", "done"}]
  /\ req \in [Conn -> Request \cup {NoRequest}]
  /\ reply \in [Conn -> Replies \cup {NoReply}]
  /\ clock \in 0 .. MaxTime

(* However registrations of one client interleave, it has one slot.        *)
UniquePeers ==
  \A i, j \in Slots : peers[i].peer = peers[j].peer => i = j

Listed(peer) == \E i \in Slots : peers[i].peer = peer

Welcomed(c) == req[c].op = "register" /\ pc[c] \in {"recent", "done"}
               /\ reply[c] # [kind |-> "full"]

(* A registration that was not refused is never lost, whoever registers    *)
(* meanwhile or afterwards: its client stays in the registry.              *)
WelcomedStayListed ==
  \A c \in Conn : Welcomed(c) => Listed(req[c].peer)

(* A client that was told that the registry is full never gets into it:    *)
(* nothing frees a slot.                                                   *)
RefusedStayOut ==
  \A c \in Conn : reply[c] = [kind |-> "full"] => ~Listed(req[c].peer)

(* While the neighbor list can hold everybody, two clients that have       *)
(* registered do not miss each other: at least one was told of the other,  *)
(* although storing a client and listing its neighbors are two critical    *)
(* sections.  The flooded search starts from these lists.                  *)
NobodyMissesBoth ==
  \A c, d \in Conn :
    /\ Len(peers) - 1 <= MaxNeighbors
    /\ Welcomed(c) /\ pc[c] = "done"
    /\ Welcomed(d) /\ pc[d] = "done"
    /\ req[c].peer # req[d].peer
    => req[d].peer \in reply[c].peers \/ req[c].peer \in reply[d].peers

(* A slot keeps the address it was given, and no slot goes away.           *)
SlotsStable ==
  [][Len(peers') >= Len(peers)
     /\ \A i \in Slots : peers'[i].peer = peers[i].peer]_vars

FilesOf(peer) == peers[CHOOSE i \in Slots : peers[i].peer = peer].files

Promise == INSTANCE Directory
  WITH Request <- Term,
       dir <- [p \in {peers[i].peer : i \in Slots} |-> FilesOf(p)]

(* The server implements the directory: each registration takes effect at  *)
(* one moment, and each reply is true of one moment.                       *)
ImplementsDirectory == Promise!Spec

(* common/protocol.h: last_seen_epoch "is used for registry                *)
(* freshness/order".  No peer left out of a reply is fresher than one in   *)
(* it, at the moment it is made.                                           *)
FreshestReturned ==
  \A c \in Conn : pc[c] = "recent" =>
    \A i \in RecentSlots(req[c].peer), j \in Slots \ RecentSlots(req[c].peer) :
      peers[j].peer # req[c].peer => peers[i].lastSeen >= peers[j].lastSeen
=============================================================================
