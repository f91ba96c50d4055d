---------------------------- MODULE ConsoleProofs ----------------------------
(***************************************************************************)
(* Theorems about Console, for every set of clients, folders, search terms *)
(* and lines typed, however files may be seen while they are copied, and   *)
(* any number of commands, edits, stops and restarts.                      *)
(***************************************************************************)
EXTENDS Console, FindTermProofs, FiniteSetTheorems

(* An item is one that its owner told of.                                  *)
Reported(item) ==
  item.owner \in Client
    /\ [name |-> item.name, id |-> item.id] \in told[item.owner]

(* What the clients publish and register are outcomes of their scans.      *)
ScansOK ==
  /\ \A c \in Client :
       /\ scan[c] \in scans[c] \cup {{}}
       /\ pc[c] \in {"count", "publish", "register", "refresh"} =>
            scan[c] \in scans[c]
       /\ pc[c] \in {"rescan", "refresh", "search"} => term[c] \in Term
  /\ \A m \in late : m.files \in scans[m.client]

(* All that is listed, on its way or remembered was told by its owner.     *)
ToldOK ==
  /\ \A c \in Client : dir[c] \subseteq told[c]
  /\ \A m \in late : m.files \subseteq told[m.client]
  /\ \A m \in answers : Reported(m.item)
  /\ \A c \in Client : \A item \in agg[c] \cup last[c] : Reported(item)

(* A transfer: who has looked for the file had it, its name was told with  *)
(* the identity, and unless some file was changed meanwhile those that are *)
(* sent are right.                                                         *)
Running(c) ==
  /\ left[c] \subseteq peers[c]
  /\ \A p \in peers[c] \ left[c] : want[c] \in held[p]
  /\ peers[c] # {} =>
       \E p \in peers[c] : [name |-> source[c], id |-> want[c]] \in told[p]
  /\ raced[c] \/ ( /\ bytes[c] # "wrong"
                   /\ \A s \in sending[c] : folder[s.peer][s.name] = want[c])

Idle(c) ==
  /\ peers[c] = {} /\ left[c] = {} /\ sending[c] = {}
  /\ bytes[c] = "right" /\ ~raced[c]

JobsOK ==
  \A c \in Client :
    /\ IF pc[c] = "transfer" THEN Running(c) ELSE Idle(c)
    /\ IsFiniteSet(sending[c])

HeldOK ==
  \A c \in Client : \A n \in Name :
    folder[c][n] # Absent => folder[c][n] \in held[c]

ConsoleInv ==
  /\ TypeOK
  /\ ScansOK
  /\ ListedIsOneScan
  /\ ToldOK
  /\ HeldOK
  /\ JobsOK
  /\ PeersToldIt
  /\ CacheKeepsFindResults

-----------------------------------------------------------------------------
(* Every step is one of these.                                             *)
ActionOf(c) ==
  \/ Start(c) \/ Bind(c) \/ Scan(c) \/ SetCount(c) \/ Publish(c) \/ Register(c)
  \/ Search(c) \/ Collect(c) \/ Install(c) \/ TransferFails(c) \/ FindFails(c)
  \/ Stop(c)
  \/ (\E p \in Client : Validate(c, p)) \/ (\E s \in sending[c] : Send(c, s))
  \/ \E text \in Term : FindAtServer(c, text) \/ FindDistributed(c, text)
  \/ \E line \in Line : \/ RequestRefreshed(c, line) \/ RequestCached(c, line)
                        \/ RequestRefused(c, line)
  \/ \E n \in Name, id \in Identity \cup {Absent} : Edit(c, n, id)

LEMMA Cases ==
  [Next]_vars =>
    \/ UNCHANGED vars \/ RestartServer \/ Listener
    \/ \E m \in late : RegisterLate(m)
    \/ \E c \in Client : ActionOf(c)
BY DEF Next, StartUp, Console, Proceed, Environment, ActionOf

(* What scans, lists and answers are made of.                              *)

LEMMA OutcomesAreFiles ==
  ASSUME TypeOK, NEW c \in Client, NEW result \in ScanOutcomes(c)
  PROVE  result \in SUBSET File
<1>1. Present(c) \in SUBSET File
  BY DEF Present, File, TypeOK
<1>2. result \in SUBSET Present(c)
  BY DEF ScanOutcomes, kSubset
<1> QED
  BY <1>1, <1>2

LEMMA FilesAreSeen == File \subseteq Seen
BY ConsoleAssumption DEF File, Seen, SizeHash

LEMMA ListedAreItems ==
  Listed \subseteq Items
BY ConsoleAssumption DEF Listed, Items, SizeHash

LEMMA FoundAreListed ==
  ASSUME NEW text
  PROVE  Found(text) \subseteq Listed
BY DEF Found

LEMMA AnswersAreSeen ==
  ASSUME TypeOK, NEW p \in Client, NEW text, NEW files \in Answers(p, text)
  PROVE  files \subseteq Seen
<1>1. scan[p] \subseteq File /\ shared[p] \subseteq Seen
  BY FilesAreSeen DEF TypeOK
<1>2. CASE pc[p] = "publish"
  <2> DEFINE views == [scan[p] -> UNION {Torn(f) : f \in scan[p]}]
             matches(fs) == {f \in fs : f.name \in NamesWith[text]}
  <2>1. PICK view \in {v \in views : \A f \in scan[p] : v[f] \in Torn(f)} :
          files \in SUBSET matches({view[f] : f \in scan[p]})
    BY <1>2 DEF Answers
  <2>2. \A f \in File : Torn(f) \subseteq Seen
    BY ConsoleAssumption DEF Torn, File, Seen, SizeHash
  <2> QED
    BY <1>1, <2>1, <2>2
<1>3. CASE pc[p] # "publish"
  BY <1>1, <1>3 DEF Answers
<1> QED
  BY <1>2, <1>3

LEMMA SeenItem ==
  ASSUME NEW p \in Client, NEW f \in Seen
  PROVE  /\ Item(p, f) \in Items
         /\ Item(p, f).owner = p
         /\ [name |-> Item(p, f).name, id |-> Item(p, f).id] = f
BY DEF Item, Items, Seen

LEMMA CopiesAreQueries ==
  ASSUME TypeOK, NEW c \in Client, NEW from \in Client, NEW nth \in Nat,
         NEW text \in Term
  PROVE  Copies(c, from, nth, text) \subseteq Query
BY DEF Copies, Query, TypeOK

-----------------------------------------------------------------------------
(* Types. *)

LEMMA TypeStartUp ==
  ASSUME TypeOK, NEW c \in Client,
         Start(c) \/ Bind(c) \/ Scan(c) \/ SetCount(c) \/ Publish(c)
  PROVE  TypeOK'
<1> USE DEF TypeOK, mainVars, jobVars, serverVars, searchVars, cacheVars, Goto, Label
<1>1. CASE Start(c)
  BY <1>1 DEF Start
<1>2. CASE Bind(c)
  BY <1>2 DEF Bind
<1>3. CASE Scan(c)
  <2>1. PICK result \in SUBSET File :
          /\ scan' = [scan EXCEPT ![c] = result]
          /\ scans' = [scans EXCEPT ![c] = @ \cup {result}]
    BY <1>3, OutcomesAreFiles DEF Scan
  <2>2. scan' \in [Client -> SUBSET File] /\ scans' \in [Client -> SUBSET SUBSET File]
    BY <2>1
  <2>3. pc' \in [Client -> Label]
    BY <1>3 DEF Scan
  <2> QED
    BY <1>3, <2>2, <2>3 DEF Scan
<1>4. CASE SetCount(c)
  BY <1>4 DEF SetCount
<1>5. CASE Publish(c)
  BY <1>5 DEF Publish
<1> QED
  BY <1>1, <1>2, <1>3, <1>4, <1>5

LEMMA TypeRegister ==
  ASSUME TypeOK, NEW c \in Client, Register(c)
  PROVE  TypeOK'
<1> USE DEF TypeOK, jobVars, cacheVars, Goto, Label
<1>1. pc' \in [Client -> Label]
  BY DEF Register
<1>2. /\ known' \subseteq Client /\ dir' \in [Client -> SUBSET File]
      /\ late' \subseteq [client : Client, files : SUBSET File]
      /\ nbrs' \in [Client -> SUBSET Client]
  <2>1. CASE UNCHANGED <<known, dir, late, nbrs>>
    BY <2>1
  <2>2. CASE /\ late' = late \cup {[client |-> c, files |-> scan[c]]}
             /\ UNCHANGED <<known, dir, nbrs>>
    <3>1. [client |-> c, files |-> scan[c]] \in [client : Client, files : SUBSET File]
      OBVIOUS
    <3>2. late' \subseteq [client : Client, files : SUBSET File]
      BY <2>2, <3>1
    <3> QED
      BY <2>2, <3>2
  <2>3. CASE /\ Stored(c, scan[c]) /\ UNCHANGED late
             /\ nbrs' \in {nbrs, [nbrs EXCEPT ![c] = @ \cup Others(c)]}
    <3>1. known' \subseteq Client /\ dir' \in [Client -> SUBSET File]
      BY <2>3 DEF Stored
    <3>2. nbrs[c] \cup Others(c) \in SUBSET Client
      BY DEF Others
    <3>3. CASE nbrs' = nbrs
      BY <2>3, <3>1, <3>3
    <3>4. CASE nbrs' = [nbrs EXCEPT ![c] = nbrs[c] \cup Others(c)]
      BY <2>3, <3>1, <3>2, <3>4
    <3> QED
      BY <2>3, <3>3, <3>4
  <2> QED
    BY <2>1, <2>2, <2>3 DEF Register
<1>3. told' \in [Client -> SUBSET Seen]
  BY FilesAreSeen DEF Register, Tell
<1>4. events' \in Nat
  BY DEF Register, Event
<1> QED
  BY <1>1, <1>2, <1>3, <1>4 DEF Register

LEMMA TypeFind ==
  ASSUME TypeOK, NEW c \in Client,
         FindFails(c) \/ (\E text \in Term : FindAtServer(c, text))
         \/ (\E text \in Term : FindDistributed(c, text))
         \/ (Search(c) /\ term[c] \in Term) \/ Collect(c)
  PROVE  TypeOK'
<1> USE DEF TypeOK, mainVars, jobVars, serverVars, searchVars, cacheVars, Goto,
            Label, Command, Remember
<1>1. CASE FindFails(c)
  BY <1>1 DEF FindFails
<1>2. CASE \E text \in Term : FindAtServer(c, text)
  <2>1. PICK text \in Term : FindAtServer(c, text)
    BY <1>2
  <2>2. Found(text) \subseteq Items
    BY FoundAreListed, ListedAreItems
  <2> QED
    BY <2>1, <2>2 DEF FindAtServer
<1>3. CASE \E text \in Term : FindDistributed(c, text)
  BY <1>3 DEF FindDistributed
<1>4. CASE Search(c) /\ term[c] \in Term
  <2>1. asked' \subseteq Query
    BY <1>4, CopiesAreQueries DEF Search
  <2>2. heard' \in [Client -> SUBSET [from : Client, nth : Nat]]
    BY <1>4 DEF Search
  <2> QED
    BY <1>4, <2>1, <2>2 DEF Search
<1>5. CASE Collect(c)
  BY <1>5 DEF Collect
<1> QED
  BY <1>1, <1>2, <1>3, <1>4, <1>5

(* What a call to transfer_request() is about: an identity, peers that own *)
(* an item of it, no more than it has bytes, and the name one of them told.*)
LEMMA TransferPeers ==
  ASSUME TypeOK, NEW c \in Client, NEW id \in SizeHash, NEW items \in SUBSET Items,
         Transfer(c, id, items)
  PROVE  \E ps \in SUBSET Owners(items), item \in items :
           /\ ps # {} => item.owner \in ps
           /\ ps # {} => Cardinality(ps) <= id[1]
           /\ Contact(c, id, ps, item.name)
<1>1. PICK ps \in Contacted(items, id), item \in items :
        /\ ps = {} \/ item.owner \in ps
        /\ Contact(c, id, ps, item.name)
  BY DEF Transfer
<1>2. ps \in SUBSET Owners(items)
      /\ Cardinality(ps) = Min({Cardinality(Owners(items)), id[1]})
  BY <1>1 DEF Contacted, kSubset
<1>3. Owners(items) \subseteq Client
  BY DEF Owners, Items
<1>4. IsFiniteSet(Owners(items)) /\ Cardinality(Owners(items)) \in Nat
  BY <1>3, ConsoleAssumption, FS_Subset, FS_CardinalityType
<1>5. id[1] \in Nat
  BY WordAssumption DEF SizeHash, Value
<1>6. Min({Cardinality(Owners(items)), id[1]}) <= id[1]
  BY <1>4, <1>5 DEF Min
<1> QED
  BY <1>1, <1>2, <1>6

LEMMA ContactTypes ==
  ASSUME TypeOK, NEW c \in Client, NEW id \in SizeHash, NEW ps \in SUBSET Client,
         NEW name \in Name, Contact(c, id, ps, name),
         ps # {} => Cardinality(ps) <= id[1]
  PROVE  /\ pc' \in [Client -> Label]
         /\ want' \in [Client -> SizeHash \cup {None}]
         /\ peers' \in [Client -> SUBSET Client] /\ left' \in [Client -> SUBSET Client]
         /\ source' \in [Client -> Name \cup {None}]
         /\ \A d \in Client : peers'[d] # {} => Cardinality(peers'[d]) <= want'[d][1]
         /\ UNCHANGED <<sending, bytes, raced>>
<1>1. /\ want' = [want EXCEPT ![c] = id] /\ peers' = [peers EXCEPT ![c] = ps]
      /\ left' = [left EXCEPT ![c] = ps] /\ source' = [source EXCEPT ![c] = name]
      /\ pc' = [pc EXCEPT ![c] = "transfer"]
      /\ UNCHANGED <<sending, bytes, raced>>
  BY DEF Contact, Goto
<1>2. \A d \in Client : peers'[d] # {} => Cardinality(peers'[d]) <= want'[d][1]
  BY <1>1 DEF TypeOK
<1> QED
  BY <1>1, <1>2 DEF TypeOK, Label

(* A request takes a transfer from items of the cache, or that are listed. *)
LEMMA RequestContacts ==
  ASSUME TypeOK, NEW c \in Client, NEW line \in Line,
         RequestRefreshed(c, line) \/ RequestCached(c, line)
  PROVE  \E id \in SizeHash, items \in SUBSET (last[c] \cup Listed) :
           \E ps \in SUBSET Owners(items), item \in items :
             /\ \A i \in items : i.id = id
             /\ ps # {} => item.owner \in ps
             /\ ps # {} => Cardinality(ps) <= id[1]
             /\ Contact(c, id, ps, item.name)
<1> DEFINE id == RequestedIdentity(line)
           refresh == Found(IdentityTerm(id))
<1>1. refresh \subseteq Listed
  BY FoundAreListed
<1> HIDE DEF refresh
<1>2. PICK items \in SUBSET (last[c] \cup Listed) :
        /\ \A i \in items : i.id = id
        /\ id # None
        /\ Transfer(c, id, items)
  <2>1. CASE RequestRefreshed(c, line)
    <3>1. OfIdentity(refresh, id) \in SUBSET (last[c] \cup Listed)
      BY <1>1 DEF OfIdentity
    <3> QED
      BY <2>1, <3>1 DEF RequestRefreshed, OfIdentity, refresh
  <2>2. CASE RequestCached(c, line)
    BY <2>2 DEF RequestCached, OfIdentity
  <2> QED
    BY <2>1, <2>2
<1>3. id \in SizeHash
  BY <1>2, RequestedInValue, ConsoleAssumption DEF SizeHash
<1>4. items \in SUBSET Items
  BY <1>2, ListedAreItems DEF TypeOK
<1> HIDE DEF id
<1>5. PICK ps \in SUBSET Owners(items), item \in items :
        /\ ps # {} => item.owner \in ps
        /\ ps # {} => Cardinality(ps) <= id[1]
        /\ Contact(c, id, ps, item.name)
  BY <1>2, <1>3, <1>4, TransferPeers
<1> QED
  BY <1>2, <1>3, <1>5

LEMMA TypeRequest ==
  ASSUME TypeOK, NEW c \in Client, NEW line \in Line,
         RequestRefreshed(c, line) \/ RequestCached(c, line) \/ RequestRefused(c, line)
  PROVE  TypeOK'
<1>1. CASE RequestRefreshed(c, line) \/ RequestCached(c, line)
  <2>0. PICK id \in SizeHash, items \in SUBSET (last[c] \cup Listed) :
          \E ps \in SUBSET Owners(items), item \in items :
            /\ ps # {} => Cardinality(ps) <= id[1]
            /\ Contact(c, id, ps, item.name)
    BY <1>1, RequestContacts
  <2>1. PICK ps \in SUBSET Owners(items), item \in items :
          /\ ps # {} => Cardinality(ps) <= id[1]
          /\ Contact(c, id, ps, item.name)
    BY <2>0
  <2>2. items \subseteq Items
    BY ListedAreItems DEF TypeOK
  <2>3. ps \in SUBSET Client /\ item.name \in Name
    BY <2>2 DEF Owners, Items
  <2>4. /\ pc' \in [Client -> Label]
        /\ want' \in [Client -> SizeHash \cup {None}]
        /\ peers' \in [Client -> SUBSET Client] /\ left' \in [Client -> SUBSET Client]
        /\ source' \in [Client -> Name \cup {None}]
        /\ \A d \in Client : peers'[d] # {} => Cardinality(peers'[d]) <= want'[d][1]
        /\ UNCHANGED <<sending, bytes, raced>>
    BY <2>1, <2>3, ContactTypes
  <2>5. /\ UNCHANGED <<folder, held, scan, term, listening, shared, serverVars,
                       searchVars, shown, events, scans, told>>
        /\ cmds' = [cmds EXCEPT ![c] = @ + 1]
    BY <1>1 DEF RequestRefreshed, RequestCached, Command, cacheVars
  <2>6. /\ last' \in [Client -> SUBSET Items]
        /\ refreshed' \in [Client -> SizeHash \cup {None}]
    <3>1. CASE RequestCached(c, line)
      BY <3>1 DEF RequestCached, cacheVars, TypeOK
    <3>2. CASE RequestRefreshed(c, line)
      <4> DEFINE rid == RequestedIdentity(line)
                 refresh == Found(IdentityTerm(rid))
      <4>1. refresh \subseteq Items
        BY FoundAreListed, ListedAreItems
      <4>2. rid \in SizeHash \cup {None}
        BY RequestedInValue, ConsoleAssumption DEF SizeHash
      <4>3. last' = [last EXCEPT ![c] = refresh]
            /\ refreshed' = [refreshed EXCEPT ![c] = rid]
        BY <3>2 DEF RequestRefreshed
      <4> HIDE DEF refresh, rid
      <4> QED
        BY <4>1, <4>2, <4>3 DEF TypeOK
    <3> QED
      BY <1>1, <3>1, <3>2
  <2>7. cmds' \in [Client -> Nat]
    BY <2>5 DEF TypeOK
  <2> QED
    BY <2>4, <2>5, <2>6, <2>7 DEF TypeOK, serverVars, searchVars
<1>2. CASE RequestRefused(c, line)
  BY <1>2 DEF RequestRefused, Command, TypeOK, jobVars, serverVars, searchVars, cacheVars
<1> QED
  BY <1>1, <1>2

LEMMA EndTypes ==
  ASSUME TypeOK, NEW c \in Client, EndTransfer(c)
  PROVE  /\ want' \in [Client -> SizeHash \cup {None}]
         /\ peers' \in [Client -> SUBSET Client] /\ left' \in [Client -> SUBSET Client]
         /\ sending' \in [Client -> SUBSET [peer : Client, name : Name]]
         /\ source' \in [Client -> Name \cup {None}]
         /\ \A d \in Client : peers'[d] # {} => Cardinality(peers'[d]) <= want'[d][1]
<1>1. \A d \in Client : peers'[d] # {} => peers'[d] = peers[d] /\ want'[d] = want[d]
  BY DEF EndTransfer, TypeOK
<1> QED
  BY <1>1 DEF EndTransfer, TypeOK

LEMMA TypeTransfer ==
  ASSUME TypeOK, NEW c \in Client,
         Install(c) \/ TransferFails(c) \/ Stop(c)
         \/ (\E p \in Client : Validate(c, p)) \/ (\E s \in sending[c] : Send(c, s))
         \/ \E n \in Name, id \in Identity \cup {Absent} : Edit(c, n, id)
  PROVE  TypeOK'
<1> USE DEF mainVars, serverVars, searchVars, cacheVars, Goto, Label, Event
<1>1. CASE Install(c)
  <2>1. PICK id \in Identity :
          folder' = [folder EXCEPT ![c][source[c]] = id] /\ Has(c, id)
    BY <1>1 DEF Install, Renamed
  <2>2. folder' \in [Client -> [Name -> Identity \cup {Absent}]]
        /\ held' \in [Client -> SUBSET Identity]
    BY <2>1 DEF TypeOK, Has
  <2>3. EndTransfer(c) /\ UNCHANGED events
    BY <1>1 DEF Install, Renamed
  <2>4. pc' \in [Client -> Label] /\ bytes' \in [Client -> {"right", "wrong", "missing"}]
    BY <1>1 DEF Install, Renamed, TypeOK
  <2>5. raced' \in [Client -> BOOLEAN]
    BY <1>1 DEF Install, Renamed, Raced, TypeOK
  <2>6. UNCHANGED <<scan, term, cmds, listening, shared, serverVars, searchVars,
                    cacheVars, scans, told>>
    BY <1>1 DEF Install, Renamed
  <2> QED
    BY <2>2, <2>3, <2>4, <2>5, <2>6, EndTypes DEF TypeOK
<1>2. CASE TransferFails(c)
  BY <1>2, EndTypes DEF TransferFails, TypeOK
<1>3. CASE Stop(c)
  <2>1. EndTransfer(c)
    BY <1>3 DEF Stop
  <2>2. bytes' \in [Client -> {"right", "wrong", "missing"}]
    BY <1>3 DEF Stop, TypeOK
  <2> QED
    BY <1>3, <2>1, <2>2, EndTypes DEF Stop, TypeOK
<1>4. CASE \E p \in Client : Validate(c, p)
  <2>1. PICK p \in Client, n \in Name :
          sending' = [sending EXCEPT ![c] = @ \cup {[peer |-> p, name |-> n]}]
    BY <1>4 DEF Validate
  <2>2. sending' \in [Client -> SUBSET [peer : Client, name : Name]]
    BY <2>1 DEF TypeOK
  <2>3. left' \in [Client -> SUBSET Client]
    BY <1>4 DEF Validate, TypeOK
  <2> QED
    BY <1>4, <2>2, <2>3 DEF Validate, TypeOK
<1>5. CASE \E s \in sending[c] : Send(c, s)
  <2>1. PICK s \in sending[c] : Send(c, s)
    BY <1>5
  <2>2. sending' \in [Client -> SUBSET [peer : Client, name : Name]]
        /\ bytes' \in [Client -> {"right", "wrong", "missing"}]
    BY <2>1 DEF Send, TypeOK
  <2> QED
    BY <2>1, <2>2 DEF Send, TypeOK
<1>6. CASE \E n \in Name, id \in Identity \cup {Absent} : Edit(c, n, id)
  <2>1. PICK n \in Name, id \in Identity \cup {Absent} : Edit(c, n, id)
    BY <1>6
  <2>2. folder' = [folder EXCEPT ![c] = [folder[c] EXCEPT ![n] = id]]
    BY <2>1 DEF Edit
  <2>3. [folder[c] EXCEPT ![n] = id] \in [Name -> Identity \cup {Absent}]
    BY DEF TypeOK
  <2>4. folder' \in [Client -> [Name -> Identity \cup {Absent}]]
    BY <2>2, <2>3 DEF TypeOK
  <2>5. held' \in [Client -> SUBSET Identity]
    BY <2>1 DEF Edit, Has, TypeOK
  <2>6. raced' \in [Client -> BOOLEAN]
    BY <2>1 DEF Edit, Raced, TypeOK
  <2> QED
    BY <2>1, <2>4, <2>5, <2>6 DEF Edit, TypeOK
<1> QED
  BY <1>1, <1>2, <1>3, <1>4, <1>5, <1>6

LEMMA TypeListener ==
  ASSUME TypeOK, Listener
  PROVE  TypeOK'
<1> USE DEF mainVars, jobVars, serverVars, cacheVars
<1>1. ASSUME NEW q \in asked, Answer(q)
      PROVE  TypeOK'
  <2>1. /\ q \in Query /\ q.from \in Client /\ q.to \in Client /\ q.nth \in Nat
        /\ Id(q) \in [from : Client, nth : Nat]
    BY DEF TypeOK, Query, Id
  <2>2. PICK files \in Answers(q.to, q.term) :
          /\ answers' = answers \cup
               {[to |-> q.from, nth |-> q.nth, item |-> Item(q.to, f)] : f \in files}
          /\ Tell(q.to, files)
    BY <1>1 DEF Answer
  <2>3. files \subseteq Seen
    BY <2>1, AnswersAreSeen
  <2>4. answers' \subseteq [to : Client, nth : Nat, item : Items]
    BY <2>1, <2>2, <2>3, SeenItem DEF TypeOK
  <2>5. told' \in [Client -> SUBSET Seen]
    BY <2>1, <2>2, <2>3 DEF Tell, TypeOK
  <2>6. /\ heard' \in [Client -> SUBSET [from : Client, nth : Nat]]
        /\ nbrs' \in [Client -> SUBSET Client]
        /\ asked' \subseteq Query /\ relays' \in [Client -> SUBSET Query]
    BY <1>1, <2>1 DEF Answer, TypeOK
  <2> QED
    BY <1>1, <2>4, <2>5, <2>6 DEF Answer, TypeOK
<1>2. ASSUME NEW q \in asked, Ignore(q)
      PROVE  TypeOK'
  BY <1>2 DEF Ignore, TypeOK
<1>3. ASSUME NEW c \in Client, NEW q \in relays[c], Relay(c, q)
      PROVE  TypeOK'
  <2>1. q.from \in Client /\ q.nth \in Nat /\ q.term \in Term
    BY DEF TypeOK, Query
  <2>2. asked' \subseteq Query
    BY <1>3, <2>1, CopiesAreQueries DEF Relay, TypeOK
  <2> QED
    BY <1>3, <2>2 DEF Relay, TypeOK
<1>4. ASSUME NEW m \in answers, AddAnswer(m)
      PROVE  TypeOK'
  <2>1. m.item \in Items /\ m.to \in Client
    BY DEF TypeOK
  <2> QED
    BY <1>4, <2>1 DEF AddAnswer, TypeOK
<1> QED
  BY <1>1, <1>2, <1>3, <1>4 DEF Listener

LEMMA TypeRest ==
  ASSUME TypeOK,
         UNCHANGED vars \/ RestartServer \/ \E m \in late : RegisterLate(m)
  PROVE  TypeOK'
<1> USE DEF TypeOK, mainVars, jobVars, serverVars, searchVars, cacheVars
<1>1. CASE UNCHANGED vars
  BY <1>1 DEF vars
<1>2. CASE RestartServer
  BY <1>2 DEF RestartServer, Event
<1>3. CASE \E m \in late : RegisterLate(m)
  BY <1>3 DEF RegisterLate, Stored
<1> QED
  BY <1>1, <1>2, <1>3

-----------------------------------------------------------------------------
(* Scans. *)

(* Steps that leave what was scanned, published and registered alone.      *)
Aside(c) ==
  \/ Bind(c) \/ Collect(c) \/ Install(c) \/ TransferFails(c) \/ FindFails(c)
  \/ Stop(c)
  \/ (\E p \in Client : Validate(c, p)) \/ (\E s \in sending[c] : Send(c, s))
  \/ \E text \in Term : FindAtServer(c, text)
  \/ \E line \in Line : \/ RequestRefreshed(c, line) \/ RequestCached(c, line)
                        \/ RequestRefused(c, line)
  \/ \E n \in Name, id \in Identity \cup {Absent} : Edit(c, n, id)

LEMMA AsideEffect ==
  ASSUME TypeOK, NEW c \in Client, Aside(c)
  PROVE  /\ UNCHANGED <<scan, scans, serverVars, term, told, answers>>
         /\ \E label \in {"off", "prompt", "transfer"} :
              pc' = pc \/ pc' = [pc EXCEPT ![c] = label]
<1> USE DEF mainVars, searchVars, serverVars, Goto
<1>1. CASE Bind(c) \/ Collect(c) \/ TransferFails(c) \/ FindFails(c) \/ Stop(c)
  BY <1>1 DEF Bind, Collect, TransferFails, FindFails, Stop
<1>2. CASE Install(c)
  BY <1>2 DEF Install, Renamed
<1>3. CASE (\E p \in Client : Validate(c, p)) \/ (\E s \in sending[c] : Send(c, s))
  BY <1>3 DEF Validate, Send
<1>4. CASE \E text \in Term : FindAtServer(c, text)
  BY <1>4 DEF FindAtServer
<1>5. CASE \E line \in Line : \/ RequestRefreshed(c, line) \/ RequestCached(c, line)
                              \/ RequestRefused(c, line)
  BY <1>5 DEF RequestRefreshed, RequestCached, RequestRefused, Transfer, Contact
<1>6. CASE \E n \in Name, id \in Identity \cup {Absent} : Edit(c, n, id)
  BY <1>6 DEF Edit
<1> QED
  BY <1>1, <1>2, <1>3, <1>4, <1>5, <1>6 DEF Aside

LEMMA ScansKept ==
  ASSUME ScansOK, ListedIsOneScan,
         UNCHANGED <<scan, scans, known, dir, late, term, pc>>
  PROVE  ScansOK' /\ ListedIsOneScan'
BY DEF ScansOK, ListedIsOneScan

LEMMA ScansAside ==
  ASSUME TypeOK, ScansOK, ListedIsOneScan, NEW c \in Client, Aside(c)
  PROVE  ScansOK' /\ ListedIsOneScan'
<1>1. PICK label \in {"off", "prompt", "transfer"} :
        pc' = pc \/ pc' = [pc EXCEPT ![c] = label]
  BY AsideEffect
<1>2. UNCHANGED <<scan, scans, known, dir, late, term>>
  BY AsideEffect DEF serverVars
<1>3. \A d \in Client : pc'[d] = pc[d] \/ pc'[d] \in {"off", "prompt", "transfer"}
  BY <1>1 DEF TypeOK
<1> QED
  BY <1>2, <1>3 DEF ScansOK, ListedIsOneScan

LEMMA ListenerKeeps ==
  Listener =>
    UNCHANGED <<folder, held, mainVars, jobVars, listening, shared, serverVars,
                cacheVars, events, scans>>
BY DEF Listener, Answer, Ignore, Relay, AddAnswer

LEMMA ScansStep ==
  ASSUME TypeOK, ScansOK, ListedIsOneScan, [Next]_vars
  PROVE  ScansOK' /\ ListedIsOneScan'
<1> USE DEF mainVars, serverVars, Goto
<1>1. CASE UNCHANGED vars \/ Listener
  BY <1>1, ScansKept, ListenerKeeps DEF vars
<1>2. CASE RestartServer
  BY <1>2 DEF RestartServer, ScansOK, ListedIsOneScan
<1>3. ASSUME NEW m \in late, RegisterLate(m)
      PROVE  ScansOK' /\ ListedIsOneScan'
  <2>1. m.client \in Client /\ m.files \in scans[m.client]
    BY DEF TypeOK, ScansOK
  <2>2. ListedIsOneScan'
    BY <1>3, <2>1 DEF RegisterLate, Stored, ListedIsOneScan, TypeOK
  <2>3. ScansOK'
    BY <1>3 DEF RegisterLate, ScansOK
  <2> QED
    BY <2>2, <2>3
<1>4. ASSUME NEW c \in Client, ActionOf(c)
      PROVE  ScansOK' /\ ListedIsOneScan'
  <2>1. CASE Aside(c)
    BY <2>1, ScansAside
  <2>2. CASE Start(c)
    BY <2>2 DEF Start, TypeOK, ScansOK, ListedIsOneScan
  <2>3. CASE Scan(c)
    <3>1. PICK result \in ScanOutcomes(c) :
            /\ scan' = [scan EXCEPT ![c] = result]
            /\ scans' = [scans EXCEPT ![c] = @ \cup {result}]
      BY <2>3 DEF Scan
    <3>2. /\ \A d \in Client : scans[d] \subseteq scans'[d]
          /\ scan'[c] \in scans'[c]
          /\ \A d \in Client \ {c} : scan'[d] = scan[d]
      BY <3>1 DEF TypeOK
    <3>3. /\ UNCHANGED <<known, dir, late, term>>
          /\ \A d \in Client \ {c} : pc'[d] = pc[d]
          /\ pc'[c] = "refresh" => pc[c] = "rescan"
          /\ pc'[c] \in {"count", "refresh"}
      BY <2>3 DEF Scan, TypeOK
    <3>4. ListedIsOneScan'
      BY <3>2, <3>3 DEF ListedIsOneScan, TypeOK
    <3>5. \A m \in late' : m.files \in scans'[m.client]
      BY <3>2, <3>3 DEF ScansOK, TypeOK
    <3>6. ScansOK'
      BY <3>2, <3>3, <3>5 DEF ScansOK
    <3> QED
      BY <3>4, <3>6
  <2>4. CASE SetCount(c)
    BY <2>4 DEF SetCount, TypeOK, ScansOK, ListedIsOneScan
  <2>5. CASE Publish(c)
    BY <2>5 DEF Publish, TypeOK, ScansOK, ListedIsOneScan
  <2>6. CASE Register(c)
    <3>1. /\ UNCHANGED <<scan, scans, term>>
          /\ \A d \in Client \ {c} : pc'[d] = pc[d]
          /\ pc'[c] = "search" => pc[c] = "refresh"
          /\ pc'[c] \in {"prompt", "search"}
          /\ scan[c] \in scans[c]
      BY <2>6 DEF Register, TypeOK, ScansOK
    <3>2. ListedIsOneScan'
      BY <2>6, <3>1 DEF Register, Stored, TypeOK, ListedIsOneScan
    <3>3. late' = late \/ late' = late \cup {[client |-> c, files |-> scan[c]]}
      BY <2>6 DEF Register
    <3>4. \A m \in late' : m.files \in scans[m.client]
      BY <3>1, <3>3 DEF ScansOK
    <3> QED
      BY <3>1, <3>2, <3>4 DEF ScansOK
  <2>7. CASE Search(c)
    BY <2>7 DEF Search, TypeOK, ScansOK, ListedIsOneScan
  <2>8. CASE \E text \in Term : FindDistributed(c, text)
    BY <2>8 DEF FindDistributed, Command, TypeOK, ScansOK, ListedIsOneScan
  <2> QED
    BY <1>4, <2>1, <2>2, <2>3, <2>4, <2>5, <2>6, <2>7, <2>8 DEF ActionOf, Aside
<1> QED
  BY <1>1, <1>2, <1>3, <1>4, Cases

-----------------------------------------------------------------------------
(* What clients have told of. *)

LEMMA ToldGrows ==
  ASSUME TypeOK, [Next]_vars
  PROVE  \A c \in Client : told[c] \subseteq told'[c]
<1>0. ASSUME NEW c \in Client, NEW files, Tell(c, files)
      PROVE  \A d \in Client : told[d] \subseteq told'[d]
  <2>1. told' = [told EXCEPT ![c] = told[c] \cup files]
    BY <1>0 DEF Tell
  <2>2. DOMAIN told = Client
    BY DEF TypeOK
  <2> QED
    BY <2>1, <2>2
<1>1. CASE UNCHANGED vars \/ RestartServer \/ \E m \in late : RegisterLate(m)
  BY <1>1 DEF vars, RestartServer, RegisterLate
<1>2. CASE Listener
  <2>1. CASE told' = told
    BY <2>1
  <2>2. ASSUME NEW q \in asked, Answer(q)
        PROVE  \A d \in Client : told[d] \subseteq told'[d]
    <3>1. q.to \in Client
      BY DEF TypeOK, Query
    <3>2. \E files : Tell(q.to, files)
      BY <2>2 DEF Answer
    <3> QED
      BY <1>0, <3>1, <3>2
  <2> QED
    BY <1>2, <2>1, <2>2 DEF Listener, Ignore, Relay, AddAnswer
<1>3. ASSUME NEW c \in Client, ActionOf(c)
      PROVE  \A d \in Client : told[d] \subseteq told'[d]
  <2>1. CASE Aside(c)
    BY <2>1, AsideEffect
  <2>2. CASE Register(c)
    <3>1. told' = told \/ Tell(c, scan[c])
      BY <2>2 DEF Register
    <3> QED
      BY <1>0, <3>1
  <2>3. CASE Start(c) \/ Scan(c) \/ SetCount(c) \/ Publish(c) \/ Search(c)
             \/ \E text \in Term : FindDistributed(c, text)
    BY <2>3 DEF Start, Scan, SetCount, Publish, Search, FindDistributed
  <2> QED
    BY <1>3, <2>1, <2>2, <2>3 DEF ActionOf, Aside
<1> QED
  BY <1>1, <1>2, <1>3, Cases

LEMMA ReportedStays ==
  ASSUME \A c \in Client : told[c] \subseteq told'[c], NEW item, Reported(item)
  PROVE  Reported(item)'
BY DEF Reported

LEMMA ListedReported ==
  ASSUME ToldOK, NEW item \in Listed
  PROVE  Reported(item)
BY DEF Listed, Reported, ToldOK

(* What the server stores, now or late, was told before or is told now.    *)
LEMMA ServerTold ==
  ASSUME TypeOK, ToldOK, [Next]_vars
  PROVE  /\ \A c \in Client : dir'[c] \subseteq told'[c]
         /\ \A m \in late' : m.files \subseteq told'[m.client]
<1>0. /\ \A c \in Client : told[c] \subseteq told'[c]
      /\ \A c \in Client : dir[c] \subseteq told'[c]
      /\ \A m \in late : m.files \subseteq told'[m.client]
  BY ToldGrows DEF ToldOK, TypeOK
<1>1. CASE UNCHANGED <<dir, late>>
  BY <1>0, <1>1
<1>2. CASE RestartServer
  BY <1>0, <1>2 DEF RestartServer
<1>3. ASSUME NEW m \in late, RegisterLate(m)
      PROVE  /\ \A c \in Client : dir'[c] \subseteq told'[c]
             /\ \A k \in late' : k.files \subseteq told'[k.client]
  <2>1. /\ dir' = [dir EXCEPT ![m.client] = m.files] /\ late' \subseteq late
    BY <1>3 DEF RegisterLate, Stored
  <2> QED
    BY <1>0, <2>1 DEF TypeOK
<1>4. ASSUME NEW c \in Client, Register(c)
      PROVE  /\ \A d \in Client : dir'[d] \subseteq told'[d]
             /\ \A m \in late' : m.files \subseteq told'[m.client]
  <2>1. CASE UNCHANGED <<dir, late>>
    BY <1>0, <2>1
  <2>2. CASE /\ late' = late \cup {[client |-> c, files |-> scan[c]]}
             /\ Tell(c, scan[c]) /\ dir' = dir
    BY <1>0, <2>2 DEF Tell, TypeOK
  <2>3. CASE Stored(c, scan[c]) /\ Tell(c, scan[c]) /\ late' = late
    BY <1>0, <2>3 DEF Stored, Tell, TypeOK
  <2> QED
    BY <1>4, <2>1, <2>2, <2>3 DEF Register
<1>5. Listener => UNCHANGED <<dir, late>>
  BY ListenerKeeps DEF serverVars
<1>6. ASSUME NEW c \in Client, ActionOf(c), ~Register(c)
      PROVE  UNCHANGED <<dir, late>>
  <2>1. CASE Aside(c)
    BY <2>1, AsideEffect DEF serverVars
  <2>2. CASE Start(c) \/ Scan(c) \/ SetCount(c) \/ Publish(c) \/ Search(c)
             \/ \E text \in Term : FindDistributed(c, text)
    BY <2>2 DEF Start, Scan, SetCount, Publish, Search, FindDistributed, serverVars
  <2> QED
    BY <1>6, <2>1, <2>2 DEF ActionOf, Aside
<1>7. UNCHANGED vars => UNCHANGED <<dir, late>>
  BY DEF vars, serverVars
<1> QED
  BY <1>1, <1>2, <1>3, <1>4, <1>5, <1>6, <1>7, Cases

(* Answers on their way were told when they were formed.                   *)
LEMMA AnswersTold ==
  ASSUME TypeOK, ToldOK, [Next]_vars
  PROVE  \A m \in answers' : Reported(m.item)'
<1>0. \A c \in Client : told[c] \subseteq told'[c]
  BY ToldGrows
<1>1. \A m \in answers : Reported(m.item)'
  BY <1>0, ReportedStays DEF ToldOK
<1>2. ASSUME NEW q \in asked, Answer(q)
      PROVE  \A m \in answers' : Reported(m.item)'
  <2>1. PICK files \in Answers(q.to, q.term) :
          /\ answers' = answers \cup
               {[to |-> q.from, nth |-> q.nth, item |-> Item(q.to, f)] : f \in files}
          /\ Tell(q.to, files)
    BY <1>2 DEF Answer
  <2>2. q.to \in Client
    BY DEF TypeOK, Query
  <2>3. files \subseteq Seen /\ files \subseteq told'[q.to]
    BY <2>1, <2>2, AnswersAreSeen DEF Tell, TypeOK
  <2>4. \A f \in files : Reported(Item(q.to, f))'
    BY <2>2, <2>3, SeenItem DEF Reported
  <2> QED
    BY <1>1, <2>1, <2>4
<1>3. CASE answers' \subseteq answers
  BY <1>1, <1>3
<1>4. Listener => answers' \subseteq answers \/ \E q \in asked : Answer(q)
  BY DEF Listener, Ignore, Relay, AddAnswer
<1>5. ASSUME NEW c \in Client, ActionOf(c)
      PROVE  answers' = answers
  <2>1. CASE Aside(c)
    BY <2>1, AsideEffect
  <2>2. CASE Start(c) \/ Scan(c) \/ SetCount(c) \/ Publish(c) \/ Search(c) \/ Register(c)
             \/ \E text \in Term : FindDistributed(c, text)
    BY <2>2 DEF Start, Scan, SetCount, Publish, Search, Register, FindDistributed,
                searchVars
  <2> QED
    BY <1>5, <2>1, <2>2 DEF ActionOf, Aside
<1>6. UNCHANGED vars \/ RestartServer \/ (\E m \in late : RegisterLate(m))
        => answers' = answers
  BY DEF vars, RestartServer, RegisterLate, searchVars
<1> QED
  BY <1>2, <1>3, <1>4, <1>5, <1>6, Cases

(* Where the items that a client holds after a step come from.             *)
LEMMA Origins ==
  ASSUME TypeOK, [Next]_vars, NEW d \in Client, NEW item \in agg'[d] \cup last'[d]
  PROVE  \/ item \in agg[d] \cup last[d]
         \/ item \in Listed
         \/ \E m \in answers : item = m.item
<1>1. CASE UNCHANGED vars \/ RestartServer \/ \E m \in late : RegisterLate(m)
  BY <1>1 DEF vars, RestartServer, RegisterLate, searchVars, cacheVars
<1>2. CASE Listener
  <2>1. last' = last
    BY <1>2, ListenerKeeps DEF cacheVars
  <2>2. CASE agg' = agg
    BY <2>1, <2>2
  <2>3. ASSUME NEW m \in answers, AddAnswer(m)
        PROVE  item \in agg[d] \cup last[d] \/ item = m.item
    <3>1. agg' = [agg EXCEPT ![m.to] = agg[m.to] \cup {m.item}]
      BY <2>3 DEF AddAnswer
    <3> QED
      BY <2>1, <3>1 DEF TypeOK
  <2> QED
    BY <1>2, <2>2, <2>3 DEF Listener, Answer, Ignore, Relay
<1>3. ASSUME NEW c \in Client, ActionOf(c)
      PROVE  item \in agg[d] \cup last[d] \/ item \in Listed
  <2>1. CASE Start(c)
    BY <2>1 DEF Start, TypeOK
  <2>2. CASE Search(c)
    BY <2>2 DEF Search, TypeOK, cacheVars
  <2>3. CASE Collect(c)
    BY <2>3 DEF Collect, Remember, TypeOK, searchVars
  <2>4. CASE \E text \in Term : FindAtServer(c, text)
    <3>1. PICK text \in Term : FindAtServer(c, text)
      BY <2>4
    <3>2. agg' = agg /\ last' = [last EXCEPT ![c] = Found(text)]
      BY <3>1 DEF FindAtServer, Remember, searchVars
    <3> QED
      BY <3>2, FoundAreListed DEF TypeOK
  <2>5. CASE \E line \in Line : RequestRefreshed(c, line)
    <3>1. PICK line \in Line : RequestRefreshed(c, line)
      BY <2>5
    <3>2. agg' = agg
          /\ last' = [last EXCEPT ![c] = Found(IdentityTerm(RequestedIdentity(line)))]
      BY <3>1 DEF RequestRefreshed, searchVars
    <3> QED
      BY <3>2, FoundAreListed DEF TypeOK
  <2>6. CASE Bind(c) \/ Scan(c) \/ SetCount(c) \/ Publish(c) \/ Register(c)
    BY <2>6 DEF Bind, Scan, SetCount, Publish, Register, searchVars, cacheVars
  <2>7. CASE Install(c)
    BY <2>7 DEF Install, Renamed, searchVars, cacheVars
  <2>8. CASE TransferFails(c) \/ FindFails(c) \/ Stop(c)
             \/ (\E p \in Client : Validate(c, p)) \/ (\E s \in sending[c] : Send(c, s))
             \/ \E n \in Name, id \in Identity \cup {Absent} : Edit(c, n, id)
    BY <2>8 DEF TransferFails, FindFails, Stop, Validate, Send, Edit, searchVars,
                cacheVars
  <2>9. CASE (\E text \in Term : FindDistributed(c, text))
             \/ \E line \in Line : RequestCached(c, line) \/ RequestRefused(c, line)
    BY <2>9 DEF FindDistributed, RequestCached, RequestRefused, searchVars, cacheVars
  <2> QED
    BY <1>3, <2>1, <2>2, <2>3, <2>4, <2>5, <2>6, <2>7, <2>8, <2>9 DEF ActionOf
<1> QED
  BY <1>1, <1>2, <1>3, Cases

LEMMA ToldStep ==
  ASSUME TypeOK, ToldOK, [Next]_vars
  PROVE  ToldOK'
<1>1. \A c \in Client : told[c] \subseteq told'[c]
  BY ToldGrows
<1>2. ASSUME NEW d \in Client, NEW item \in agg'[d] \cup last'[d]
      PROVE  Reported(item)'
  <2>1. Reported(item)
    BY Origins, ListedReported DEF ToldOK
  <2> QED
    BY <1>1, <2>1, ReportedStays
<1> QED
  BY <1>2, ServerTold, AnswersTold DEF ToldOK


-----------------------------------------------------------------------------
(* Folders and transfers. *)

LEMMA RenamedEffect ==
  ASSUME TypeOK, NEW c \in Client, NEW exact, Renamed(c, exact),
         source[c] \in Name
  PROVE  \E id \in Identity :
           /\ exact => id = want[c]
           /\ folder' = [folder EXCEPT ![c] = [folder[c] EXCEPT ![source[c]] = id]]
           /\ held' = [held EXCEPT ![c] = held[c] \cup {id}]
<1>1. PICK id \in Identity :
        /\ exact => id = want[c]
        /\ folder' = [folder EXCEPT ![c][source[c]] = id]
        /\ Has(c, id)
  BY DEF Renamed
<1>2. id # Absent
  BY ConsoleAssumption
<1> QED
  BY <1>1, <1>2 DEF Has

(* The name of a transfer with peers was told by one of them.              *)
LEMMA SourceIsName ==
  ASSUME TypeOK, JobsOK, NEW c \in Client, pc[c] = "transfer", peers[c] # {}
  PROVE  source[c] \in Name
<1>1. PICK p \in peers[c] : [name |-> source[c], id |-> want[c]] \in told[p]
  BY DEF JobsOK, Running
<1>2. [name |-> source[c], id |-> want[c]] \in Seen
  BY <1>1 DEF TypeOK
<1> QED
  BY <1>2 DEF Seen

(* Only downloads and edits touch a folder.                                *)
LEMMA FoldersKept ==
  ASSUME NEW c \in Client, ActionOf(c), ~Install(c),
         ~\E n \in Name, id \in Identity \cup {Absent} : Edit(c, n, id)
  PROVE  UNCHANGED <<folder, held>>
<1>1. CASE Start(c) \/ Bind(c) \/ Scan(c) \/ SetCount(c) \/ Publish(c) \/ Register(c)
  BY <1>1 DEF Start, Bind, Scan, SetCount, Publish, Register
<1>2. CASE Search(c) \/ Collect(c) \/ TransferFails(c) \/ FindFails(c) \/ Stop(c)
           \/ (\E p \in Client : Validate(c, p)) \/ (\E s \in sending[c] : Send(c, s))
  BY <1>2 DEF Search, Collect, TransferFails, FindFails, Stop, Validate, Send
<1>3. CASE (\E text \in Term : FindAtServer(c, text) \/ FindDistributed(c, text))
           \/ \E line \in Line : \/ RequestRefreshed(c, line) \/ RequestCached(c, line)
                                 \/ RequestRefused(c, line)
  BY <1>3 DEF FindAtServer, FindDistributed, RequestRefreshed, RequestCached,
              RequestRefused
<1> QED
  BY <1>1, <1>2, <1>3 DEF ActionOf

LEMMA HeldStep ==
  ASSUME TypeOK, JobsOK, HeldOK, [Next]_vars
  PROVE  /\ HeldOK'
         /\ \A c \in Client : held[c] \subseteq held'[c]
<1>1. CASE UNCHANGED <<folder, held>>
  BY <1>1 DEF HeldOK
<1>2. ASSUME NEW c \in Client, NEW n \in Name, NEW id,
             folder' = [folder EXCEPT ![c] = [folder[c] EXCEPT ![n] = id]],
             held' = [held EXCEPT ![c] = held[c] \cup ({id} \ {Absent})]
      PROVE  HeldOK' /\ \A d \in Client : held[d] \subseteq held'[d]
  <2>1. \A d \in Client : held[d] \subseteq held'[d]
    BY <1>2 DEF TypeOK
  <2>2. ASSUME NEW d \in Client, NEW m \in Name, folder'[d][m] # Absent
        PROVE  folder'[d][m] \in held'[d]
    <3>1. CASE d = c /\ m = n
      BY <1>2, <2>2, <3>1 DEF TypeOK
    <3>2. CASE ~(d = c /\ m = n)
      <4>1. folder'[d][m] = folder[d][m]
        BY <1>2, <3>2 DEF TypeOK
      <4> QED
        BY <2>1, <2>2, <4>1 DEF HeldOK
    <3> QED
      BY <3>1, <3>2
  <2> QED
    BY <2>1, <2>2 DEF HeldOK
<1>3. ASSUME NEW c \in Client, ActionOf(c)
      PROVE  HeldOK' /\ \A d \in Client : held[d] \subseteq held'[d]
  <2>1. CASE Install(c)
    <3>1. source[c] \in Name
      BY <2>1, SourceIsName DEF Install
    <3>2. PICK id \in Identity :
            /\ folder' = [folder EXCEPT ![c] = [folder[c] EXCEPT ![source[c]] = id]]
            /\ held' = [held EXCEPT ![c] = held[c] \cup {id}]
      BY <2>1, <3>1, RenamedEffect DEF Install
    <3>3. {id} = {id} \ {Absent}
      BY ConsoleAssumption
    <3> QED
      BY <1>2, <3>1, <3>2, <3>3
  <2>2. CASE \E n \in Name, id \in Identity \cup {Absent} : Edit(c, n, id)
    BY <1>2, <2>2 DEF Edit, Has
  <2> QED
    BY <1>1, <1>3, <2>1, <2>2, FoldersKept
<1>4. UNCHANGED vars \/ RestartServer \/ Listener \/ (\E m \in late : RegisterLate(m))
        => UNCHANGED <<folder, held>>
  BY ListenerKeeps DEF vars, RestartServer, RegisterLate
<1> QED
  BY <1>1, <1>3, <1>4, Cases

LEMMA JobsKept ==
  ASSUME TypeOK, JobsOK, PeersToldIt,
         \A c \in Client : told[c] \subseteq told'[c],
         \A c \in Client : held[c] \subseteq held'[c],
         UNCHANGED <<jobVars, folder>>,
         \A c \in Client : pc'[c] = "transfer" <=> pc[c] = "transfer"
  PROVE  JobsOK' /\ PeersToldIt'
<1>1. PeersToldIt'
  BY DEF PeersToldIt, jobVars, TypeOK
<1>2. ASSUME NEW c \in Client, Running(c)
      PROVE  Running(c)'
  <2>1. \A p \in peers[c] : p \in Client
    BY DEF TypeOK
  <2> QED
    BY <1>2, <2>1 DEF Running, jobVars
<1>3. \A c \in Client : Idle(c) => Idle(c)'
  BY DEF Idle, jobVars
<1>4. sending' = sending
  BY DEF jobVars
<1> QED
  BY <1>1, <1>2, <1>3, <1>4 DEF JobsOK

(* A request contacts peers that told of the identity, and nothing else of *)
(* a transfer is left from before.                                         *)
LEMMA JobContact ==
  ASSUME TypeOK, ToldOK, JobsOK, PeersToldIt, NEW c \in Client, NEW line \in Line,
         RequestRefreshed(c, line) \/ RequestCached(c, line)
  PROVE  JobsOK' /\ PeersToldIt'
<1>1. PICK id \in SizeHash, items \in SUBSET (last[c] \cup Listed) :
        \E ps \in SUBSET Owners(items), item \in items :
          /\ \A i \in items : i.id = id
          /\ ps # {} => item.owner \in ps
          /\ Contact(c, id, ps, item.name)
  BY RequestContacts
<1>2. PICK ps \in SUBSET Owners(items), item \in items :
        /\ \A i \in items : i.id = id
        /\ ps # {} => item.owner \in ps
        /\ Contact(c, id, ps, item.name)
  BY <1>1
<1>3. \A i \in items : Reported(i)
  BY ListedReported DEF ToldOK
<1>4. \A p \in ps : \E f \in told[p] : f.id = id
  <2> TAKE p \in ps
  <2>1. PICK i \in items : i.owner = p
    BY DEF Owners
  <2> QED
    BY <1>2, <1>3, <2>1 DEF Reported
<1>5. ps # {} => \E p \in ps : [name |-> item.name, id |-> id] \in told[p]
  BY <1>2, <1>3 DEF Reported
<1>6. /\ pc[c] = "prompt" /\ UNCHANGED <<folder, held, told>>
      /\ pc' = [pc EXCEPT ![c] = "transfer"]
      /\ want' = [want EXCEPT ![c] = id] /\ peers' = [peers EXCEPT ![c] = ps]
      /\ left' = [left EXCEPT ![c] = ps] /\ source' = [source EXCEPT ![c] = item.name]
      /\ UNCHANGED <<sending, bytes, raced>>
  BY <1>2 DEF RequestRefreshed, RequestCached, Command, Contact, Goto
<1>7. PeersToldIt'
  BY <1>4, <1>6 DEF PeersToldIt, TypeOK
<1>8. Idle(c) /\ IsFiniteSet(sending[c])
  BY <1>6 DEF JobsOK
<1>9. pc'[c] = "transfer" /\ Running(c)'
  BY <1>5, <1>6, <1>8 DEF Running, Idle, TypeOK
<1>10. ASSUME NEW d \in Client, d # c
       PROVE  /\ IF pc'[d] = "transfer" THEN Running(d)' ELSE Idle(d)'
              /\ IsFiniteSet(sending'[d])
  <2>1. /\ pc'[d] = pc[d] /\ want'[d] = want[d] /\ peers'[d] = peers[d]
        /\ left'[d] = left[d] /\ source'[d] = source[d]
    BY <1>6, <1>10 DEF TypeOK
  <2>2. CASE pc[d] = "transfer"
    BY <1>6, <2>1, <2>2 DEF JobsOK, Running
  <2>3. CASE pc[d] # "transfer"
    BY <1>6, <2>1, <2>3 DEF JobsOK, Idle
  <2> QED
    BY <2>1, <2>2, <2>3
<1> QED
  BY <1>6, <1>7, <1>8, <1>9, <1>10 DEF JobsOK

(* The transfers of others when a file of client c changes.                *)
LEMMA OthersWhenChanged ==
  ASSUME TypeOK, JobsOK, NEW c \in Client, NEW n \in Name, NEW id,
         folder' = [folder EXCEPT ![c] = [folder[c] EXCEPT ![n] = id]],
         \A d \in Client : held[d] \subseteq held'[d],
         UNCHANGED told,
         NEW d \in Client,
         /\ pc'[d] = pc[d] /\ want'[d] = want[d] /\ peers'[d] = peers[d]
         /\ left'[d] = left[d] /\ source'[d] = source[d]
         /\ sending'[d] = sending[d] /\ bytes'[d] = bytes[d],
         raced'[d] = (raced[d] \/ [peer |-> c, name |-> n] \in sending[d])
  PROVE  /\ IF pc'[d] = "transfer" THEN Running(d)' ELSE Idle(d)'
         /\ IsFiniteSet(sending'[d])
<1>1. CASE pc[d] = "transfer"
  <2>1. \A p \in peers'[d] \ left'[d] : want'[d] \in held'[p]
    BY <1>1 DEF JobsOK, Running, TypeOK
  <2>2. ASSUME ~raced'[d], NEW s \in sending'[d]
        PROVE  folder'[s.peer][s.name] = want'[d]
    <3>1. /\ s \in [peer : Client, name : Name] /\ s # [peer |-> c, name |-> n]
          /\ folder[s.peer][s.name] = want[d]
      BY <1>1, <2>2 DEF JobsOK, Running, TypeOK
    <3>2. s.peer \in Client /\ s.name \in Name /\ (s.peer # c \/ s.name # n)
      BY <3>1
    <3>3. folder'[s.peer][s.name] = folder[s.peer][s.name]
      BY <3>2 DEF TypeOK
    <3> QED
      BY <3>1, <3>3
  <2>3. /\ left'[d] \subseteq peers'[d]
        /\ peers'[d] # {} =>
             \E p \in peers'[d] : [name |-> source'[d], id |-> want'[d]] \in told'[p]
        /\ raced'[d] \/ bytes'[d] # "wrong"
    BY <1>1 DEF JobsOK, Running
  <2>4. Running(d)' /\ IsFiniteSet(sending'[d])
    BY <1>1, <2>1, <2>2, <2>3 DEF Running, JobsOK
  <2> QED
    BY <1>1, <2>4
<1>2. CASE pc[d] # "transfer"
  BY <1>2 DEF JobsOK, Idle
<1> QED
  BY <1>1, <1>2

LEMMA JobInstall ==
  ASSUME TypeOK, JobsOK, HeldOK, PeersToldIt, [Next]_vars, NEW c \in Client, Install(c)
  PROVE  JobsOK' /\ PeersToldIt'
<1>1. source[c] \in Name
  BY SourceIsName DEF Install
<1>2. PICK id \in Identity :
        folder' = [folder EXCEPT ![c] = [folder[c] EXCEPT ![source[c]] = id]]
  BY <1>1, RenamedEffect DEF Install
<1>3. /\ pc' = [pc EXCEPT ![c] = "prompt"]
      /\ want' = [want EXCEPT ![c] = None] /\ peers' = [peers EXCEPT ![c] = {}]
      /\ left' = [left EXCEPT ![c] = {}] /\ source' = [source EXCEPT ![c] = None]
      /\ sending' = [sending EXCEPT ![c] = {}] /\ bytes' = [bytes EXCEPT ![c] = "right"]
      /\ raced' = [[d \in Client |-> raced[d]
                      \/ [peer |-> c, name |-> source[c]] \in sending[d]]
                    EXCEPT ![c] = FALSE]
      /\ told' = told
  BY DEF Install, Renamed, EndTransfer, Goto, Raced
<1>4. PeersToldIt'
  BY <1>3 DEF PeersToldIt, TypeOK
<1>5. pc'[c] # "transfer" /\ Idle(c)' /\ IsFiniteSet(sending'[c])
  BY <1>3, FS_EmptySet DEF Idle, TypeOK
<1>6. ASSUME NEW d \in Client, d # c
      PROVE  /\ IF pc'[d] = "transfer" THEN Running(d)' ELSE Idle(d)'
             /\ IsFiniteSet(sending'[d])
  <2>1. /\ pc'[d] = pc[d] /\ want'[d] = want[d] /\ peers'[d] = peers[d]
        /\ left'[d] = left[d] /\ source'[d] = source[d]
        /\ sending'[d] = sending[d] /\ bytes'[d] = bytes[d]
        /\ raced'[d] = (raced[d] \/ [peer |-> c, name |-> source[c]] \in sending[d])
    BY <1>3, <1>6 DEF TypeOK
  <2> QED
    BY <1>1, <1>2, <1>3, <2>1, HeldStep, OthersWhenChanged
<1> QED
  BY <1>4, <1>5, <1>6 DEF JobsOK

LEMMA JobEdit ==
  ASSUME TypeOK, JobsOK, HeldOK, PeersToldIt, [Next]_vars, NEW c \in Client,
         NEW n \in Name, NEW id, Edit(c, n, id)
  PROVE  JobsOK' /\ PeersToldIt'
<1>1. /\ folder' = [folder EXCEPT ![c] = [folder[c] EXCEPT ![n] = id]]
      /\ UNCHANGED <<pc, want, peers, left, source, sending, bytes, told>>
      /\ raced' = [d \in Client |-> raced[d] \/ [peer |-> c, name |-> n] \in sending[d]]
  BY DEF Edit, Raced, mainVars
<1>2. PeersToldIt'
  BY <1>1 DEF PeersToldIt
<1>3. \A d \in Client : /\ IF pc'[d] = "transfer" THEN Running(d)' ELSE Idle(d)'
                        /\ IsFiniteSet(sending'[d])
  BY <1>1, HeldStep, OthersWhenChanged
<1> QED
  BY <1>2, <1>3 DEF JobsOK

(* Whoever has looked for the file had it then, and has not changed it     *)
(* since, unless the transfer says so.                                     *)
LEMMA JobValidate ==
  ASSUME TypeOK, HeldOK, JobsOK, PeersToldIt, NEW c \in Client, NEW p \in Client,
         Validate(c, p)
  PROVE  JobsOK' /\ PeersToldIt'
<1>1. PICK n \in Name :
        /\ folder[p][n] = want[c]
        /\ sending' = [sending EXCEPT ![c] = sending[c] \cup {[peer |-> p, name |-> n]}]
  BY DEF Validate
<1>2. /\ pc[c] = "transfer" /\ p \in left[c]
      /\ left' = [left EXCEPT ![c] = left[c] \ {p}]
      /\ UNCHANGED <<pc, folder, held, told, want, peers, bytes, source, raced>>
  BY DEF Validate, mainVars
<1>3. Running(c) /\ IsFiniteSet(sending[c])
  BY <1>2 DEF JobsOK
<1>4. PeersToldIt'
  BY <1>2 DEF PeersToldIt
<1>5. want[c] \in held[p]
  <2>1. PICK f \in told[p] : f.id = want[c]
    BY <1>2, <1>3 DEF Running, PeersToldIt
  <2>2. want[c] # Absent
    BY <2>1, ConsoleAssumption DEF TypeOK, Seen, SizeHash
  <2> QED
    BY <1>1, <2>2 DEF HeldOK
<1>6. /\ left'[c] = left[c] \ {p}
      /\ sending'[c] = sending[c] \cup {[peer |-> p, name |-> n]}
  BY <1>1, <1>2 DEF TypeOK
<1>7. Running(c)'
  BY <1>1, <1>2, <1>3, <1>5, <1>6 DEF Running
<1>8. IsFiniteSet(sending'[c])
  <2>1. IsFiniteSet(sending[c] \cup {[peer |-> p, name |-> n]})
    BY <1>3, FS_AddElement
  <2> QED
    BY <1>6, <2>1
<1>9. ASSUME NEW d \in Client, d # c
      PROVE  /\ IF pc'[d] = "transfer" THEN Running(d)' ELSE Idle(d)'
             /\ IsFiniteSet(sending'[d])
  <2>1. left'[d] = left[d] /\ sending'[d] = sending[d]
    BY <1>1, <1>2, <1>9 DEF TypeOK
  <2> QED
    BY <1>2, <2>1 DEF JobsOK, Running, Idle
<1> QED
  BY <1>2, <1>4, <1>7, <1>8, <1>9 DEF JobsOK

LEMMA JobSend ==
  ASSUME TypeOK, JobsOK, PeersToldIt, NEW c \in Client, NEW s \in sending[c],
         Send(c, s)
  PROVE  JobsOK' /\ PeersToldIt'
<1>1. /\ pc[c] = "transfer"
      /\ sending' = [sending EXCEPT ![c] = sending[c] \ {s}]
      /\ bytes' = [bytes EXCEPT ![c] =
                     IF bytes[c] = "right" /\ folder[s.peer][s.name] # want[c]
                     THEN "wrong" ELSE bytes[c]]
      /\ UNCHANGED <<pc, folder, held, told, want, peers, left, source, raced>>
  BY DEF Send, mainVars
<1>2. Running(c) /\ IsFiniteSet(sending[c])
  BY <1>1 DEF JobsOK
<1>3. PeersToldIt'
  BY <1>1 DEF PeersToldIt
<1>4. /\ sending'[c] = sending[c] \ {s}
      /\ ~raced[c] => bytes'[c] # "wrong"
  <2>1. sending'[c] = sending[c] \ {s}
    BY <1>1 DEF TypeOK
  <2>2. bytes'[c] = IF bytes[c] = "right" /\ folder[s.peer][s.name] # want[c]
                    THEN "wrong" ELSE bytes[c]
    BY <1>1 DEF TypeOK
  <2> QED
    BY <1>2, <2>1, <2>2 DEF Running
<1>5. Running(c)'
  BY <1>1, <1>2, <1>4 DEF Running
<1>6. IsFiniteSet(sending'[c])
  BY <1>2, <1>4, FS_RemoveElement
<1>7. ASSUME NEW d \in Client, d # c
      PROVE  /\ IF pc'[d] = "transfer" THEN Running(d)' ELSE Idle(d)'
             /\ IsFiniteSet(sending'[d])
  <2>1. bytes'[d] = bytes[d] /\ sending'[d] = sending[d]
    BY <1>1, <1>7 DEF TypeOK
  <2> QED
    BY <1>1, <2>1 DEF JobsOK, Running, Idle
<1> QED
  BY <1>1, <1>3, <1>5, <1>6, <1>7 DEF JobsOK

LEMMA JobEnds ==
  ASSUME TypeOK, JobsOK, PeersToldIt, NEW c \in Client, TransferFails(c) \/ Stop(c)
  PROVE  JobsOK' /\ PeersToldIt'
<1>1. /\ pc' = [pc EXCEPT ![c] = "prompt"] \/ pc' = [pc EXCEPT ![c] = "off"]
      /\ want' = [want EXCEPT ![c] = None] /\ peers' = [peers EXCEPT ![c] = {}]
      /\ left' = [left EXCEPT ![c] = {}] /\ source' = [source EXCEPT ![c] = None]
      /\ sending' = [sending EXCEPT ![c] = {}]
      /\ raced' = [raced EXCEPT ![c] = FALSE]
      /\ UNCHANGED <<folder, held, told>>
  BY DEF TransferFails, Stop, EndTransfer, Goto
<1>2. /\ bytes'[c] = "right"
      /\ \A d \in Client : bytes'[d] = bytes[d]
           \/ (bytes'[d] = "right" /\ d = c)
           \/ (bytes'[d] = "missing" /\ sending[d] # {})
  <2>1. bytes \in [Client -> {"right", "wrong", "missing"}]
    BY DEF TypeOK
  <2>2. CASE TransferFails(c)
    <3>1. bytes' = [bytes EXCEPT ![c] = "right"]
      BY <2>2 DEF TransferFails
    <3> QED
      BY <2>1, <3>1
  <2>3. CASE Stop(c)
    <3>1. bytes' = [d \in Client |->
                      IF d = c THEN "right"
                      ELSE IF \E s \in sending[d] : s.peer = c THEN "missing"
                      ELSE bytes[d]]
      BY <2>3 DEF Stop
    <3>2. \A d \in Client : bytes'[d] = IF d = c THEN "right"
                      ELSE IF \E s \in sending[d] : s.peer = c THEN "missing"
                      ELSE bytes[d]
      BY <3>1
    <3> QED
      BY <3>2
  <2> QED
    BY <2>2, <2>3
<1>3. PeersToldIt'
  BY <1>1 DEF PeersToldIt, TypeOK
<1>4. pc'[c] # "transfer" /\ Idle(c)' /\ IsFiniteSet(sending'[c])
  BY <1>1, <1>2, FS_EmptySet DEF Idle, TypeOK
<1>5. ASSUME NEW d \in Client, d # c
      PROVE  /\ IF pc'[d] = "transfer" THEN Running(d)' ELSE Idle(d)'
             /\ IsFiniteSet(sending'[d])
  <2>1. /\ pc'[d] = pc[d] /\ want'[d] = want[d] /\ peers'[d] = peers[d]
        /\ left'[d] = left[d] /\ source'[d] = source[d]
        /\ sending'[d] = sending[d] /\ raced'[d] = raced[d]
        /\ bytes'[d] = bytes[d] \/ (bytes'[d] = "missing" /\ sending[d] # {})
    BY <1>1, <1>2, <1>5 DEF TypeOK
  <2>2. CASE pc[d] = "transfer"
    BY <1>1, <2>1, <2>2 DEF JobsOK, Running
  <2>3. CASE pc[d] # "transfer"
    BY <2>1, <2>3 DEF JobsOK, Idle
  <2> QED
    BY <2>2, <2>3
<1> QED
  BY <1>3, <1>4, <1>5 DEF JobsOK

LEMMA JobStep ==
  ASSUME TypeOK, ToldOK, HeldOK, JobsOK, PeersToldIt, [Next]_vars
  PROVE  JobsOK' /\ PeersToldIt'
<1>1. CASE /\ UNCHANGED <<jobVars, folder>>
           /\ \A c \in Client : pc'[c] = "transfer" <=> pc[c] = "transfer"
  BY <1>1, ToldGrows, HeldStep, JobsKept
<1>2. UNCHANGED vars \/ RestartServer \/ Listener \/ (\E m \in late : RegisterLate(m))
        => UNCHANGED <<jobVars, folder, pc>>
  BY ListenerKeeps DEF vars, RestartServer, RegisterLate, mainVars
<1>3. ASSUME NEW c \in Client, ActionOf(c)
      PROVE  JobsOK' /\ PeersToldIt'
  <2>1. CASE Start(c) \/ Scan(c) \/ SetCount(c) \/ Publish(c) \/ Register(c)
             \/ Search(c) \/ Collect(c) \/ \E text \in Term : FindDistributed(c, text)
    <3>1. /\ UNCHANGED <<jobVars, folder>>
          /\ pc[c] # "transfer"
          /\ \E label \in Label \ {"transfer"} : pc' = [pc EXCEPT ![c] = label]
      BY <2>1 DEF Start, Scan, SetCount, Publish, Register, Search, Collect,
                  FindDistributed, Command, Goto, Label
    <3> QED
      BY <1>1, <3>1 DEF TypeOK
  <2>2. CASE Bind(c) \/ FindFails(c) \/ (\E text \in Term : FindAtServer(c, text))
             \/ \E line \in Line : RequestRefused(c, line)
    <3>1. UNCHANGED <<jobVars, folder, pc>>
      BY <2>2 DEF Bind, FindFails, FindAtServer, RequestRefused, mainVars
    <3> QED
      BY <1>1, <3>1
  <2>3. CASE \E line \in Line : RequestRefreshed(c, line) \/ RequestCached(c, line)
    BY <2>3, JobContact
  <2>4. CASE \E p \in Client : Validate(c, p)
    BY <2>4, JobValidate
  <2>5. CASE \E s \in sending[c] : Send(c, s)
    BY <2>5, JobSend
  <2>6. CASE Install(c)
    BY <2>6, JobInstall
  <2>7. CASE TransferFails(c) \/ Stop(c)
    BY <2>7, JobEnds
  <2>8. CASE \E n \in Name, id \in Identity \cup {Absent} : Edit(c, n, id)
    BY <2>8, JobEdit
  <2> QED
    BY <1>3, <2>1, <2>2, <2>3, <2>4, <2>5, <2>6, <2>7, <2>8 DEF ActionOf
<1> QED
  BY <1>1, <1>2, <1>3, Cases

-----------------------------------------------------------------------------
(* The cache of the console. *)

(* The server reads the term that is built from a request as its identity. *)
LEMMA FoundByIdentity ==
  ASSUME NEW id \in Value \X Value
  PROVE  Found(IdentityTerm(id)) = {item \in Listed : item.id = id}
<1>1. ParsedTerm(IdentityTerm(id)) = id
  BY IdentityTermsReadBack
<1>2. id # None
  BY DEF None
<1> QED
  BY <1>1, <1>2 DEF Found

LEMMA CacheKeeps ==
  ASSUME CacheKeepsFindResults, UNCHANGED cacheVars
  PROVE  CacheKeepsFindResults'
BY DEF CacheKeepsFindResults, cacheVars

LEMMA CacheStep ==
  ASSUME TypeOK, CacheKeepsFindResults, [Next]_vars
  PROVE  CacheKeepsFindResults'
<1> USE DEF CacheKeepsFindResults, TypeOK
<1>1. CASE UNCHANGED cacheVars
  BY <1>1, CacheKeeps
<1>2. UNCHANGED vars \/ RestartServer \/ Listener \/ (\E m \in late : RegisterLate(m))
        => UNCHANGED cacheVars
  BY ListenerKeeps DEF vars, RestartServer, RegisterLate
<1>3. ASSUME NEW c \in Client, ActionOf(c)
      PROVE  CacheKeepsFindResults'
  <2>1. CASE Start(c)
    BY <2>1 DEF Start
  <2>2. CASE Collect(c) \/ \E text \in Term : FindAtServer(c, text)
    <3>1. PICK results : Remember(c, results)
      BY <2>2 DEF Collect, FindAtServer
    <3> QED
      BY <3>1 DEF Remember
  <2>3. CASE \E line \in Line : RequestRefreshed(c, line)
    <3>1. PICK line \in Line : RequestRefreshed(c, line)
      BY <2>3
    <3> DEFINE id == RequestedIdentity(line)
               refresh == Found(IdentityTerm(id))
    <3>2. /\ id # None /\ OfIdentity(refresh, id) # {}
          /\ last' = [last EXCEPT ![c] = refresh]
          /\ refreshed' = [refreshed EXCEPT ![c] = id]
          /\ shown' = shown
      BY <3>1 DEF RequestRefreshed
    <3>3. id \in Value \X Value
      BY <3>2, RequestedInValue, ConsoleAssumption
    <3>4. refresh = {item \in Listed : item.id = id}
      BY <3>3, FoundByIdentity
    <3>5. refresh # {} /\ \A item \in refresh : item.id = id
      BY <3>2, <3>4 DEF OfIdentity
    <3> HIDE DEF refresh, id
    <3>6. last'[c] = refresh /\ refreshed'[c] = id
      BY <3>2
    <3>7. \A d \in Client \ {c} :
            last'[d] = last[d] /\ refreshed'[d] = refreshed[d] /\ shown'[d] = shown[d]
      BY <3>2
    <3> QED
      BY <3>2, <3>5, <3>6, <3>7
  <2>4. CASE Bind(c) \/ Scan(c) \/ SetCount(c) \/ Publish(c) \/ Register(c)
             \/ Search(c)
    BY <1>1, <2>4 DEF Bind, Scan, SetCount, Publish, Register, Search
  <2>5. CASE Install(c) \/ TransferFails(c) \/ FindFails(c) \/ Stop(c)
             \/ (\E p \in Client : Validate(c, p)) \/ (\E s \in sending[c] : Send(c, s))
             \/ \E n \in Name, id \in Identity \cup {Absent} : Edit(c, n, id)
    <3>1. UNCHANGED cacheVars
      BY <2>5 DEF Install, Renamed, TransferFails, FindFails, Stop, Validate, Send, Edit
    <3> QED
      BY <1>1, <3>1
  <2>6. CASE (\E text \in Term : FindDistributed(c, text))
             \/ \E line \in Line : RequestCached(c, line) \/ RequestRefused(c, line)
    <3>1. UNCHANGED cacheVars
      BY <2>6 DEF FindDistributed, RequestCached, RequestRefused
    <3> QED
      BY <1>1, <3>1
  <2> QED
    BY <1>3, <2>1, <2>2, <2>3, <2>4, <2>5, <2>6 DEF ActionOf
<1> QED
  BY <1>1, <1>2, <1>3, Cases

-----------------------------------------------------------------------------
(* Theorems. *)

LEMMA ConsoleInvariant == Spec => []ConsoleInv
<1>1. Init => ConsoleInv
  <2> SUFFICES ASSUME Init
               PROVE  ConsoleInv
    OBVIOUS
  <2>1. folder \in [Client -> [Name -> Identity \cup {Absent}]]
        /\ held \in [Client -> SUBSET Identity]
    BY ConsoleAssumption DEF Init
  <2>2. TypeOK
    BY <2>1 DEF Init, TypeOK, Label
  <2>3. HeldOK
    BY ConsoleAssumption DEF Init, HeldOK
  <2>4. JobsOK
    BY FS_EmptySet DEF Init, JobsOK, Idle
  <2> QED
    BY <2>2, <2>3, <2>4 DEF Init, ConsoleInv, ScansOK, ListedIsOneScan, ToldOK,
                            PeersToldIt, CacheKeepsFindResults
<1>2. ConsoleInv /\ [Next]_vars => ConsoleInv'
  <2> SUFFICES ASSUME ConsoleInv, [Next]_vars
               PROVE  ConsoleInv'
    OBVIOUS
  <2> USE DEF ConsoleInv
  <2>1. TypeOK'
    <3>1. ASSUME NEW c \in Client, ActionOf(c)
          PROVE  TypeOK'
      <4>1. Search(c) => term[c] \in Term
        BY DEF Search, ScansOK
      <4>2. CASE Start(c) \/ Bind(c) \/ Scan(c) \/ SetCount(c) \/ Publish(c)
        BY <4>2, TypeStartUp
      <4>3. CASE Register(c)
        BY <4>3, TypeRegister
      <4>4. CASE FindFails(c) \/ Search(c) \/ Collect(c)
                 \/ \E text \in Term : FindAtServer(c, text) \/ FindDistributed(c, text)
        BY <4>1, <4>4, TypeFind
      <4>5. CASE \E line \in Line : \/ RequestRefreshed(c, line) \/ RequestCached(c, line)
                                    \/ RequestRefused(c, line)
        BY <4>5, TypeRequest
      <4>6. CASE Install(c) \/ TransferFails(c) \/ Stop(c)
                 \/ (\E p \in Client : Validate(c, p)) \/ (\E s \in sending[c] : Send(c, s))
                 \/ \E n \in Name, id \in Identity \cup {Absent} : Edit(c, n, id)
        BY <4>6, TypeTransfer
      <4> QED
        BY <3>1, <4>2, <4>3, <4>4, <4>5, <4>6 DEF ActionOf
    <3> QED
      BY <3>1, Cases, TypeListener, TypeRest
  <2>2. ScansOK' /\ ListedIsOneScan'
    BY ScansStep
  <2>3. ToldOK'
    BY ToldStep
  <2>4. HeldOK' /\ JobsOK' /\ PeersToldIt'
    BY HeldStep, JobStep
  <2> QED
    BY <2>1, <2>2, <2>3, <2>4, CacheStep
<1> QED
  BY <1>1, <1>2, PTL DEF Spec

(* Every variable keeps its type, and no transfer has more peers than the  *)
(* file it asks for has bytes.                                             *)
THEOREM ConsoleTypes == Spec => []TypeOK
BY ConsoleInvariant, PTL DEF ConsoleInv

(* Whoever is contacted for a segment has told the server or a searcher of *)
(* a file of the identity, whatever was typed.                             *)
THEOREM PeersTold == Spec => []PeersToldIt
BY ConsoleInvariant, PTL DEF ConsoleInv

(* What the server lists for a client is the outcome of one scan, also     *)
(* when a registration is handled after a later one.                       *)
THEOREM OneScanListed == Spec => []ListedIsOneScan
BY ConsoleInvariant, PTL DEF ConsoleInv

(* The cache has what the last find printed, or a refresh that found peers.*)
THEOREM CacheKept == Spec => []CacheKeepsFindResults
BY ConsoleInvariant, PTL DEF ConsoleInv

(* The server finds all files of a requested identity, and no others.      *)
THEOREM IdentityFound == Spec => []RequestsFindIdentity
<1>1. RequestsFindIdentity
  BY FoundByIdentity, RequestedInValue, ConsoleAssumption DEF RequestsFindIdentity
<1> QED
  BY <1>1, PTL

(* What replaces a file without an edit is a download that ends.           *)
LEMMA ReplacesInstalls ==
  ASSUME ConsoleInv, [Next]_vars, NEW c \in Client, NEW n \in Name, Replaces(c, n)
  PROVE  /\ Install(c) /\ n = source[c]
         /\ bytes[c] = "right" => folder'[c][n] = want[c]
<1> USE DEF ConsoleInv
<1>1. folder' # folder /\ events' = events /\ events \in Nat
  BY DEF Replaces, TypeOK
<1>2. PICK d \in Client : Install(d)
  <2>1. ~(UNCHANGED vars \/ RestartServer \/ Listener \/ \E m \in late : RegisterLate(m))
    BY <1>1, ListenerKeeps DEF vars, RestartServer, RegisterLate
  <2>2. PICK d \in Client : ActionOf(d)
    BY <2>1, Cases
  <2>3. ~\E m \in Name, id \in Identity \cup {Absent} : Edit(d, m, id)
    BY <1>1 DEF Edit, Event
  <2> QED
    BY <1>1, <2>2, <2>3, FoldersKept
<1>3. source[d] \in Name
  BY <1>2, SourceIsName DEF Install
<1>4. PICK id \in Identity :
        /\ bytes[d] = "right" => id = want[d]
        /\ folder' = [folder EXCEPT ![d] = [folder[d] EXCEPT ![source[d]] = id]]
  BY <1>2, <1>3, RenamedEffect DEF Install
<1>5. c = d /\ n = source[d] /\ folder'[c][n] = id
  <2>1. folder \in [Client -> [Name -> Identity \cup {Absent}]]
    BY DEF TypeOK
  <2>2. folder'[c][n] # folder[c][n]
    BY DEF Replaces
  <2> QED
    BY <1>3, <1>4, <2>1, <2>2
<1> QED
  BY <1>2, <1>4, <1>5

(* An identity that was only half of what its owner had when it told of it *)
(* may be asked for, but nothing is ever installed for it: each peer of a  *)
(* download that ends well has had a file of the identity.                 *)
THEOREM OnlyHeld == Spec => OnlyHeldIsInstalled
<1>1. ASSUME ConsoleInv, [Next]_vars, NEW c \in Client, NEW n \in Name,
             Replaces(c, n), NEW p \in peers[c]
      PROVE  want[c] \in held[p]
  <2>1. Install(c)
    BY <1>1, ReplacesInstalls
  <2>2. pc[c] = "transfer" /\ left[c] = {}
    BY <2>1 DEF Install
  <2>3. Running(c)
    BY <1>1, <2>2 DEF ConsoleInv, JobsOK
  <2> QED
    BY <1>1, <2>2, <2>3 DEF Running
<1>2. ConsoleInv /\ [Next]_vars =>
        [\A c \in Client : \A n \in Name :
           Replaces(c, n) => \A p \in peers[c] : want[c] \in held[p]]_vars
  BY <1>1
<1> QED
  BY <1>2, ConsoleInvariant, PTL DEF Spec, OnlyHeldIsInstalled

(* Apart from edits, files change only under a name that a contacted peer  *)
(* told with the identity asked for, and to the file asked for, unless the *)
(* file was changed at a peer after it had been found there.               *)
THEOREM NamesKept == Spec => DownloadsKeepNames
<1>1. ASSUME ConsoleInv, [Next]_vars, NEW c \in Client, NEW n \in Name,
             Replaces(c, n)
      PROVE  /\ \E p \in peers[c] : [name |-> n, id |-> want[c]] \in told[p]
             /\ raced[c] \/ folder'[c][n] = want[c]
  <2>1. /\ Install(c) /\ n = source[c]
        /\ bytes[c] = "right" => folder'[c][n] = want[c]
    BY <1>1, ReplacesInstalls
  <2>2. pc[c] = "transfer" /\ peers[c] # {} /\ bytes[c] # "missing"
    BY <2>1 DEF Install
  <2>3. Running(c) /\ bytes[c] \in {"right", "wrong", "missing"}
    BY <1>1, <2>2 DEF ConsoleInv, JobsOK, TypeOK
  <2> QED
    BY <2>1, <2>2, <2>3 DEF Running
<1>2. ConsoleInv /\ [Next]_vars =>
        [\A c \in Client : \A n \in Name :
           Replaces(c, n) =>
             /\ \E p \in peers[c] : [name |-> n, id |-> want[c]] \in told[p]
             /\ raced[c] \/ folder'[c][n] = want[c]]_vars
  BY <1>1
<1> QED
  BY <1>2, ConsoleInvariant, PTL DEF Spec, DownloadsKeepNames

-----------------------------------------------------------------------------
(* How many steps a main thread is from its prompt.                        *)

StepsLeft(c) ==
  CASE pc[c] \in {"scan", "rescan"} -> 4
    [] pc[c] \in {"count", "refresh"} -> 3
    [] pc[c] \in {"publish", "search"} -> 2
    [] pc[c] \in {"register", "window"} -> 1
    [] pc[c] = "transfer" ->
         1 + 2 * Cardinality(left[c]) + Cardinality(sending[c])
    [] OTHER -> 0

LEMMA CountsNat ==
  ASSUME ConsoleInv, NEW c \in Client
  PROVE  /\ IsFiniteSet(left[c]) /\ Cardinality(left[c]) \in Nat
         /\ IsFiniteSet(sending[c]) /\ Cardinality(sending[c]) \in Nat
<1>1. left[c] \subseteq Client /\ IsFiniteSet(sending[c])
  BY DEF ConsoleInv, TypeOK, JobsOK
<1> QED
  BY <1>1, ConsoleAssumption, FS_Subset, FS_CardinalityType

LEMMA StepsNat ==
  ASSUME ConsoleInv, NEW c \in Client
  PROVE  StepsLeft(c) \in Nat /\ (Busy(c) => StepsLeft(c) > 0)
<1>1. pc[c] \in Label
  BY DEF ConsoleInv, TypeOK
<1> QED
  BY <1>1, CountsNat DEF StepsLeft, Busy, Label

(* Each step of a main thread that does not wait for its user, and each of *)
(* a peer that serves it, is one step nearer to the prompt.                *)
LEMMA ProceedLowers ==
  ASSUME ConsoleInv, NEW c \in Client, Proceed(c)
  PROVE  StepsLeft(c)' < StepsLeft(c) /\ StepsLeft(c)' <= StepsLeft(c)
<1>1. DOMAIN pc = Client /\ DOMAIN left = Client /\ DOMAIN sending = Client
  BY DEF ConsoleInv, TypeOK
<1>2. /\ IsFiniteSet(left[c]) /\ Cardinality(left[c]) \in Nat
      /\ IsFiniteSet(sending[c]) /\ Cardinality(sending[c]) \in Nat
  BY CountsNat
<1>3. CASE StartUp(c) \/ Search(c) \/ Collect(c)
  <2>1. \/ pc[c] = "scan" /\ pc'[c] = "count"
        \/ pc[c] = "rescan" /\ pc'[c] = "refresh"
        \/ pc[c] = "count" /\ pc'[c] = "publish"
        \/ pc[c] = "publish" /\ pc'[c] = "register"
        \/ pc[c] = "register" /\ pc'[c] = "prompt"
        \/ pc[c] = "refresh" /\ pc'[c] = "search"
        \/ pc[c] = "search" /\ pc'[c] = "window"
        \/ pc[c] = "window" /\ pc'[c] = "prompt"
    BY <1>1, <1>3 DEF StartUp, Scan, SetCount, Publish, Register, Search, Collect, Goto
  <2> QED
    BY <2>1 DEF StepsLeft
<1>4. CASE Install(c) \/ TransferFails(c)
  <2>1. pc[c] = "transfer" /\ pc'[c] = "prompt"
    BY <1>1, <1>4 DEF Install, Renamed, TransferFails, Goto
  <2> QED
    BY <1>2, <2>1 DEF StepsLeft
<1>5. ASSUME NEW p \in Client, Validate(c, p)
      PROVE  StepsLeft(c)' < StepsLeft(c) /\ StepsLeft(c)' <= StepsLeft(c)
  <2>1. /\ pc[c] = "transfer" /\ pc' = pc /\ p \in left[c]
        /\ left'[c] = left[c] \ {p}
    BY <1>1, <1>5 DEF Validate, mainVars
  <2>2. PICK n \in Name : sending'[c] = sending[c] \cup {[peer |-> p, name |-> n]}
    BY <1>1, <1>5 DEF Validate
  <2>3. Cardinality(left'[c]) = Cardinality(left[c]) - 1
    BY <1>2, <2>1, FS_RemoveElement
  <2>4. Cardinality(sending'[c])
          \in {Cardinality(sending[c]), Cardinality(sending[c]) + 1}
    BY <1>2, <2>2, FS_AddElement
  <2> QED
    BY <1>2, <2>1, <2>3, <2>4 DEF StepsLeft
<1>6. ASSUME NEW s \in sending[c], Send(c, s)
      PROVE  StepsLeft(c)' < StepsLeft(c) /\ StepsLeft(c)' <= StepsLeft(c)
  <2>1. /\ pc[c] = "transfer" /\ pc' = pc /\ left' = left
        /\ sending'[c] = sending[c] \ {s}
    BY <1>1, <1>6 DEF Send, mainVars
  <2>2. Cardinality(sending'[c]) = Cardinality(sending[c]) - 1
    BY <1>2, <2>1, FS_RemoveElement
  <2> QED
    BY <1>2, <2>1, <2>2 DEF StepsLeft
<1> QED
  BY <1>3, <1>4, <1>5, <1>6 DEF Proceed

Same(c) == pc'[c] = pc[c] /\ left'[c] = left[c] /\ sending'[c] = sending[c]

LEMMA OthersStay ==
  ASSUME TypeOK, Next, NEW c \in Client, ~Start(c), ~Console(c), ~Proceed(c)
  PROVE  pc'[c] = "off" \/ Same(c)
<1> USE DEF Same, mainVars, jobVars, Goto
<1>1. DOMAIN pc = Client /\ DOMAIN left = Client /\ DOMAIN sending = Client
  BY DEF TypeOK
<1>2. ASSUME NEW d \in Client, d # c, Start(d) \/ Proceed(d)
      PROVE  Same(c)
  <2>1. CASE Start(d) \/ StartUp(d) \/ Search(d) \/ Collect(d)
    BY <1>1, <1>2, <2>1 DEF Start, StartUp, Scan, SetCount, Publish, Register,
       Search, Collect
  <2>2. CASE Install(d) \/ TransferFails(d)
    BY <1>1, <1>2, <2>2 DEF Install, Renamed, TransferFails, EndTransfer
  <2>3. CASE (\E p \in Client : Validate(d, p)) \/ (\E s \in sending[d] : Send(d, s))
    BY <1>1, <1>2, <2>3 DEF Validate, Send
  <2> QED
    BY <1>2, <2>1, <2>2, <2>3 DEF Proceed
<1>3. ASSUME NEW d \in Client, d # c, Console(d)
      PROVE  Same(c)
  BY <1>1, <1>3 DEF Console, FindFails, FindAtServer, FindDistributed,
     RequestRefreshed, RequestCached, RequestRefused, Transfer, Contact
<1>4. ASSUME NEW d \in Client, Bind(d)
      PROVE  Same(c)
  BY <1>4 DEF Bind
<1>5. Listener => Same(c)
  BY ListenerKeeps
<1>6. ASSUME NEW m \in late, RegisterLate(m)
      PROVE  Same(c)
  BY <1>6 DEF RegisterLate
<1>7. CASE Environment
  <2>1. CASE RestartServer
    BY <2>1 DEF RestartServer
  <2>2. ASSUME NEW d \in Client, Stop(d)
        PROVE  pc'[c] = "off" \/ Same(c)
    BY <1>1, <2>2 DEF Stop, EndTransfer
  <2>3. ASSUME NEW d \in Client, NEW n \in Name, NEW id \in Identity \cup {Absent},
               Edit(d, n, id)
        PROVE  Same(c)
    BY <2>3 DEF Edit
  <2> QED
    BY <1>7, <2>1, <2>2, <2>3 DEF Environment
<1> QED
  BY <1>2, <1>3, <1>4, <1>5, <1>6, <1>7 DEF Next

(* What a step does to the way that is left to the prompt.                 *)
RunsDown(c) ==
  /\ StepsLeft(c) \in Nat
  /\ Busy(c) => StepsLeft(c) > 0
  /\ Proceed(c) => StepsLeft(c)' < StepsLeft(c)
  /\ Start(c) \/ Console(c) \/ StepsLeft(c)' <= StepsLeft(c)

(* Every step of a command brings its client nearer to the prompt, and     *)
(* nobody takes it further away: not other clients, answers that arrive    *)
(* late, edits, stops, nor restarts of the server.                         *)
THEOREM CommandsRunDown == Spec => [][\A c \in Client : RunsDown(c)]_vars
<1>1. ASSUME ConsoleInv, Next, NEW c \in Client
      PROVE  RunsDown(c)
  <2>1. TypeOK /\ StepsLeft(c) \in Nat /\ (Busy(c) => StepsLeft(c) > 0)
    BY <1>1, StepsNat DEF ConsoleInv
  <2>2. Proceed(c) =>
          StepsLeft(c)' < StepsLeft(c) /\ StepsLeft(c)' <= StepsLeft(c)
    BY <1>1, ProceedLowers
  <2>3. ASSUME ~Start(c), ~Console(c), ~Proceed(c)
        PROVE  StepsLeft(c)' <= StepsLeft(c)
    <3>1. CASE pc'[c] = "off"
      BY <2>1, <3>1 DEF StepsLeft
    <3>2. CASE Same(c)
      <4>1. StepsLeft(c)' = StepsLeft(c)
        BY <3>2 DEF StepsLeft, Same
      <4> QED
        BY <2>1, <4>1
    <3> QED
      BY <1>1, <2>1, <2>3, <3>1, <3>2, OthersStay
  <2> QED
    BY <2>1, <2>2, <2>3 DEF RunsDown
<1>2. ConsoleInv /\ [Next]_vars => [\A c \in Client : RunsDown(c)]_vars
  BY <1>1
<1> QED
  BY <1>2, ConsoleInvariant, PTL DEF Spec

=============================================================================
