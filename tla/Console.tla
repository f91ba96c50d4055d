------------------------------ MODULE Console ------------------------------
(***************************************************************************)
(* The clients as their users see them: start-up (client/main.c), console  *)
(* (client/repl.c), scanner and the calls to the server (server_api.c),    *)
(* with the server as a directory, a flooded search as queries and answers *)
(* on their way, and a download as peers that serve one by one.            *)
(*                                                                         *)
(* A client has two kinds of threads.  The main thread starts the listener *)
(* and only then scans the folder, publishes the scan to the listener's    *)
(* threads without a lock, registers, and takes commands.  Listener        *)
(* threads answer queries from what is published, hand answers to the      *)
(* aggregator, and send files to the downloads of others.                  *)
(***************************************************************************)
EXTENDS FindTerm, FiniteSets, FiniteSetsExt

CONSTANTS
  Client,
  User,           \* the clients whose users type commands
  Name,           \* file names
  Identity,       \* <<size, hash>> of the files there are
  Shares,         \* [Client -> [Name -> Identity \cup {Absent}]]: the folders
  Term,           \* what users search for: texts
  NamesWith,      \* [Term -> SUBSET Name]: the names that contain them
  Line,           \* what users type after `request': texts
  MaxFiles,       \* SCANNER_MAX_FILES
  TornName,       \* [Name -> SUBSET Name]: parts of a name, half copied
  TornIdentity,   \* [Identity -> SUBSET (Value \X Value)]: the same of a pair
  Absent,
  MaxCommands,    \* commands of each user
  MaxEvents       \* edits, stops of clients and restarts of the server

ASSUME ConsoleAssumption ==
  /\ IsFiniteSet(Client) /\ User \subseteq Client
  /\ Identity \subseteq Value \X Value
  /\ None \notin Identity /\ Absent \notin Value \X Value
  /\ TornName \in [Name -> SUBSET Name]
  /\ TornIdentity \in [Identity -> SUBSET (Value \X Value)]
  /\ Term \subseteq Seq(Token) \ {None} /\ Line \subseteq Seq(Token)
  /\ Shares \in [Client -> [Name -> Identity \cup {Absent}]]
  /\ NamesWith \in [Term -> SUBSET Name]
  /\ MaxFiles \in Nat /\ MaxCommands \in Nat /\ MaxEvents \in Nat

VARIABLES
  folder,     \* the share folder: [Name -> Identity \cup {Absent}]
  pc,         \* where the main thread is
  listening,  \* whether the listener has its port
  scan,       \* the last scan_result_t
  shared,     \* global_flood_config.shared_files
  known,      \* at the server: the clients in the registry
  dir,        \* and the files of each
  late,       \* registrations it still handles, although their call failed
  nbrs,       \* global_neighbors
  term,       \* the term of the running find
  heard,      \* query_cache: ids of queries, [from, nth]
  asked,      \* copies of queries on their way: [from, nth, term, to, via]
  relays,     \* queries that listener threads still have to forward
  answers,    \* results on their way: [to, nth, item]
  agg,        \* global_aggregator
  last,       \* last_results of the console
  want,       \* the identity a transfer is for, or None
  peers,      \* the peers it has a segment from
  left,       \* those that have not looked for the file yet
  sending,    \* those that have, with its name: [peer, name]
  bytes,      \* what has arrived: "right", "wrong" or not all of it, "missing"
  source,     \* the name it will install, or None
  cmds,       \* commands so far
  events,     \* edits, stops and restarts so far
  \* For the properties only:
  scans,      \* the outcomes of all scans of each client
  shown,      \* what the last find of each user printed
  refreshed,  \* the identity whose refresh replaced the cache since, or None
  told,       \* the files each client has registered or answered with
  held,       \* the identities that its folder has ever had
  raced       \* whether a file was changed while it was sent to a transfer

jobVars == <<want, peers, left, sending, bytes, source, raced>>
mainVars == <<pc, scan, term, cmds>>
serverVars == <<known, dir, late>>
searchVars == <<nbrs, heard, asked, relays, answers, agg>>
cacheVars == <<last, shown, refreshed>>
vars == <<folder, held, mainVars, jobVars, listening, shared, serverVars,
          searchVars, cacheVars, events, scans, told>>

SizeHash == Value \X Value
File == [name : Name, id : Identity]
Seen == [name : Name, id : SizeHash]
Item(c, f) == [owner |-> c, name |-> f.name, id |-> f.id]

Init ==
  /\ folder = Shares
  /\ pc = [c \in Client |-> "off"]
  /\ listening = [c \in Client |-> FALSE]
  /\ scan = [c \in Client |-> {}]
  /\ shared = [c \in Client |-> {}]
  /\ known = {}
  /\ dir = [c \in Client |-> {}]
  /\ late = {}
  /\ nbrs = [c \in Client |-> {}]
  /\ heard = [c \in Client |-> {}]
  /\ asked = {}
  /\ relays = [c \in Client |-> {}]
  /\ answers = {}
  /\ agg = [c \in Client |-> {}]
  /\ term = [c \in Client |-> None]
  /\ last = [c \in Client |-> {}]
  /\ want = [c \in Client |-> None]
  /\ peers = [c \in Client |-> {}]
  /\ left = [c \in Client |-> {}]
  /\ sending = [c \in Client |-> {}]
  /\ bytes = [c \in Client |-> "right"]
  /\ source = [c \in Client |-> None]
  /\ cmds = [c \in Client |-> 0]
  /\ events = 0
  /\ scans = [c \in Client |-> {}]
  /\ shown = [c \in Client |-> {}]
  /\ refreshed = [c \in Client |-> None]
  /\ told = [c \in Client |-> {}]
  /\ held = [c \in Client |-> {Shares[c][n] : n \in Name} \ {Absent}]
  /\ raced = [c \in Client |-> FALSE]

Event == events < MaxEvents /\ events' = events + 1

Goto(c, label) == pc' = [pc EXCEPT ![c] = label]

-----------------------------------------------------------------------------
(* Start-up. *)

(* main() up to transfer_listener_start(): memory is fresh.  The listener  *)
(* gets its port (Bind) at any later time, or never.                       *)
Start(c) ==
  /\ pc[c] = "off"
  /\ Goto(c, "scan")
  /\ scan' = [scan EXCEPT ![c] = {}]
  /\ shared' = [shared EXCEPT ![c] = {}]
  /\ nbrs' = [nbrs EXCEPT ![c] = {}]
  /\ heard' = [heard EXCEPT ![c] = {}]
  /\ agg' = [agg EXCEPT ![c] = {}]
  /\ last' = [last EXCEPT ![c] = {}]
  /\ shown' = [shown EXCEPT ![c] = {}]
  /\ refreshed' = [refreshed EXCEPT ![c] = None]
  /\ UNCHANGED <<folder, held, term, cmds, jobVars, listening, serverVars,
                 asked, relays, answers, events, scans, told>>

Bind(c) ==
  /\ pc[c] # "off" /\ ~listening[c]
  /\ listening' = [listening EXCEPT ![c] = TRUE]
  /\ UNCHANGED <<folder, held, mainVars, jobVars, shared, serverVars,
                 searchVars, cacheVars, events, scans, told>>

Present(c) ==
  {[name |-> n, id |-> folder[c][n]] :
      n \in {m \in Name : folder[c][m] # Absent}}

(* scanner_scan_folder(): every file up to the limit, in directory order;  *)
(* nothing if the folder or any one file cannot be read.                   *)
ScanOutcomes(c) ==
  {{}} \cup kSubset(Min({MaxFiles, Cardinality(Present(c))}), Present(c))

Scan(c) ==
  /\ pc[c] \in {"scan", "rescan"}
  /\ \E result \in ScanOutcomes(c) :
       /\ scan' = [scan EXCEPT ![c] = result]
       /\ scans' = [scans EXCEPT ![c] = @ \cup {result}]
  /\ Goto(c, IF pc[c] = "scan" THEN "count" ELSE "refresh")
  /\ UNCHANGED <<folder, held, term, cmds, jobVars, listening, shared,
                 serverVars, searchVars, cacheVars, events, told>>

(* shared_file_count is set before the files are copied: listener threads  *)
(* may see files that are not there yet, or only in part.                  *)
SetCount(c) ==
  /\ pc[c] = "count"
  /\ Goto(c, "publish")
  /\ UNCHANGED <<folder, held, scan, term, cmds, jobVars, listening, shared,
                 serverVars, searchVars, cacheVars, events, scans, told>>

Publish(c) ==
  /\ pc[c] = "publish"
  /\ shared' = [shared EXCEPT ![c] = scan[c]]
  /\ Goto(c, "register")
  /\ UNCHANGED <<folder, held, scan, term, cmds, jobVars, listening,
                 serverVars, searchVars, cacheVars, events, scans, told>>

-----------------------------------------------------------------------------
(* Calls to the server; module Exchange has their details.  One may fail   *)
(* before the server acts (it cannot be reached, or it is full), or after  *)
(* (the reply is lost), or the server may act on it when it has failed.    *)

Others(c) == known \ {c}

Tell(c, files) == told' = [told EXCEPT ![c] = @ \cup files]

(* Mutant: the files are added to those registered before.                 *)
RegisterAdding(c) ==
  /\ pc[c] \in {"register", "refresh"}
  /\ known' = known \cup {c}
  /\ dir' = [dir EXCEPT ![c] = dir[c] \cup scan[c]]
  /\ Tell(c, scan[c])
  /\ nbrs' = [nbrs EXCEPT ![c] = @ \cup Others(c)]
  /\ Goto(c, IF pc[c] = "register" THEN "prompt" ELSE "search")
  /\ UNCHANGED <<folder, held, scan, term, cmds, jobVars, listening, shared,
                 late, heard, asked, relays, answers, agg, cacheVars, events,
                 scans>>

Stored(c, files) ==
  /\ known' = known \cup {c}
  /\ dir' = [dir EXCEPT ![c] = files]

(* server_register_files() and neighbors_add() for each neighbor returned, *)
(* at start-up and in refresh_neighbors_from_server().                     *)
Register(c) ==
  /\ pc[c] \in {"register", "refresh"}
  /\ \/ UNCHANGED <<known, dir, late, nbrs, events, told>>
     \/ /\ Event
        /\ late' = late \cup {[client |-> c, files |-> scan[c]]}
        /\ Tell(c, scan[c])
        /\ UNCHANGED <<known, dir, nbrs>>
     \/ /\ Stored(c, scan[c])
        /\ Tell(c, scan[c])
        /\ nbrs' \in {nbrs, [nbrs EXCEPT ![c] = @ \cup Others(c)]}
        /\ UNCHANGED <<late, events>>
  /\ Goto(c, IF pc[c] = "register" THEN "prompt" ELSE "search")
  /\ UNCHANGED <<folder, held, scan, term, cmds, jobVars, listening, shared,
                 heard, asked, relays, answers, agg, cacheVars, scans>>

(* A server thread that outlived its connection gets the lock at last, and *)
(* replaces whatever its client has registered since.                      *)
RegisterLate(m) ==
  /\ late' = late \ {m}
  /\ Stored(m.client, m.files)
  /\ UNCHANGED <<folder, held, mainVars, jobVars, listening, shared,
                 searchVars, cacheVars, events, scans, told>>

Listed == {item \in [owner : Client, name : Name, id : Identity] :
             /\ item.owner \in known
             /\ [name |-> item.name, id |-> item.id] \in dir[item.owner]}

(* What server_find_files() returns for a term (all of it fits).           *)
Found(text) ==
  IF ParsedTerm(text) # None
  THEN {item \in Listed : item.id = ParsedTerm(text)}
  ELSE {item \in Listed : item.name \in NamesWith[text]}

Command(c) ==
  /\ c \in User /\ pc[c] = "prompt" /\ cmds[c] < MaxCommands
  /\ cmds' = [cmds EXCEPT ![c] = @ + 1]

(* remember_results() for a find, whose results were printed.              *)
Remember(c, results) ==
  /\ last' = [last EXCEPT ![c] = results]
  /\ shown' = [shown EXCEPT ![c] = results]
  /\ refreshed' = [refreshed EXCEPT ![c] = None]

(* `find -s', or `find' if the server has results.                         *)
FindAtServer(c, text) ==
  /\ Command(c)
  /\ Remember(c, Found(text))
  /\ UNCHANGED <<folder, held, pc, scan, term, jobVars, listening, shared,
                 serverVars, searchVars, events, scans, told>>

(* `find -s' when the call fails: nothing changes.                         *)
FindFails(c) ==
  /\ Command(c)
  /\ UNCHANGED <<folder, held, pc, scan, term, jobVars, listening, shared,
                 serverVars, searchVars, cacheVars, events, scans, told>>

(* `find -d', or `find' if the call failed or found nothing: the neighbors *)
(* are refreshed first, with a new scan.                                   *)
FindDistributed(c, text) ==
  /\ Command(c)
  /\ Goto(c, "rescan")
  /\ term' = [term EXCEPT ![c] = text]
  /\ UNCHANGED <<folder, held, scan, jobVars, listening, shared, serverVars,
                 searchVars, cacheVars, events, scans, told>>

-----------------------------------------------------------------------------
(* The distributed search; module Flood has its details, with TTLs and     *)
(* caches that forget.                                                     *)

Id(q) == [from |-> q.from, nth |-> q.nth]

(* flood_forward_query(): a copy for each neighbor of client c.            *)
Copies(c, from, nth, text) ==
  {[from |-> from, nth |-> nth, term |-> text, to |-> p, via |-> c] :
      p \in nbrs[c]}

(* search_distributed() up to its window.                                  *)
Search(c) ==
  /\ pc[c] = "search"
  /\ agg' = [agg EXCEPT ![c] = {}]
  /\ heard' = [heard EXCEPT ![c] = @ \cup {[from |-> c, nth |-> cmds[c]]}]
  /\ asked' = asked \cup Copies(c, c, cmds[c], term[c])
  /\ Goto(c, "window")
  /\ UNCHANGED <<folder, held, scan, term, cmds, jobVars, listening, shared,
                 serverVars, nbrs, relays, answers, cacheVars, events, scans,
                 told>>

(* A file that is being copied may be seen whole, or with part of its name *)
(* or of its identity still missing.                                       *)
Torn(f) ==
  [name : {f.name} \cup TornName[f.name], id : {f.id} \cup TornIdentity[f.id]]

(* What a listener thread may answer: the matches, each as it sees it      *)
(* while they are being copied, or nothing while the folder is gone.       *)
Answers(p, text) ==
  LET views == [scan[p] -> UNION {Torn(f) : f \in scan[p]}]
      matches(files) == {f \in files : f.name \in NamesWith[text]}
  IN IF pc[p] = "publish"
     THEN UNION {SUBSET matches({view[f] : f \in scan[p]}) :
                   view \in {v \in views : \A f \in scan[p] : v[f] \in Torn(f)}}
     ELSE {matches(shared[p]), {}}

(* A listener thread takes a query that is new to it: it learns the origin *)
(* and sends what matches, if its client has its folder.                   *)
Answer(q) ==
  /\ listening[q.to]
  /\ Id(q) \notin heard[q.to]
  /\ heard' = [heard EXCEPT ![q.to] = @ \cup {Id(q)}]
  /\ nbrs' = [nbrs EXCEPT ![q.to] = @ \cup {q.from}]
  /\ \E files \in Answers(q.to, q.term) :
       /\ answers' = answers \cup
            {[to |-> q.from, nth |-> q.nth, item |-> Item(q.to, f)] : f \in files}
       /\ Tell(q.to, files)
  /\ asked' = asked \ {q}
  /\ relays' = [relays EXCEPT ![q.to] = @ \cup {q}]
  /\ UNCHANGED <<folder, held, mainVars, jobVars, listening, shared,
                 serverVars, agg, cacheVars, events, scans>>

(* Then it sends copies to the neighbors that its client has by now.       *)
Relay(c, q) ==
  /\ relays' = [relays EXCEPT ![c] = @ \ {q}]
  /\ asked' = asked \cup Copies(c, q.from, q.nth, q.term)
  /\ UNCHANGED <<folder, held, mainVars, jobVars, listening, shared,
                 serverVars, nbrs, heard, answers, agg, cacheVars, events,
                 scans, told>>

(* A copy of a query that was heard before.                                *)
Ignore(q) ==
  /\ listening[q.to]
  /\ Id(q) \in heard[q.to]
  /\ asked' = asked \ {q}
  /\ UNCHANGED <<folder, held, mainVars, jobVars, listening, shared,
                 serverVars, nbrs, heard, relays, answers, agg, cacheVars,
                 events, scans, told>>

(* An item of an answer arrives: the aggregator takes it, whatever search  *)
(* runs there, if any.                                                     *)
AddAnswer(m) ==
  /\ listening[m.to]
  /\ answers' = answers \ {m}
  /\ agg' = [agg EXCEPT ![m.to] = @ \cup {m.item}]
  /\ UNCHANGED <<folder, held, mainVars, jobVars, listening, shared,
                 serverVars, nbrs, heard, asked, relays, cacheVars, events,
                 scans, told>>

(* Mutant: the window waits for a result.                                  *)
CollectSomething(c) ==
  /\ pc[c] = "window"
  /\ agg[c] # {}
  /\ Remember(c, {item \in agg[c] : item.owner # c})
  /\ Goto(c, "prompt")
  /\ UNCHANGED <<folder, held, scan, term, cmds, jobVars, listening, shared,
                 serverVars, searchVars, events, scans, told>>

(* The window ends: aggregator_collect(), without the client's own files.  *)
Collect(c) ==
  /\ pc[c] = "window"
  /\ Remember(c, {item \in agg[c] : item.owner # c})
  /\ Goto(c, "prompt")
  /\ UNCHANGED <<folder, held, scan, term, cmds, jobVars, listening, shared,
                 serverVars, searchVars, events, scans, told>>

-----------------------------------------------------------------------------
(* request <S> <H> *)

(* collect_cached_peers(): items of the identity.                          *)
OfIdentity(items, id) == {item \in items : item.id = id}

Owners(items) == {item.owner : item \in items}

Contact(c, id, ps, name) ==
  /\ want' = [want EXCEPT ![c] = id]
  /\ peers' = [peers EXCEPT ![c] = ps]
  /\ left' = [left EXCEPT ![c] = ps]
  /\ source' = [source EXCEPT ![c] = name]
  /\ Goto(c, "transfer")
  /\ UNCHANGED <<sending, bytes, raced>>

(* Mutant: more peers than bytes.                                          *)
ContactedAll(items, id) == {Owners(items)}

(* Each contacted peer has a byte to send at least: a file of no bytes has *)
(* no peers.                                                               *)
Contacted(items, id) ==
  kSubset(Min({Cardinality(Owners(items)), id[1]}), Owners(items))

(* Mutant: every owner in the cache is contacted.                          *)
TransferFromAll(c, id, items) ==
  \E item \in items : Contact(c, id, Owners(items \cup last[c]), item.name)

(* The call to transfer_request(), with the name of the first item.        *)
Transfer(c, id, items) ==
  \E ps \in Contacted(items, id), item \in items :
    /\ ps = {} \/ item.owner \in ps
    /\ Contact(c, id, ps, item.name)

(* refresh_identity_peers() finds somebody: its results replace the cache. *)
RequestRefreshed(c, line) ==
  LET id == RequestedIdentity(line)
      refresh == Found(IdentityTerm(id))
  IN /\ Command(c)
     /\ id # None
     /\ OfIdentity(refresh, id) # {}
     /\ Transfer(c, id, OfIdentity(refresh, id))
     /\ last' = [last EXCEPT ![c] = refresh]
     /\ refreshed' = [refreshed EXCEPT ![c] = id]
     /\ UNCHANGED <<folder, held, scan, term, listening, shared, serverVars,
                    searchVars, shown, events, scans, told>>

(* The call fails or finds nobody: the cache is searched.                  *)
RequestCached(c, line) ==
  LET id == RequestedIdentity(line)
  IN /\ Command(c)
     /\ id # None
     /\ OfIdentity(last[c], id) # {}
     /\ Transfer(c, id, OfIdentity(last[c], id))
     /\ UNCHANGED <<folder, held, scan, term, listening, shared, serverVars,
                    searchVars, cacheVars, events, scans, told>>

(* Mutant: a refresh without results is remembered too.                    *)
RequestForgetting(c, line) ==
  LET id == RequestedIdentity(line)
  IN /\ Command(c)
     /\ id = None \/ OfIdentity(last[c], id) = {}
     /\ last' = [last EXCEPT ![c] = {}]
     /\ UNCHANGED <<folder, held, pc, scan, term, jobVars, listening, shared,
                    serverVars, searchVars, shown, refreshed, events, scans,
                    told>>

(* No identity, or nobody has it: nothing changes.                         *)
RequestRefused(c, line) ==
  LET id == RequestedIdentity(line)
  IN /\ Command(c)
     /\ id = None \/ OfIdentity(last[c], id) = {}
     /\ UNCHANGED <<folder, held, pc, scan, term, jobVars, listening, shared,
                    serverVars, searchVars, cacheVars, events, scans, told>>

-----------------------------------------------------------------------------
(* transfer_request() and the listener threads of its peers; Download has  *)
(* their details: frames, segments, the .part file.                        *)

(* Mutant: only the sizes are compared.                                    *)
ValidateSizeOnly(c, p) ==
  /\ pc[c] = "transfer"
  /\ p \in left[c]
  /\ listening[p]
  /\ \E n \in Name :
       /\ folder[p][n] # Absent /\ folder[p][n][1] = want[c][1]
       /\ sending' = [sending EXCEPT ![c] = @ \cup {[peer |-> p, name |-> n]}]
  /\ left' = [left EXCEPT ![c] = @ \ {p}]
  /\ UNCHANGED <<folder, held, mainVars, want, peers, bytes, source, raced,
                 listening, shared, serverVars, searchVars, cacheVars, events,
                 scans, told>>

(* A peer hashes its files until one has the identity.                     *)
Validate(c, p) ==
  /\ pc[c] = "transfer"
  /\ p \in left[c]
  /\ listening[p]
  /\ \E n \in Name :
       /\ folder[p][n] = want[c]
       /\ sending' = [sending EXCEPT ![c] = @ \cup {[peer |-> p, name |-> n]}]
  /\ left' = [left EXCEPT ![c] = @ \ {p}]
  /\ UNCHANGED <<folder, held, mainVars, want, peers, bytes, source, raced,
                 listening, shared, serverVars, searchVars, cacheVars, events,
                 scans, told>>

(* The length of a segment, but of the last one.                           *)
Segment(c) == want[c][1] \div Cardinality(peers[c])

(* Then it opens that name again, and sends what the file has by then, if  *)
(* it is as long as a segment.                                             *)
Send(c, s) ==
  /\ pc[c] = "transfer"
  /\ folder[s.peer][s.name] # Absent
  /\ folder[s.peer][s.name][1] >= Segment(c)
  /\ sending' = [sending EXCEPT ![c] = @ \ {s}]
  /\ bytes' = [bytes EXCEPT ![c] =
                 IF @ = "right" /\ folder[s.peer][s.name] # want[c] THEN "wrong"
                 ELSE @]
  /\ UNCHANGED <<folder, held, mainVars, want, peers, left, source, raced,
                 listening, shared, serverVars, searchVars, cacheVars, events,
                 scans, told>>

EndTransfer(c) ==
  /\ want' = [want EXCEPT ![c] = None]
  /\ peers' = [peers EXCEPT ![c] = {}]
  /\ left' = [left EXCEPT ![c] = {}]
  /\ sending' = [sending EXCEPT ![c] = {}]
  /\ source' = [source EXCEPT ![c] = None]

(* The history of a change of the file with that name.                     *)
Raced(c, n) ==
  [d \in Client |-> raced[d] \/ [peer |-> c, name |-> n] \in sending[d]]
Has(c, id) == held' = [held EXCEPT ![c] = @ \cup ({id} \ {Absent})]

(* What arrived takes the name, in place of any other file: the file asked *)
(* for if it is exact, and else anything of its size.                      *)
Renamed(c, exact) ==
  /\ \E id \in Identity :
       /\ id[1] = want[c][1]
       /\ exact => id = want[c]
       /\ folder' = [folder EXCEPT ![c][source[c]] = id]
       /\ Has(c, id)
  /\ raced' = [Raced(c, source[c]) EXCEPT ![c] = FALSE]
  /\ bytes' = [bytes EXCEPT ![c] = "right"]
  /\ EndTransfer(c)
  /\ Goto(c, "prompt")
  /\ UNCHANGED <<scan, term, cmds, listening, shared, serverVars, searchVars,
                 cacheVars, events, scans, told>>

(* Mutant: failed segments are overlooked.                                 *)
InstallUnfinished(c) ==
  /\ pc[c] = "transfer"
  /\ peers[c] # {}
  /\ Renamed(c, FALSE)

(* All segments have arrived.                                              *)
Install(c) ==
  /\ pc[c] = "transfer"
  /\ peers[c] # {} /\ left[c] = {} /\ sending[c] = {} /\ bytes[c] # "missing"
  /\ Renamed(c, bytes[c] = "right")

(* A transfer of no bytes, or a segment that a peer does not send.         *)
TransferFails(c) ==
  /\ pc[c] = "transfer"
  /\ EndTransfer(c)
  /\ bytes' = [bytes EXCEPT ![c] = "right"]
  /\ raced' = [raced EXCEPT ![c] = FALSE]
  /\ Goto(c, "prompt")
  /\ UNCHANGED <<folder, held, scan, term, cmds, listening, shared,
                 serverVars, searchVars, cacheVars, events, scans, told>>

-----------------------------------------------------------------------------
(* The environment. *)

(* A user replaces, adds or deletes a file.                                *)
Edit(c, n, id) ==
  /\ Event
  /\ folder[c][n] # id
  /\ folder' = [folder EXCEPT ![c][n] = id]
  /\ Has(c, id)
  /\ raced' = Raced(c, n)
  /\ UNCHANGED <<mainVars, want, peers, left, sending, bytes, source,
                 listening, shared, serverVars, searchVars, cacheVars, scans,
                 told>>

(* quit, end of input, or a kill.  The server is not told; a peer that was *)
(* sending leaves its segment unfinished.                                  *)
Stop(c) ==
  /\ Event
  /\ pc[c] # "off"
  /\ Goto(c, "off")
  /\ listening' = [listening EXCEPT ![c] = FALSE]
  /\ relays' = [relays EXCEPT ![c] = {}]
  /\ EndTransfer(c)
  /\ bytes' = [d \in Client |->
                 IF d = c THEN "right"
                 ELSE IF \E s \in sending[d] : s.peer = c THEN "missing"
                 ELSE bytes[d]]
  /\ raced' = [raced EXCEPT ![c] = FALSE]
  /\ UNCHANGED <<folder, held, scan, term, cmds, shared, serverVars, nbrs,
                 heard, asked, answers, agg, cacheVars, scans, told>>

(* The server starts again with an empty registry.                         *)
RestartServer ==
  /\ Event
  /\ known' = {}
  /\ dir' = [c \in Client |-> {}]
  /\ late' = {}
  /\ UNCHANGED <<folder, held, mainVars, jobVars, listening, shared,
                 searchVars, cacheVars, scans, told>>

StartUp(c) == Scan(c) \/ SetCount(c) \/ Publish(c) \/ Register(c)

Console(c) ==
  \/ FindFails(c)
  \/ \E text \in Term : FindAtServer(c, text) \/ FindDistributed(c, text)
  \/ \E line \in Line : \/ RequestRefreshed(c, line) \/ RequestCached(c, line)
                        \/ RequestRefused(c, line)

(* The main thread while it is not waiting for its user.                   *)
Proceed(c) ==
  \/ StartUp(c)
  \/ Search(c) \/ Collect(c)
  \/ Install(c) \/ TransferFails(c)
  \/ \E p \in Client : Validate(c, p)
  \/ \E s \in sending[c] : Send(c, s)

(* Listener threads with queries and answers.                              *)
Listener ==
  \/ \E q \in asked : Answer(q) \/ Ignore(q)
  \/ \E c \in Client : \E q \in relays[c] : Relay(c, q)
  \/ \E m \in answers : AddAnswer(m)

Environment ==
  \/ RestartServer
  \/ \E c \in Client :
       Stop(c) \/ \E n \in Name, id \in Identity \cup {Absent} : Edit(c, n, id)

Next ==
  \/ \E c \in Client : Start(c) \/ Bind(c) \/ Proceed(c) \/ Console(c)
  \/ Listener
  \/ \E m \in late : RegisterLate(m)
  \/ Environment

Spec == Init /\ [][Next]_vars

(* The main thread runs, and its calls return: to the server, of           *)
(* nanosleep() and of transfer_request().  Users, listeners and the        *)
(* network owe nothing.                                                    *)
FairSpec == Spec /\ \A c \in Client : WF_vars(Proceed(c))

-----------------------------------------------------------------------------
(* Properties. *)

Label == {"off", "scan", "count", "publish", "register", "prompt", "rescan",
          "refresh", "search", "window", "transfer"}
Query == [from : Client, nth : Nat, term : Term, to : Client, via : Client]
Items == [owner : Client, name : Name, id : SizeHash]

(* Types, and no transfer has more peers than bytes.                       *)
TypeOK ==
  /\ folder \in [Client -> [Name -> Identity \cup {Absent}]]
  /\ held \in [Client -> SUBSET Identity]
  /\ pc \in [Client -> Label]
  /\ listening \in [Client -> BOOLEAN]
  /\ scan \in [Client -> SUBSET File] /\ shared \in [Client -> SUBSET File]
  /\ scans \in [Client -> SUBSET SUBSET File]
  /\ dir \in [Client -> SUBSET File] /\ known \subseteq Client
  /\ late \subseteq [client : Client, files : SUBSET File]
  /\ nbrs \in [Client -> SUBSET Client]
  /\ term \in [Client -> Term \cup {None}]
  /\ heard \in [Client -> SUBSET [from : Client, nth : Nat]]
  /\ asked \subseteq Query /\ relays \in [Client -> SUBSET Query]
  /\ answers \subseteq [to : Client, nth : Nat, item : Items]
  /\ agg \in [Client -> SUBSET Items]
  /\ last \in [Client -> SUBSET Items] /\ shown \in [Client -> SUBSET Items]
  /\ refreshed \in [Client -> SizeHash \cup {None}]
  /\ told \in [Client -> SUBSET Seen]
  /\ want \in [Client -> SizeHash \cup {None}]
  /\ peers \in [Client -> SUBSET Client] /\ left \in [Client -> SUBSET Client]
  /\ sending \in [Client -> SUBSET [peer : Client, name : Name]]
  /\ bytes \in [Client -> {"right", "wrong", "missing"}]
  /\ raced \in [Client -> BOOLEAN]
  /\ source \in [Client -> Name \cup {None}]
  /\ cmds \in [Client -> Nat] /\ events \in Nat
  /\ \A c \in Client : peers[c] # {} => Cardinality(peers[c]) <= want[c][1]

(* A download contacts only peers that have said themselves, to the server *)
(* or in an answer, that they have a file of the requested identity: not   *)
(* others, whether they were found now or long ago, whatever arrived late, *)
(* and whatever was typed.  What they said may be half of what they have.  *)
PeersToldIt ==
  \A c \in Client : \A p \in peers[c] : \E f \in told[p] : f.id = want[c]

(* The server lists for a client the outcome of one of its scans, complete *)
(* or empty, never a mixture or something half published, even when a      *)
(* registration arrives after a later one.                                 *)
ListedIsOneScan == \A c \in known : dir[c] \in scans[c]

(* A refresh by identity that finds nobody, or a find that fails, never    *)
(* costs the user the results on the screen: the cache is what the last    *)
(* find printed, until a refresh that found peers replaces it with items   *)
(* of that identity alone.                                                 *)
CacheKeepsFindResults ==
  \A c \in Client :
    IF refreshed[c] = None THEN last[c] = shown[c]
    ELSE last[c] # {} /\ \A item \in last[c] : item.id = refreshed[c]

(* What was typed in any base is found again in the form that is sent: the *)
(* server lists every file of a requested identity, and only those.        *)
RequestsFindIdentity ==
  \A line \in Line : LET id == RequestedIdentity(line) IN
    id # None =>
      Found(IdentityTerm(id)) = {item \in Listed : item.id = id}

(* Steps that change a file and are no edit: downloads.                    *)
Replaces(c, n) == folder'[c][n] # folder[c][n] /\ events' = events

(* An identity that was put together while its owner was publishing may be *)
(* printed, remembered and requested, at any later time, but nothing is    *)
(* installed for it: a file is replaced only if every contacted peer has   *)
(* really had a file of the requested identity.                            *)
OnlyHeldIsInstalled ==
  [][\A c \in Client : \A n \in Name :
       Replaces(c, n) => \A p \in peers[c] : want[c] \in held[p]]_vars

(* A download only touches the file of a name that a contacted peer told   *)
(* with the requested identity, and puts there what was asked for, unless  *)
(* a file was changed between the check of its hash and its second opening.*)
DownloadsKeepNames ==
  [][\A c \in Client : \A n \in Name :
       Replaces(c, n) =>
         /\ \E p \in peers[c] : [name |-> n, id |-> want[c]] \in told[p]
         /\ raced[c] \/ folder'[c][n] = want[c]]_vars

Busy(c) == pc[c] \notin {"off", "prompt"}

(* Start-up and every command end at the prompt, whatever fails.           *)
CommandsReturn == \A c \in Client : Busy(c) ~> ~Busy(c)

(* docs/main.tex says that the metadata that queries are answered from has *)
(* been computed when the client starts, before its listener runs: an      *)
(* answer has only files of a finished scan.                               *)
AnswersAreScanned ==
  \A c \in Client : \A item \in agg[c] :
    [name |-> item.name, id |-> item.id] \in UNION scans[item.owner]

(* docs/main.tex says that a term with ordinary text is searched as a part *)
(* of file names; only the forms it lists are identities.                  *)
TextSearchedByName ==
  \A text \in Term :
    (\A id \in Value \X Value : text \notin DocumentedForms(id)) =>
      Found(text) = {item \in Listed : item.name \in NamesWith[text]}
=============================================================================
