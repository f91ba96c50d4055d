# FileShareP2P: a TLA+ model

The program is a peer-to-peer file sharer in C: a central server that keeps a
directory of clients and their files, and clients that search through the
server or by flooding a query over their neighbors, serve their own files, and
download a file from several peers at once. This directory holds TLA+ models
of it, the TLC runs that check them on small instances, and TLAPS proofs of the
safety results for every value of their parameters.

## 1. Inventory

| component (source) | state | operations | talks to | modelled in |
|---|---|---|---|---|
| receiver (`transfer/receiver.c`) | `assembly` (fd, failed, lock), one `received_total` per thread, the `.part` and the final file | `transfer_request`, a thread per segment | range sender, over one connection per segment | `Segments`, `Download` |
| range sender (`transfer/sender.c`) | `offset`, `remaining`, the open file | find, validate, open, send | receiver | `Download` |
| peer listener (`transfer/listener.c`) | a thread per connection | dispatch by opcode | sender, flood | `Download` (TRANSFER_REQ), `Flood` (QUERY_*), `Console` |
| flooded search (`search/flood.c`) | `query_cache`, `global_flood_config` | check and register an id, answer, forward | neighbors, aggregator | `Flood`, `Lookup` |
| neighbors and search (`search/neighbors.c`) | `global_neighbors` | add, snapshot, `search_distributed` | flood, aggregator | `Flood`, `Lookup` |
| aggregator (`search/aggregator.c`) | `global_aggregator` | clear, add, collect | search, listener threads | `Flood`, `Lookup` |
| registry (`server/registry.c`) | `peers[]`, `peer_count`, lock | register, find by name or identity, recent peers | server threads | `Registry` |
| server (`server/query_handler.c`, `main.c`) | a thread per connection | register, find, errors, the parser of identity terms | registry | `Registry`, `Exchange`, `FindTerm` |
| console (`client/repl.c`) | `last_results` | find, request, quit | server, search, receiver | `Console`, `FindTerm` |
| server calls (`client/server_api.c`) | a connection per call | register, find | server | `Exchange` |
| start-up (`client/main.c`), scanner (`scanner.c`) | shared files in `global_flood_config` | listen, scan, publish, register | all | `Console` |
| framing and sockets (`common/net.c`) | none | connect with retries, frames over TCP | all | `Exchange` |
| hash (`common/hash.c`), layout (`common/protocol.h`) | none | FNV-1a; byte order | all | not modelled; sizes and limits are constants |

What is hard in it: every connection has a thread of its own on both sides, so
segments, copies of a query, answers and registrations interleave freely;
connections, files, drives and processes fail in the middle of multi-step
work; ids and caches expire and fill up; and several values (a file that was
hashed, a scan, a list of peers, the running search) are read at one moment and
used at a later one. `PROJECT.json` lists each hazard at its line.

What makes each component correct:

* receiver and sender: only whole files get their final name, bytes of another
  version come in only through the one window the code leaves open, no thread
  outlives the descriptor, sender and receiver agree on offsets, every call
  returns, nothing is left behind;
* flooded search: it reaches whoever can be reached, each client answers once,
  it ends whatever the caches do, and what a search returns answers it;
* server: one slot per client, accepted clients stay, refused ones stay out,
  each request acts at one moment, and clients that start together find out
  about each other;
* console and start-up: what is listed is what one scan found, what is on the
  screen is not lost to a failed command, what is typed is the identity that is
  looked up, a download contacts only peers that told of the file themselves,
  ends well only if they really had it, touches nothing but a name it was told
  under, and every command returns;
* calls to the server: frames stay in step, a call is acted on at most once and
  always if it returned well, sockets are closed, both sides come to an end.

## 2. Modules

### Segments, Download, AtomicDownload

`Segments` is the arithmetic of `transfer_request()` that cuts a file into
ranges (`receiver.c:352-356, 390-391`).

`Download` is one client that downloads one identity from several peers, again
and again up to `MaxDownloads` times.

| model | code |
|---|---|
| `main`, `rc`, `started`, `joined` | position of `transfer_request()`, its result, its `started`, the index of its join loop |
| `failed`, `fdOpen` | `assembly.failed`, `assembly.fd >= 0` |
| `rcv[i]`, `received[i]` | position and `received_total` of segment thread *i* |
| `partial`, `final` | the files at `partial_path` and `final_path`: a function from bytes to `"hole"`, `"good"` or `"bad"`, or `NoFile` |
| `srv[i]`, `offset[i]`, `chan[i]` | request thread of peer *i*, its `offset`, frames sent and not yet received |
| `disk[i]`, `destOK` | the shared file of peer *i*; whether the destination folder is usable |

Each system call of `transfer_request()` that can fail is a step with a failing
alternative. A segment thread connects, sends its request, and takes one frame
per step: `Accepts` is the list of checks of `receive_segment_frames()`,
`Receive` the accepting path with its write, `WriteFails` a `pwrite()` that
fails after any part of the frame, `Reject` and `Eof` the error paths. The peer
finds, validates, opens and sends in separate steps, because its file may be
edited (`Edit`) or deleted between any two of them; `fread()` may return less than
it was asked for, because the file became shorter or at an error. `Hangup` cuts a connection and loses any
suffix of what is in flight; `Unplug` and `Replug` are the drive of the hot
unplug test; `Crash` kills the client and starts it again.

Frames are records of range and provenance; the payload, the headers that are
always right between two such programs, and the wording of errors are left out.

`AtomicDownload` is the promise: a call either installs a complete file at one
moment and reports success after it, or leaves the file of that name alone and
reports failure.

### Flood, Lookup

`Flood` is a network of clients that search. A message is a connection with one
frame. `AcceptQuery`/`DropQuery` are `check_and_register_query()` and the
`neighbors_add()` of the origin, `AnswerQuery` is the rest of the handler: the
answer to the origin and a copy to each entry of a fresh snapshot of the
neighbor list. The two are separate steps because other threads may add
neighbors in between. `AddResult` is one turn of the loop over an answer
(`aggregator_add()` locks per item), `Search` is `search_distributed()` up to
its window, `Collect` what follows it. A send may fail (the peer is gone, or
the share folder is), which `lost` remembers. `hops` and `from` of a query, and
`current`, `issued` and `lost`, are there for the properties only.

The id of a search is modelled by what it depends on: the process and the
second (`neighbors.c:108`), not as unique: two searches of a client within a second
share it. `Networks` are the initial neighbor lists a
behaviour may have, with the number of searches on each; in `MCFlood` they are
what the server returned to clients that registered one after the other.

`Lookup` is the promise of a search to the console: it makes other clients owe
it files that they have and that match, what is owed is collected once, at one
moment, or lost, and the search returns what was collected. It knows nothing of
neighbors, copies or ids that are forgotten. The mapping reads what is owed
(`Owed`) off the network: the matches of clients that have not seen the id yet,
of threads that have not answered, and the items of answers on their way. A
copy that is forwarded, or dropped because its id is known, is a stutter.

### Registry, Directory

`Registry` is the server: `peers` is the used part of the array, every
connection has a thread with one request. A step is a critical section:
`RegisterPeer` and `ListNeighbors` are the two of `handle_register()`,
`FindFiles` the one of `handle_find()`. A find term either spells an identity or
is a text; `Parsed` says which. Results that do not fit are cut in slot order.
The order of a neighbor list is left out, its members are not.

`Directory` is the promise: a map from clients to the files they registered
last, in which every registration and reply happens at one moment. The mapping
reads each client's slot.

### FindTerm, Console

`FindTerm` has the three texts of an identity: the arguments of `request`
(`parse_u64_arg()` twice), the term the console builds from them, and the parser
with which the server tells identities from texts. A text is a sequence of
tokens; a run of digits carries its value in base 10 and in base 0, where a
leading zero means octal, and `Number` is `strtoull()` with blanks, sign and wrap at
`Word` = 2^64.

`Console` is a set of clients with their main and listener threads, and the rest of
the system in the steps that matter to them: the server as a directory (`known`,
`dir`), a flood as queries, copies and answers on their way, a download as peers
that look for the file, open it again and send.

| model | code |
|---|---|
| `pc[c]` | where the main thread is: start-up (`scan`, `count`, `publish`, `register`), `prompt`, a distributed find (`rescan`, `refresh`, `search`, `window`), `transfer` |
| `scan`, `shared` | the last `scan_result_t`; `global_flood_config.shared_files` |
| `listening` | whether the listener thread has bound its port, which may be late or never |
| `late` | registrations in server threads whose client has already given up |
| `nbrs`, `heard`, `agg`, `last` | `global_neighbors`, `query_cache`, `global_aggregator`, `last_results` |
| `asked`, `relays`, `answers` | copies of queries on their way; queries that a listener thread has answered and not forwarded yet; items of answers on their way |
| `want`, `peers`, `source` | identity, contacted peers and file name of the running `transfer_request()` |
| `left`, `sending`, `bytes` | peers that have not looked for the file yet, those that found it and under which name, and what has arrived |

`SetCount` and `Publish` are the two stores of `main()` (`main.c:116-117`), which
listener threads read without a lock: while a client is between them an answer
may have any of the files, each whole or with its name or identity partly copied
(`Torn`). What is torn is an ordinary name or pair of numbers: it is printed,
remembered, and may be typed after `request` like any other. Such an answer also
travels like any other: `Answer` is the listener thread of the owner, which sends
what it has seen, `AddAnswer` the one of the searcher, which adds it at any later
time, whatever the owner does by then and whichever search runs. `Relay` forwards
a query to the neighbors its client has at that moment, `Ignore` drops a copy of a
query that was heard.

A refresh before a distributed search scans and registers again, but does not
publish. `Register` may fail before the server acts, after it, or leave the request
with a thread that acts later. `FindFails`, `RequestCached` and `RequestRefused` are
the paths on which a call to the server fails or finds nobody.

`Transfer` contacts no more peers than the file has bytes. A contacted peer hashes
its files until one has the identity (`Validate`) and then opens that name again
(`Send`): if it was edited in between, wrong bytes arrive. `Install` renames whatever
has arrived once all segments have: the file asked for if all bytes are right, and
any of the same size if not. A peer that stops while it sends leaves its segment
unfinished, and so does one that has no such file.

The environment edits folders, stops clients (which start again with fresh memory)
and restarts the server with an empty registry. `scans`, `shown`, `refreshed`, `told`
(the files a client has registered or answered with), `held` (the identities its
folder has ever had) and `raced` (whether a file was changed while it was sent) are
history.

### Exchange, Rpc

`Exchange` is both calls of `server_api.c` with the code below them on each side.
Bytes are counted: `reqSent`, `reqGot`, `repSent`, `repGot` are the ends of the two
streams of connection *k*. `ConnectFails` is the retry loop over attempts and
addresses, `SendRequest`, `ReadRequest`, `SendReply` and `ReceiveReply` are turns of
`net_send_all()` and `net_recv_all()` with any number of bytes, `Awaited` and
`TooLong` are `net_recv_msg()`. The server accepts or fails to (memory, threads),
reads, and serves, refuses or rejects. Connections reset, the client is killed,
`accept()` fails and ends the server, and the server starts again.

`Rpc` is the promise of a call: acted on at most once, before it returns if it
returns well, and perhaps later if it failed. `Console` uses exactly this.

### Mutants

Each module also has a few definitions marked `Mutant`: a definition of the model
with a plausible mistake in it. They are not part of any specification;
replacing the definition they vary by them must break the property that
`PROJECT.json` pairs with them.

## 3. Runs

| run | instance | shows |
|---|---|---|
| `Download` | 5 bytes, 2 peers, chunks of 2, 2 calls | types; only whole files installed; only raced peers corrupt; no late writer; frames in step; leftovers only after a kill or unplug; implements `AtomicDownload` |
| `DownloadLive` | 2 bytes, 3 peers, chunks of 1, 2 calls, fair | every call returns, also with more peers than bytes |
| `Flood` | 4 clients, several paths, TTL 5 capped at 3, 1 search; 3 of them, 2 overlapping searches | each client there is a path to is reached, each match added once; hops bounded; nobody its own neighbor; searches do not disturb each other; implements `Lookup` |
| `FloodTiny` | 3 clients, cache and lists of one entry, ids that expire, 2 searches, fair | floods end although ids are forgotten |
| `Registry` | 4 clients, 4 connections, 2 slots, 1 neighbor, 2 results | one slot per client, accepted stay and refused stay out, nobody misses both, implements `Directory` |
| `Console` | 2 clients, 2 names, 3 identities, 1 file in a scan, 2 commands, 1 event, fair | listed files are one scan; the cache survives failed commands; what is typed is found; downloads contact only peers that told of the file; nothing is installed for an identity that a contacted peer never had; downloads keep other names, and their bytes are right unless a file changed while it was sent; commands return |
| `Exchange` | 2 calls, 3 kinds of requests, buffers of 2 bytes, 2 attempts on 2 addresses, 1 stop, fair | frames whole, acted on at most once, late only if failed, no socket left open, both ends never wait for each other, implements `Rpc`, calls return and threads end |
| `DownloadExact` | 1 byte | *violated*: a file edited after its hash was checked is installed |
| `FloodStale` | 2 clients, 2 searches | *violated*: a late answer is returned by the next search |
| `RegistryOrder` | 3 slots, 1 neighbor | *violated*: the neighbors returned are not the freshest |
| `StartupRace` | as `Console` | *violated*: an answer has a file that is being copied |
| `TermDates` | as `Console`, and a term that is a date | *violated*: the date is looked up as an identity |

Why these bounds. *Download*: 5 bytes from 2 peers give segments of different
length, the longer one with a full chunk and a partial one, so frames of a
segment queue up, a write can be cut at any byte, and a shorter read shifts the
rest; a second call starts from whatever the first one left. The proofs of
section 5 remove the bounds for all safety properties.
*Flood*: with four clients the first copy to reach the last one can have travelled 1, 2 or 3 hops,
which is where dropping later copies could lose somebody, and the TTL of the
console is above `MaxTTL`, which caps it at exactly the hops needed. Cycles
appear once clients learn origins. Two clients have one file that matches and
one that does not. `FloodTiny` scales the cache of 1000 ids, the
60 s of expiry and the 256 results down to one, so that they run out. *Registry*:
two slots and four clients fill the registry with one to spare for a refusal,
for a client that registers again and for hosts with two clients. *Console*: *a* has
two files and a scan takes one, so that scans differ and the limit of the scanner is
reached; *a* only serves (two users at once are left to the proofs). *b* starts with none;
half of the name of one file is the name of the other, and a user may edit a folder, so
that a download replaces a file. One identity is another version of the same size, which is what an
edit in the middle of a download puts in its place; one file has a single byte, so that one of two owners
is left out. Two commands are the least after which a cache can be stale, or a torn
item requested; the one event is an edit, a stop, a late registration or a restart,
at any moment. The lines typed are an identity in decimal, one in octal, two that can
only be seen while a file is copied, one of them of size 0, and one that is none.
`Word` is 16, so that a sign wraps within reach. *Exchange*: a
request of 4 bytes with its length, a reply of 3 and buffers of 2 cut every
frame in each place; two calls show one that takes effect after the next; the
other two kinds are a request with a foreign version and one that is too long.
`CHECK_DEADLOCK FALSE` because all these systems really stop once the bounded
calls, searches, connections or commands are used up.

Fairness. `DownloadLive` assumes that the operating system runs the main and
segment threads, and that every peer goes on serving or closes the connection.
The last assumption is needed: no socket has a timeout, so a peer that is
silent with an open connection would block the console. `FloodTiny` assumes
that a delivered frame is handled and that the search window ends
(`nanosleep()` returns); nothing is assumed about new searches or time. `Console`
assumes that a main thread proceeds unless it waits for its user, hence that
the calls it makes return: to the server (`CallsReturn` of `Exchange`),
`nanosleep()` and `transfer_request()` (`DownloadReturns`). `Exchange` assumes that
the console and the server's threads run, and that what was sent arrives or the
connection breaks, which is TCP as long as both machines are there. A machine
that vanishes without a reset is outside of it, and would block the caller
for good as there are no timeouts. A server that has stopped need not come back.

## 4. Divergences

1. **Exactness** (`DownloadExact`): the peer hashes its file, then opens it again
   by path; the receiver does not hash what it assembled. The integration tests
   promise "the exact file". `OnlyRacedPeersCorrupt` shows it is the only way, and
   `DownloadsKeepNames` says the same of the folders of `Console`.
2. **Late answers** (`FloodStale`): `flood_handle_message()` never compares the id
   of an answer, so what arrives after its window is returned by the next
   search. The document says clearing the aggregator avoids this.
3. **Freshness** (`RegistryOrder`): `last_seen_epoch` is written and never read;
   recent means high slot number, and a slot does not change when its client
   registers again.
4. **Start-up race** (`StartupRace`): the listener starts before the scan, and the
   scan is published to it without a lock, count first. The document says scan,
   then listener. The harm does not end there, since torn items are remembered and can
   be requested, but `OnlyHeldIsInstalled` shows that no file is ever replaced for one.
5. **Dates** (`TermDates`): the plain form of an identity takes signs and needs no
   separator, so `2024-10` is an identity (2024, 2^64 - 10), and names with it are
   not found. `WordsSearchNames` shows that a term with a word in it is always a text.

Two more differences do no harm and have no run. A comment
(`flood.c:247`) says that a query is not sent back to its sender, but the only
caller in the handler passes an empty sender; the cache of ids and the TTL stop
the echo (`NoDuplicateResults`, `FloodDiesOut`). And a `request` whose refresh
finds peers replaces the printed results by those of its identity;
`CacheKeepsFindResults` states exactly when.

## 5. Proofs

`SegmentsProofs` proves that for every size and number of peers the segments are
nonempty, in order, disjoint and cover the file. `DownloadProofs` proves every
safety property of the `Download` run, and the refinement of `AtomicDownload`,
for every `Size`, `PeerCount` and `ChunkSize` above zero and every
`MaxDownloads`. The argument has layers, each an inductive invariant that uses
the ones before:

* `SharedInv`: types; threads that exist were started and not joined, and the
  descriptor is open while `transfer_request()` is between its open and close.
  Hence no late writer.
* `StreamInv`: for each segment, what is received, in flight and still to be
  sent are consecutive ranges of it. It is needed because `DataFramesAreNext` says nothing of
  frames behind the first. Hence frames in step.
* `BytesInv`: a thread has written the bytes it has counted; one that exited
  without having all of its bytes has set `failed`; and a `"bad"` byte, written or
  in flight, has a raced peer. With `SegmentsCoverFile`, a
  download that passes its verdict has no hole. Hence whole files and only races.
* `LeftoverInv`: where the partial file exists, a call is running or `stranded`.
* `WaitInv`: a thread that has not asked yet has a peer that waits for the request or
  is gone, and one that receives has a peer that has the request. Hence
  `NeverAllWait`: the join never waits for a thread that waits for a peer that
  waits for the thread.

`WorkRunsDown` is as much of `DownloadReturns` as can be proved: every step of
`transfer_request()`, of a thread and of a peer lowers `MainLeft`, `ThreadLeft`
and `PeerLeft`, which count the segments, bytes and steps that are left, and only
the next call raises any of them. With `NeverAllWait` what remains is
fairness: that who can go on does.

`RegistryProofs` proves every property of the `Registry` run, for every capacity,
neighbor limit and result limit above zero, every finite set of files and every
set of clients, terms and connections. `StoreEffect` says what
`registry_register_peer()` does to the array: it changes one slot or adds one
at the end. The invariant `RegistryInv` adds to types and `UniquePeers` what each
thread knows (`ThreadOK`): a thread past the first critical section has its
client in the array; one that was refused does not, and the array is full.
"Full" is needed because a refused client stays out only as nothing frees a slot.

* `NobodyMissed` is inductive over it: the second of two clients to list its
  neighbors finds the first one stored, and `AllFit` counts that it fits.
* `RegistryRefinement` maps each critical section to a step of `Directory`.
  `TopCount` counts the slots that `registry_recent_peers_except()` returns, and
  since clients have one slot each, slots and clients, hits and items correspond
  one to one (`NamesCount`, `ImageCount`).

`FloodProofs` and `FloodReachProofs` prove every safety property of both `Flood`
runs and the refinement of `Lookup`, for every finite network and every size of
lists and caches.

* `FloodInv` bounds lists, caches, aggregators and messages; it needs nothing of
  ids, since what is forwarded has one hop more and a TTL of at least one less.
  Hence types and `HopBound`.
* `Remembering` needs `IdsRemembered`: no id expires within the behaviour
  (`Expiry > MaxTime`) and all searches fit the cache. It says that a cache has every
  id its client has processed, that an origin knows its own queries, and
  that for each id a client has at most one of: a copy being handled, an answer
  on its way, items in the aggregator. Hence `NoDuplicateResults` and
  `NeverOwnNeighbor`; without the assumption the two are false, as in the code.
* `Reaching` is for `FloodReachesAll`. The first copy a client accepts may have
  the smallest TTL, so it has to be shown that even this one had hops left. A copy that
  has made *h* hops was made after *h* clients learned the id (`HopsReached`):
  hops count clients, not the length of a shortest path. So while some client
  has not seen the id, fewer than `Cardinality(Node)` have, and the TTL is not
  used up (`EnoughHops => AllSentOn`): whoever knows the id has sent it to all
  neighbors of its start, unless something was lost. When nothing is on its way any more, the
  clients that know the id are a set that contains the origin and is closed
  under the initial neighbors, and `Within(origin)` is the smallest such set. No
  induction over paths is needed.
* `Delivering` is for `SearchComplete`: a client that knows the id of a running
  search is answering, its answer is on the way, or its matches are in the
  aggregator, unless that is full or something was lost.
* `FloodRefinement` maps accepting, answering, forwarding and receiving to steps of
  `Lookup` or stutters. Answering keeps what is owed because a client that
  handles a query owes its matches either way, and cutting an answer off at
  `MaxResults`, or failing to send it, is a loss.
* `FloodsRunDown` is as much of `FloodDiesOut` as can be proved, and needs no id to be
  remembered: each message has a level, given by the TTL of a query or the items of an
  answer. A step that handles a message takes it off its level and adds others on lower
  levels only, a new search alone adds to high ones, and levels are finitely many
  finite sets (`Finitely`). That such steps come to an end needs no sum over the
  messages: the levels, from the highest down, decrease lexicographically.

`FindTermProofs` proves for all values that every documented form is read back as
its identity, that what the console sends is read as what was typed, and that a
term with a word in it never is an identity. `ConsoleProofs` uses it for
`RequestsFindIdentity`, and proves every safety property of the `Console` run for
every set of clients, folders, terms and lines and any number of commands and
events. `ConsoleInv` adds to them:

* `ScansOK`: what a client scanned, published or still has registered late is the
  outcome of one of its scans.
* `ToldOK`: what the server lists, what is on its way, in an aggregator or in a cache was
  told by its owner. It says nothing of what the owner has or is doing, which is
  what makes it inductive: items arrive, and are requested, long after they were seen,
  and may be torn. Since `told` only grows, hence `PeersToldIt`.
* `HeldOK`: a folder has only identities in `held`, which also only grows.
* `JobsOK`: in a transfer, a contacted peer that has looked for the file has held it
  (`Running`); the name it will get was told with the identity by a contacted peer; and unless
  `raced`, the files that are being sent still are what was asked for, and no wrong
  bytes have arrived. An identity that is only half of one may match nothing, or a
  file that its owner really has: in both cases `Install` needs every peer to have found one. Hence
  `OnlyHeldIsInstalled` and `DownloadsKeepNames`; `ReplacesInstalls` shows that no
  other step than `Install` changes a folder without an event.

`CommandsRunDown` says of
`CommandsReturn` what can be proved: every step of a command lowers `StepsLeft` of
its client, which is zero only at the prompt or when the client is off, and no step
of another client, the server or a background thread raises it.

`ExchangeProofs` proves every safety property of the `Exchange` run and the
refinement of `Rpc`, for every number of calls, sizes, buffers, attempts and
addresses. `ExchangeInv` has, for each connection by itself, who has what open and
how far both streams are (`ConnectionOK`), and across connections that calls follow
one another and that the log has the answered requests once (`LogOK`).
`NeverBothWait` needs of `ConnectionOK` that a side which still sends has not
sent everything and a side which still reads has not got everything: if both
sent, the server would have a whole request that was not yet sent; if both
received, it would have it and still wait for it. `WorkRunsDown` is as much of
`CallsReturn` and `ThreadsEnd` as can be proved: every step of a call lowers
`ClientLeft`, which counts the attempts, addresses and bytes that are left, every
step of a thread lowers `ThreadLeft`, and only the start of a call raises one of them,
whatever breaks, stops or is interleaved. With `NoStandOff` what is left to
liveness is fairness: that a side which can go on does.

The assumptions on the constants are named in the modules (`SizesAssumption`,
`NoFileAssumption`, `RegistryAssumption`, `NoReplyAssumption`, `FloodAssumption`,
`WordAssumption`, `ConsoleAssumption`, `ExchangeAssumption`): their types, limits
above zero, requests of this program that fit the server's buffer, and marks
such as "no reply yet" that are not values.

Only model-checked: liveness (`DownloadReturns`, `FloodDiesOut`, `CommandsReturn`,
`CallsReturn`, `ThreadsEnd`), which the prover cannot do with fairness. The theorems
above prove for each of the five the measure that runs down.

## 6. Not modelled

* Struct layout and byte order; malformed frames other than a foreign version
  and a wrong length. Between peers messages are taken whole (the framing is that
  of `Exchange`).
* Hashing: an identity is a value, collisions of the 64-bit hash are left out.
* Equal ids of searches of different clients: the seed of `generate_query_id()` has
  the process id besides the second, and `Flood` takes them to differ.
* In `Console`, the TTL of queries and forgotten ids (`Flood` has them), and the `.part`
  file, segments and frames of a download (`Download` has them). Of the length of a
  file that changed only the least is used: it must cover one segment.
* Names and paths, their truncation, address literals and `net_get_local_ip()`: a
  client knows its own address. The lists of `Console` always fit; `Registry` and
  `Flood` have the limits.
* Hexadecimal arguments of `request`, and digits 8 and 9 after a leading zero,
  which are no single token of `FindTerm`.
* A `Flood` client keeps its share and does not restart, and its neighbors are
  those of its start and the ones it learns; `Console` has restarts, new scans
  and the refresh of neighbors, with the flood abstracted.
* A restart of the server is the initial state of `Registry`; it is a step of
  `Console` and `Exchange`.
* Clients without a promise: those that find all 16 places of a neighbor list
  taken by clients that are gone, which nothing removes.

## 7. Plan

1. *done* `Segments`, `Download`, `AtomicDownload`; `Flood`, `Lookup`; `Registry`,
   `Directory`; `FindTerm`, `Console`; `Exchange`, `Rpc`; their runs, and the
   proofs of section 5.
2. That the directory of `Console` is the one of `Registry` over `Exchange`, as a
   refinement instead of by the reading of both.
