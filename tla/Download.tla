------------------------------ MODULE Download ------------------------------
(***************************************************************************)
(* One client downloading one file (same size, hash and name) from several *)
(* peers at once: transfer_request() and its segment threads               *)
(* (src/transfer/receiver.c), the connection of every segment, and at the  *)
(* other end the request thread of the peer's listener                     *)
(* (src/transfer/listener.c, src/transfer/sender.c).                       *)
(*                                                                         *)
(* Segment i is fetched from peer i: transfer_request() takes peers[i] and *)
(* the console hands it distinct peers.  A byte of a file is abstracted to *)
(* where it came from: "hole" was never written, "good" was read from the  *)
(* file whose hash was asked for, "bad" from a later version of it.        *)
(***************************************************************************)
EXTENDS Segments, Sequences

CONSTANTS
  Size,          \* bytes of the requested file, after size == 0u is refused
  PeerCount,     \* sources the console passes to transfer_request()
  ChunkSize,     \* TRANSFER_CHUNK_SIZE = TRANSFER_RECV_CHUNK_SIZE
  MaxDownloads,  \* bound: calls of transfer_request() in a behaviour
  NoFile         \* the directory has no entry of that name

ASSUME SizesAssumption ==
  /\ Size \in Nat \ {0}
  /\ PeerCount \in Nat \ {0}
  /\ ChunkSize \in Nat \ {0}
  /\ MaxDownloads \in Nat

Active == ActiveCount(Size, PeerCount)
Segs == 0 .. Active - 1
Bytes == 0 .. Size - 1
First(i) == ByteStart(Size, Active, i)
Last(i) == ByteEnd(Size, Active, i)

Hole == "hole"
Contents == [Bytes -> {Hole, "good", "bad"}]
EmptyFile == [b \in {} |-> Hole]

ASSUME NoFileAssumption == NoFile \notin Contents \cup {EmptyFile}

VARIABLES
  main,       \* where transfer_request() is; "idle" when not called
  rc,         \* its last result
  started,    \* its local `started'
  joined,     \* index of its join loop
  failed,     \* assembly.failed, set under assembly.lock
  fdOpen,     \* assembly.fd >= 0
  rcv,        \* program counter of each segment thread
  received,   \* its received_total
  partial,    \* the .part file
  final,      \* the file at final_path
  destOK,     \* the destination folder is there and writable
  srv,        \* program counter of the request thread serving each segment
  offset,     \* its `offset'
  chan,       \* frames the peer sent and the client has not received
  disk,       \* the peer's shared file: "match", "changed" or "gone"
  raced,      \* history: the file changed after its hash was validated
  stranded,   \* history: killed or unplugged while the .part was in use
  downloads   \* history: calls made

mainVars == <<main, rc, started, joined, failed, fdOpen>>
threadVars == <<rcv, received>>
fileVars == <<partial, final, destOK>>
peerVars == <<srv, offset, chan, disk>>
histVars == <<raced, stranded, downloads>>
vars == <<mainVars, threadVars, fileVars, peerVars, histVars>>

Init ==
  /\ main = "idle"
  /\ rc = "none"
  /\ started = 0
  /\ joined = 0
  /\ failed = FALSE
  /\ fdOpen = FALSE
  /\ rcv = [i \in Segs |-> "none"]
  /\ received = [i \in Segs |-> 0]
  /\ partial = NoFile
  /\ final = NoFile
  /\ destOK = TRUE
  /\ srv = [i \in Segs |-> "none"]
  /\ offset = [i \in Segs |-> 0]
  /\ chan = [i \in Segs |-> <<>>]
  /\ disk = [i \in Segs |-> "match"]
  /\ raced = [i \in Segs |-> FALSE]
  /\ stranded = FALSE
  /\ downloads = 0

-----------------------------------------------------------------------------
(* transfer_request(), in the thread of the console. *)

(* The call gets past its checks and allocations.  Nothing of an earlier   *)
(* call is left but request threads at the peers, whose connections the    *)
(* client has closed: they are dropped from the model here.                *)
Begin ==
  /\ main = "idle"
  /\ downloads < MaxDownloads
  /\ destOK
  /\ main' = "open"
  /\ rc' = "none"
  /\ started' = 0
  /\ joined' = 0
  /\ failed' = FALSE
  /\ rcv' = [i \in Segs |-> "none"]
  /\ received' = [i \in Segs |-> 0]
  /\ srv' = [i \in Segs |-> "none"]
  /\ offset' = [i \in Segs |-> 0]
  /\ chan' = [i \in Segs |-> <<>>]
  /\ downloads' = downloads + 1
  /\ UNCHANGED <<fdOpen, fileVars, disk, raced, stranded>>

(* Folder unavailable, name too long, or out of memory. *)
Refuse ==
  /\ main = "idle"
  /\ downloads < MaxDownloads
  /\ rc' = "fail"
  /\ downloads' = downloads + 1
  /\ UNCHANGED <<main, started, joined, failed, fdOpen>>
  /\ UNCHANGED <<threadVars, fileVars, peerVars, raced, stranded>>

(* Mutant: a file of that name is removed before the download.             *)
OpenPartialRemovingFinal ==
  /\ main = "open"
  /\ destOK
  /\ partial' = EmptyFile
  /\ final' = NoFile
  /\ fdOpen' = TRUE
  /\ main' = "size"
  /\ stranded' = FALSE
  /\ UNCHANGED <<rc, started, joined, failed, destOK>>
  /\ UNCHANGED <<threadVars, peerVars, raced, downloads>>

OpenPartial ==
  /\ main = "open"
  /\ destOK
  /\ partial' = EmptyFile
  /\ fdOpen' = TRUE
  /\ main' = "size"
  /\ stranded' = FALSE
  /\ UNCHANGED <<rc, started, joined, failed, final, destOK>>
  /\ UNCHANGED <<threadVars, peerVars, raced, downloads>>

OpenFails ==
  /\ main = "open"
  /\ main' = "idle"
  /\ rc' = "fail"
  /\ UNCHANGED <<started, joined, failed, fdOpen>>
  /\ UNCHANGED <<threadVars, fileVars, peerVars, histVars>>

SetSize ==
  /\ main = "size"
  /\ partial' = [b \in Bytes |-> Hole]
  /\ main' = "spawn"
  /\ UNCHANGED <<rc, started, joined, failed, fdOpen, final, destOK>>
  /\ UNCHANGED <<threadVars, peerVars, histVars>>

Spawn ==
  /\ main = "spawn"
  /\ rcv' = [rcv EXCEPT ![started] = "connect"]
  /\ started' = started + 1
  /\ main' = IF started + 1 = Active THEN "join" ELSE "spawn"
  /\ UNCHANGED <<rc, joined, failed, fdOpen, received>>
  /\ UNCHANGED <<fileVars, peerVars, histVars>>

(* Mutant: a thread that was not created is counted and joined.            *)
SpawnFailsCounted ==
  /\ main = "spawn"
  /\ failed' = TRUE
  /\ started' = started + 1
  /\ main' = "join"
  /\ UNCHANGED <<rc, joined, fdOpen>>
  /\ UNCHANGED <<threadVars, fileVars, peerVars, histVars>>

(* pthread_create() fails: the remaining segments are never started. *)
SpawnFails ==
  /\ main = "spawn"
  /\ failed' = TRUE
  /\ main' = "join"
  /\ UNCHANGED <<rc, started, joined, fdOpen>>
  /\ UNCHANGED <<threadVars, fileVars, peerVars, histVars>>

Join ==
  /\ main = "join"
  /\ joined < started
  /\ rcv[joined] = "exited"
  /\ joined' = joined + 1
  /\ UNCHANGED <<main, rc, started, failed, fdOpen>>
  /\ UNCHANGED <<threadVars, fileVars, peerVars, histVars>>

(* Mutant: assembly.failed is not looked at.                               *)
VerdictIgnoringFailed ==
  /\ main = "join"
  /\ joined = started
  /\ main' = IF started # Active THEN "cleanup" ELSE "sync"
  /\ UNCHANGED <<rc, started, joined, failed, fdOpen>>
  /\ UNCHANGED <<threadVars, fileVars, peerVars, histVars>>

(* Mutant: the first failure is acted on before all threads are joined.    *)
VerdictOnFirstFailure ==
  /\ main = "join"
  /\ joined = started \/ failed
  /\ main' = IF failed \/ started # Active THEN "cleanup" ELSE "sync"
  /\ UNCHANGED <<rc, started, joined, failed, fdOpen>>
  /\ UNCHANGED <<threadVars, fileVars, peerVars, histVars>>

Verdict ==
  /\ main = "join"
  /\ joined = started
  /\ main' = IF failed \/ started # Active THEN "cleanup" ELSE "sync"
  /\ UNCHANGED <<rc, started, joined, failed, fdOpen>>
  /\ UNCHANGED <<threadVars, fileVars, peerVars, histVars>>

Sync ==
  /\ main = "sync"
  /\ destOK
  /\ main' = "close"
  /\ UNCHANGED <<rc, started, joined, failed, fdOpen>>
  /\ UNCHANGED <<threadVars, fileVars, peerVars, histVars>>

(* assembly.fd becomes -1 whether close() succeeds or not. *)
Close ==
  /\ main = "close"
  /\ fdOpen' = FALSE
  /\ main' \in {"rename", "cleanup"}
  /\ UNCHANGED <<rc, started, joined, failed>>
  /\ UNCHANGED <<threadVars, fileVars, peerVars, histVars>>

Rename ==
  /\ main = "rename"
  /\ destOK
  /\ final' = partial
  /\ partial' = NoFile
  /\ main' = "return"
  /\ UNCHANGED <<rc, started, joined, failed, fdOpen, destOK>>
  /\ UNCHANGED <<threadVars, peerVars, histVars>>

(* ftruncate(), fsync() or rename() fails. *)
FileCallFails ==
  /\ main \in {"size", "sync", "rename"}
  /\ main' = "cleanup"
  /\ UNCHANGED <<rc, started, joined, failed, fdOpen>>
  /\ UNCHANGED <<threadVars, fileVars, peerVars, histVars>>

Return ==
  /\ main = "return"
  /\ rc' = "ok"
  /\ main' = "idle"
  /\ UNCHANGED <<started, joined, failed, fdOpen>>
  /\ UNCHANGED <<threadVars, fileVars, peerVars, histVars>>

(* Mutant: the partial file is removed only with an open descriptor.       *)
CleanupIfOpen ==
  /\ main = "cleanup"
  /\ fdOpen' = FALSE
  /\ partial' = IF destOK /\ fdOpen THEN NoFile ELSE partial
  /\ rc' = "fail"
  /\ main' = "idle"
  /\ UNCHANGED <<started, joined, failed, final, destOK>>
  /\ UNCHANGED <<threadVars, peerVars, histVars>>

(* The cleanup labels with rc != 0: the result of unlink() is ignored. *)
Cleanup ==
  /\ main = "cleanup"
  /\ fdOpen' = FALSE
  /\ partial' = IF destOK THEN NoFile ELSE partial
  /\ rc' = "fail"
  /\ main' = "idle"
  /\ UNCHANGED <<started, joined, failed, final, destOK>>
  /\ UNCHANGED <<threadVars, peerVars, histVars>>

MainStep ==
  \/ OpenPartial \/ OpenFails \/ SetSize \/ Spawn \/ SpawnFails
  \/ Join \/ Verdict \/ Sync \/ Close \/ Rename \/ FileCallFails
  \/ Return \/ Cleanup

-----------------------------------------------------------------------------
(* segment_thread_main(), one thread per segment. *)

Exit(i) == rcv' = [rcv EXCEPT ![i] = "exited"]

(* mark_failed() and the end of the thread. *)
ExitFailed(i) == Exit(i) /\ failed' = TRUE

Connect(i) ==
  /\ rcv[i] = "connect"
  /\ rcv' = [rcv EXCEPT ![i] = "request"]
  /\ srv' = [srv EXCEPT ![i] = "wait"]
  /\ UNCHANGED <<mainVars, received, fileVars, offset, chan, disk, histVars>>

(* The peer takes the request unless it has hung up already. *)
Request(i) ==
  /\ rcv[i] = "request"
  /\ rcv' = [rcv EXCEPT ![i] = "receive"]
  /\ srv' = [srv EXCEPT ![i] = IF @ = "wait" THEN "find" ELSE @]
  /\ UNCHANGED <<mainVars, received, fileVars, offset, chan, disk, histVars>>

(* net_connect() gives up after its retries, or the request is not sent. *)
ContactFails(i) ==
  /\ rcv[i] \in {"connect", "request"}
  /\ ExitFailed(i)
  /\ UNCHANGED <<main, rc, started, joined, fdOpen, received>>
  /\ UNCHANGED <<fileVars, peerVars, histVars>>

(* The checks receive_segment_frames() makes before it writes. *)
Accepts(i, frame) ==
  /\ frame.kind = "data"
  /\ frame.len \in 1 .. ChunkSize
  /\ frame.start \in First(i) .. Last(i)
  /\ frame.start = First(i) + received[i]
  /\ frame.len <= Last(i) - frame.start + 1

(* write_all_at(): the first n bytes of the frame reach the .part file. *)
Write(frame, n) ==
  partial' = [b \in DOMAIN partial |->
                IF b \in frame.start .. frame.start + n - 1
                THEN frame.data ELSE partial[b]]

(* Mutant: received_total grows by a chunk, whatever the frame held.       *)
ReceiveByChunks(i) ==
  /\ rcv[i] = "receive"
  /\ chan[i] # <<>>
  /\ LET frame == Head(chan[i]) IN
       /\ Accepts(i, frame)
       /\ Write(frame, frame.len)
       /\ received' = [received EXCEPT ![i] = @ + ChunkSize]
       /\ rcv' = [rcv EXCEPT ![i] =
                    IF frame.start + frame.len > Last(i)
                    THEN "exited" ELSE "receive"]
  /\ chan' = [chan EXCEPT ![i] = Tail(@)]
  /\ UNCHANGED <<mainVars, final, destOK, srv, offset, disk, histVars>>

Receive(i) ==
  /\ rcv[i] = "receive"
  /\ chan[i] # <<>>
  /\ LET frame == Head(chan[i]) IN
       /\ Accepts(i, frame)
       /\ Write(frame, frame.len)
       /\ received' = [received EXCEPT ![i] = @ + frame.len]
       /\ rcv' = [rcv EXCEPT ![i] =
                    IF frame.start + frame.len > Last(i)
                    THEN "exited" ELSE "receive"]
  /\ chan' = [chan EXCEPT ![i] = Tail(@)]
  /\ UNCHANGED <<mainVars, final, destOK, srv, offset, disk, histVars>>

(* pwrite() fails after some of the frame was written. *)
WriteFails(i) ==
  /\ rcv[i] = "receive"
  /\ chan[i] # <<>>
  /\ LET frame == Head(chan[i]) IN
       /\ Accepts(i, frame)
       /\ \E n \in 0 .. frame.len - 1 : Write(frame, n)
  /\ chan' = [chan EXCEPT ![i] = Tail(@)]
  /\ ExitFailed(i)
  /\ UNCHANGED <<main, rc, started, joined, fdOpen, received>>
  /\ UNCHANGED <<final, destOK, srv, offset, disk, histVars>>

Reject(i) ==
  /\ rcv[i] = "receive"
  /\ chan[i] # <<>>
  /\ ~Accepts(i, Head(chan[i]))
  /\ chan' = [chan EXCEPT ![i] = Tail(@)]
  /\ ExitFailed(i)
  /\ UNCHANGED <<main, rc, started, joined, fdOpen, received>>
  /\ UNCHANGED <<fileVars, srv, offset, disk, histVars>>

(* net_recv_msg() returns 0 or -1: the peer closed before the last byte. *)
Eof(i) ==
  /\ rcv[i] = "receive"
  /\ chan[i] = <<>>
  /\ srv[i] = "closed"
  /\ ExitFailed(i)
  /\ UNCHANGED <<main, rc, started, joined, fdOpen, received>>
  /\ UNCHANGED <<fileVars, peerVars, histVars>>

ThreadStep(i) ==
  \/ Connect(i) \/ Request(i) \/ ContactFails(i)
  \/ Receive(i) \/ WriteFails(i) \/ Reject(i) \/ Eof(i)

-----------------------------------------------------------------------------
(* The request thread of peer i. *)

Frame == [kind : {"data", "error"}, start : 0 .. Size, len : 0 .. Size,
          data : {Hole, "good", "bad"}]
ErrorFrame == [kind |-> "error", start |-> 0, len |-> 0, data |-> Hole]

(* find_matching_file_recursive() hashes the shared files. *)
Find(i) ==
  /\ srv[i] = "find"
  /\ disk[i] = "match"
  /\ srv' = [srv EXCEPT ![i] = "validate"]
  /\ UNCHANGED <<mainVars, threadVars, fileVars, offset, chan, disk, histVars>>

(* Mutant: the size is compared, the hash is not computed again.           *)
ValidateSizeOnly(i) ==
  /\ srv[i] = "validate"
  /\ disk[i] # "gone"
  /\ srv' = [srv EXCEPT ![i] = "open"]
  /\ UNCHANGED <<mainVars, threadVars, fileVars, offset, chan, disk, histVars>>

(* validate_request_for_file() hashes the file it found again. *)
Validate(i) ==
  /\ srv[i] = "validate"
  /\ disk[i] = "match"
  /\ srv' = [srv EXCEPT ![i] = "open"]
  /\ UNCHANGED <<mainVars, threadVars, fileVars, offset, chan, disk, histVars>>

(* fopen() and fseeko(), by path: whatever file is there now. *)
Open(i) ==
  /\ srv[i] = "open"
  /\ disk[i] # "gone"
  /\ srv' = [srv EXCEPT ![i] = "send"]
  /\ offset' = [offset EXCEPT ![i] = First(i)]
  /\ UNCHANGED <<mainVars, threadVars, fileVars, chan, disk, histVars>>

(* Mutant: off by one, a byte is left after the end of the segment.        *)
SendOneMore(i) ==
  /\ srv[i] = "send"
  /\ LET remaining == Last(i) - offset[i] + 2
         nread == IF remaining > ChunkSize THEN ChunkSize ELSE remaining
     IN /\ chan' = [chan EXCEPT ![i] =
               Append(@, [kind |-> "data", start |-> offset[i], len |-> nread,
                          data |-> "good"])]
        /\ offset' = [offset EXCEPT ![i] = @ + nread]
        /\ srv' = [srv EXCEPT ![i] =
                     IF nread = remaining THEN "closed" ELSE "send"]
  /\ UNCHANGED <<mainVars, threadVars, fileVars, disk, histVars>>

(* One turn of the loop of transfer_send_range().  A deleted file is still *)
(* read through its handle; fread() returns less than it was asked for at  *)
(* the end of a file that became shorter, or at an error.                  *)
Send(i) ==
  /\ srv[i] = "send"
  /\ LET remaining == Last(i) - offset[i] + 1
         want == IF remaining > ChunkSize THEN ChunkSize ELSE remaining
     IN \E nread \in 1 .. want :
          /\ chan' = [chan EXCEPT ![i] =
               Append(@, [kind |-> "data", start |-> offset[i], len |-> nread,
                          data |-> IF disk[i] = "changed"
                                   THEN "bad" ELSE "good"])]
          /\ offset' = [offset EXCEPT ![i] = @ + nread]
          /\ srv' = [srv EXCEPT ![i] =
                       IF nread = remaining THEN "closed" ELSE "send"]
  /\ UNCHANGED <<mainVars, threadVars, fileVars, disk, histVars>>

(* No file matches, or a file operation or a send fails. *)
ServeFails(i) ==
  /\ srv[i] \in {"find", "validate", "open", "send"}
  /\ srv' = [srv EXCEPT ![i] = "error"]
  /\ UNCHANGED <<mainVars, threadVars, fileVars, offset, chan, disk, histVars>>

(* handle_transfer_request() reports "requested range is unavailable". *)
ErrorReply(i) ==
  /\ srv[i] = "error"
  /\ chan' = [chan EXCEPT ![i] = Append(@, ErrorFrame)]
  /\ srv' = [srv EXCEPT ![i] = "closed"]
  /\ UNCHANGED <<mainVars, threadVars, fileVars, offset, disk, histVars>>

ServeStep(i) ==
  Find(i) \/ Validate(i) \/ Open(i) \/ Send(i) \/ ServeFails(i) \/ ErrorReply(i)

-----------------------------------------------------------------------------
(* What the processes do not decide. *)

(* The peer dies or the connection is reset: frames in flight are lost. *)
Hangup(i) ==
  /\ srv[i] # "none"
  /\ srv' = [srv EXCEPT ![i] = "closed"]
  /\ \E k \in 0 .. Len(chan[i]) :
       chan' = [chan EXCEPT ![i] = SubSeq(@, 1, k)]
  /\ UNCHANGED <<mainVars, threadVars, fileVars, offset, disk, histVars>>

(* The owner of peer i edits or deletes the shared file. *)
Edit(i) ==
  /\ disk[i] = "match"
  /\ disk' = [disk EXCEPT ![i] = "changed"]
  /\ raced' = [raced EXCEPT ![i] = @ \/ srv[i] \in {"open", "send"}]
  /\ UNCHANGED <<mainVars, threadVars, fileVars, srv, offset, chan>>
  /\ UNCHANGED <<stranded, downloads>>

Delete(i) ==
  /\ disk[i] = "match"
  /\ disk' = [disk EXCEPT ![i] = "gone"]
  /\ UNCHANGED <<mainVars, threadVars, fileVars, srv, offset, chan, histVars>>

(* The drive of the destination folder goes away, and comes back.  An open *)
(* descriptor stays dead then: for it the drive returns when it is closed. *)
Unplug ==
  /\ destOK
  /\ destOK' = FALSE
  /\ stranded' = (stranded \/ main # "idle")
  /\ UNCHANGED <<mainVars, threadVars, partial, final, peerVars>>
  /\ UNCHANGED <<raced, downloads>>

Replug ==
  /\ ~destOK
  /\ ~fdOpen
  /\ destOK' = TRUE
  /\ UNCHANGED <<mainVars, threadVars, partial, final, peerVars, histVars>>

(* The client is killed in the middle of a download and started again. *)
Crash ==
  /\ main # "idle"
  /\ main' = "idle"
  /\ rc' = "none"
  /\ fdOpen' = FALSE
  /\ rcv' = [i \in Segs |-> "none"]
  /\ started' = 0
  /\ joined' = 0
  /\ failed' = FALSE
  /\ stranded' = TRUE
  /\ UNCHANGED <<received, fileVars, peerVars, raced, downloads>>

Environment ==
  \/ Unplug \/ Replug \/ Crash
  \/ \E i \in Segs : Hangup(i) \/ Edit(i) \/ Delete(i)

Next ==
  \/ Begin \/ Refuse \/ MainStep
  \/ \E i \in Segs : ThreadStep(i) \/ ServeStep(i)
  \/ Environment

Spec == Init /\ [][Next]_vars

(* The operating system runs every thread of the client, and every peer    *)
(* answers or closes: the sockets have no timeout, so a peer that keeps a   *)
(* connection open and silent would hold the download for ever.            *)
Fairness ==
  /\ WF_vars(MainStep)
  /\ \A i \in Segs : WF_vars(ThreadStep(i)) /\ WF_vars(ServeStep(i))

FairSpec == Spec /\ Fairness

-----------------------------------------------------------------------------
(* Properties. *)

MainTypeOK ==
  /\ main \in {"idle", "open", "size", "spawn", "join", "sync", "close",
               "rename", "return", "cleanup"}
  /\ rc \in {"none", "ok", "fail"}
  /\ started \in 0 .. Active
  /\ joined \in 0 .. Active
  /\ failed \in BOOLEAN
  /\ fdOpen \in BOOLEAN

ThreadTypeOK ==
  /\ rcv \in [Segs -> {"none", "connect", "request", "receive", "exited"}]
  /\ received \in [Segs -> 0 .. Size]

FileTypeOK ==
  /\ partial \in Contents \cup {NoFile, EmptyFile}
  /\ final \in Contents \cup {NoFile}
  /\ destOK \in BOOLEAN

PeerTypeOK ==
  /\ srv \in [Segs -> {"none", "wait", "find", "validate", "open", "send",
                       "error", "closed"}]
  /\ offset \in [Segs -> 0 .. Size]
  /\ chan \in [Segs -> Seq(Frame)]
  /\ disk \in [Segs -> {"match", "changed", "gone"}]

HistTypeOK ==
  /\ raced \in [Segs -> BOOLEAN]
  /\ stranded \in BOOLEAN
  /\ downloads \in 0 .. MaxDownloads

(* Every variable keeps its type; assembly.failed, received_total and the  *)
(* files are what the threads of receiver.c share.                         *)
TypeOK ==
  MainTypeOK /\ ThreadTypeOK /\ FileTypeOK /\ PeerTypeOK /\ HistTypeOK

(* A file under its final name has every byte written by some segment:     *)
(* whatever fails, no hole of the pre-sized .part file is ever installed.  *)
InstalledIsWhole ==
  final # NoFile => \A b \in Bytes : final[b] # Hole

(* A byte of another version can only come from a peer whose file changed  *)
(* between its last validation and the end of its segment; nothing else    *)
(* (order of segments, retries, other peers' failures) can mix one in.     *)
OnlyRacedPeersCorrupt ==
  final # NoFile =>
    \A i \in Segs : \A b \in First(i) .. Last(i) :
      final[b] = "bad" => raced[i]

(* No segment thread is alive once the descriptor it writes to is closed:  *)
(* its pwrite() would hit whatever file reuses the number.                 *)
NoWriterAfterClose ==
  \A i \in Segs : rcv[i] \in {"connect", "request", "receive"} => fdOpen

(* Sender and receiver agree on where they are: a data frame that arrives  *)
(* is always the next bytes of the segment, so the only frame a receiver   *)
(* ever rejects is an error frame.                                         *)
DataFramesAreNext ==
  \A i \in Segs :
    rcv[i] = "receive" /\ chan[i] # <<>> /\ Head(chan[i]).kind = "data"
      => Accepts(i, Head(chan[i]))

(* Between downloads a .part file is there only if the client was killed,  *)
(* or the drive unplugged, during the download that created it.            *)
LeftoverOnlyIfStranded ==
  main = "idle" /\ partial # NoFile => stranded

Status == IF main = "idle" THEN "idle"
          ELSE IF main = "return" THEN "installed" ELSE "running"

Atomic == INSTANCE AtomicDownload
  WITH Absent <- NoFile,
       Complete <- [Bytes -> {"good", "bad"}],
       status <- Status,
       report <- rc,
       file <- final

(* The download implements the abstract one: threads and partial files     *)
(* never show under the final name or in the result.                       *)
ImplementsAtomicDownload == Atomic!Spec

(* Every call of transfer_request() returns, however segments fail.        *)
DownloadReturns == main # "idle" ~> main = "idle"

(* tests/integration/README.md: `request <hash> <size>' "downloads the     *)
(* exact file".                                                            *)
InstalledIsExact ==
  final # NoFile => \A b \in Bytes : final[b] = "good"
=============================================================================
