--------------------------- MODULE DownloadProofs ---------------------------
(***************************************************************************)
(* Theorems about Download, for every file size, number of sources and     *)
(* chunk size.  The inductive invariant is built in three layers, each     *)
(* using the ones before it: SharedInv (types, and who is alive when),     *)
(* StreamInv (what is in flight on a connection), BytesInv (what is in the *)
(* files).                                                                 *)
(***************************************************************************)
EXTENDS Download, SegmentsProofs, SequenceTheorems

Live(i) == rcv[i] \in {"connect", "request", "receive"}
SegLen(i) == Last(i) - First(i) + 1

(* transfer_request() from ftruncate() to rename(): the .part file has its *)
(* full size, and segment threads may be writing to it.                    *)
Writing == main \in {"spawn", "join", "sync", "close", "rename"}

(* What fork and join guarantee about the threads.                         *)
ThreadsInv ==
  /\ \A i \in Segs : rcv[i] # "none" => i < started
  /\ \A i \in Segs : i < joined => rcv[i] = "exited"
  /\ joined <= started
  /\ main \in {"open", "size"} => started = 0
  /\ main = "spawn" => started < Active
  /\ main \notin {"spawn", "join"} => \A i \in Segs : ~Live(i)
  /\ main \in {"size", "spawn", "join", "sync", "close"} => fdOpen
  /\ main \in {"sync", "close", "rename"} =>
       started = Active /\ joined = Active /\ ~failed

SharedInv == TypeOK /\ ThreadsInv /\ (Writing => partial \in Contents)

(* Where the frame after the k-th in flight to thread i has to start.      *)
EndOf(i, k) == IF k = 0 THEN First(i) + received[i]
               ELSE chan[i][k].start + chan[i][k].len

(* A data frame stays inside the segment it was asked for, and carries     *)
(* bytes of another version only if the peer's file changed under it.      *)
FrameOK(i, f) ==
  f.kind = "data" =>
    /\ f.len \in 1 .. ChunkSize
    /\ f.start \in First(i) .. Last(i)
    /\ f.len <= Last(i) - f.start + 1
    /\ f.data \in {"good", "bad"}
    /\ f.data = "bad" => raced[i]

(* The connection of segment i: nothing on it before the request, then     *)
(* frames each of which starts where the one before it ended, from what    *)
(* the receiver has written to where the sender is in the file.            *)
Unused(i) == chan[i] = <<>> /\ received[i] = 0

Stream(i) ==
  /\ \A k \in 1 .. Len(chan[i]) : FrameOK(i, chan[i][k])
  /\ srv[i] = "send" => offset[i] \in First(i) .. Last(i)
  /\ srv[i] \in {"open", "send"} /\ disk[i] = "changed" => raced[i]
  /\ main # "idle" /\ rcv[i] \in {"none", "connect"} =>
       srv[i] = "none" /\ Unused(i)
  /\ rcv[i] = "request" => srv[i] \in {"wait", "closed"} /\ Unused(i)
  /\ srv[i] \in {"wait", "find", "validate", "open"} => chan[i] = <<>>
  /\ rcv[i] = "receive" =>
       /\ srv[i] \in {"wait", "find", "validate", "open"} => received[i] = 0
       /\ \A k \in 1 .. Len(chan[i]) :
            chan[i][k].kind = "data" => chan[i][k].start = EndOf(i, k - 1)
       /\ srv[i] = "send" => offset[i] = EndOf(i, Len(chan[i]))

StreamInv == \A i \in Segs : Stream(i)

(* The files: a segment's received_total bytes are written, and nobody     *)
(* else's bytes are in its range.                                          *)
Written(i) ==
  /\ \A b \in First(i) .. First(i) + received[i] - 1 : partial[b] # Hole
  /\ \A b \in First(i) .. Last(i) : partial[b] = "bad" => raced[i]

BytesInv ==
  /\ Writing => \A i \in Segs : Written(i)
  /\ \A i \in Segs :
       /\ received[i] <= SegLen(i)
       /\ rcv[i] = "receive" => received[i] < SegLen(i)
       /\ rcv[i] = "exited" /\ ~failed => received[i] = SegLen(i)
  /\ InstalledIsWhole
  /\ OnlyRacedPeersCorrupt

-----------------------------------------------------------------------------
(* The constants. *)

LEMMA ActiveType == Active \in 1 .. Size /\ Segs \subseteq Nat
BY SizesAssumption, ActiveCountBounds DEF Active, Segs

LEMMA SegmentBounds ==
  ASSUME NEW i \in Segs
  PROVE  /\ First(i) \in Nat
         /\ Last(i) \in Nat
         /\ First(i) <= Last(i)
         /\ Last(i) < Size
BY SizesAssumption, ActiveType, SegmentInFile DEF First, Last, Segs

LEMMA SegmentBytes ==
  ASSUME NEW i \in Segs, NEW b \in First(i) .. Last(i)
  PROVE  b \in Bytes /\ b \in Nat
<1>1. First(i) \in Nat /\ Last(i) \in Nat /\ Last(i) < Size
  BY SegmentBounds
<1> QED
  BY <1>1, SizesAssumption DEF Bytes

LEMMA SegmentsDisjoint ==
  ASSUME NEW i \in Segs, NEW j \in Segs, i # j, NEW b \in First(i) .. Last(i)
  PROVE  b \notin First(j) .. Last(j)
<1>1. CASE i < j
  <2>1. Last(i) < First(j)
    BY <1>1, SizesAssumption, ActiveType, SegmentsInOrder
    DEF First, Last, Segs
  <2> QED
    BY <2>1, SegmentBounds
<1>2. CASE j < i
  <2>1. Last(j) < First(i)
    BY <1>2, SizesAssumption, ActiveType, SegmentsInOrder
    DEF First, Last, Segs
  <2> QED
    BY <2>1, SegmentBounds
<1> QED
  BY <1>1, <1>2 DEF Segs

LEMMA SegmentsCover ==
  ASSUME NEW b \in Bytes
  PROVE  \E i \in Segs : b \in First(i) .. Last(i)
BY SizesAssumption, ActiveType, SegmentsCoverFile
DEF First, Last, Segs, Bytes

(* A write of receive_segment_frames() keeps the .part file a file of Size *)
(* bytes, and changes at most the bytes of the frame.                      *)
LEMMA WriteEffect ==
  ASSUME NEW frame \in Frame, NEW n \in Nat,
         partial \in Contents, Write(frame, n)
  PROVE  /\ partial' \in Contents
         /\ \A b \in Bytes :
              partial'[b] = IF b \in frame.start .. frame.start + n - 1
                            THEN frame.data ELSE partial[b]
BY DEF Write, Contents, Frame, Hole

-----------------------------------------------------------------------------
LEMMA SharedInit == Init => SharedInv
<1> SUFFICES ASSUME Init
             PROVE  SharedInv
  OBVIOUS
<1>1. failed \in BOOLEAN /\ fdOpen \in BOOLEAN /\ destOK \in BOOLEAN
  BY Zenon DEF Init
<1>4. stranded \in BOOLEAN /\ raced \in [Segs -> BOOLEAN]
  BY Zenon DEF Init
<1>5. MainTypeOK /\ ThreadTypeOK
  BY <1>1, ActiveType, SizesAssumption DEF Init, MainTypeOK, ThreadTypeOK
<1>6. FileTypeOK /\ HistTypeOK
  BY <1>1, <1>4, SizesAssumption DEF Init, FileTypeOK, HistTypeOK
<1>2. PeerTypeOK
  BY ActiveType, SizesAssumption, EmptySeq DEF Init, PeerTypeOK
<1>3. ThreadsInv /\ ~Writing
  BY ActiveType DEF Init, ThreadsInv, Writing, Live
<1> QED
  BY <1>2, <1>3, <1>5, <1>6 DEF SharedInv, TypeOK

LEMMA SharedStutter == SharedInv /\ UNCHANGED vars => SharedInv'
BY DEF SharedInv, TypeOK, MainTypeOK, ThreadTypeOK, FileTypeOK, PeerTypeOK,
       HistTypeOK, ThreadsInv, Writing, Live, vars, mainVars,
       threadVars, fileVars, peerVars, histVars

LEMMA SharedMain ==
  ASSUME SharedInv, Begin \/ Refuse \/ MainStep
  PROVE  SharedInv'
<1> USE ActiveType, SizesAssumption
    DEF SharedInv, TypeOK, MainTypeOK, ThreadTypeOK, FileTypeOK, PeerTypeOK,
        HistTypeOK, ThreadsInv, Writing, Live, Segs,
        mainVars, threadVars, fileVars, peerVars, histVars
<1>1. CASE Begin
  <2>1. PeerTypeOK'
    BY <1>1, EmptySeq DEF Begin
  <2>4. failed' \in BOOLEAN /\ fdOpen' \in BOOLEAN
    BY <1>1, Zenon DEF Begin
  <2>5. MainTypeOK' /\ ThreadTypeOK'
    BY <1>1, <2>4 DEF Begin
  <2>2. FileTypeOK' /\ HistTypeOK'
    BY <1>1 DEF Begin
  <2>3. ThreadsInv' /\ ~Writing'
    BY <1>1 DEF Begin
  <2> QED
    BY <2>1, <2>2, <2>3, <2>5
<1>2. CASE Refuse
  BY <1>2 DEF Refuse
<1>3. CASE OpenPartial
  BY <1>3 DEF OpenPartial
<1>4. CASE OpenFails
  BY <1>4 DEF OpenFails
<1>5. CASE SetSize
  BY <1>5 DEF SetSize, Contents, Hole
<1>6. CASE Spawn
  <2>1. started \in Segs /\ started + 1 \in 0 .. Active
    BY <1>6 DEF Spawn
  <2>2. MainTypeOK' /\ ThreadTypeOK'
    BY <1>6, <2>1 DEF Spawn
  <2>3. FileTypeOK' /\ PeerTypeOK' /\ HistTypeOK'
    BY <1>6 DEF Spawn
  <2>4. /\ Writing' /\ partial' \in Contents
        /\ fdOpen' /\ main' \in {"spawn", "join"}
    BY <1>6 DEF Spawn
  <2>5. \A j \in Segs : rcv'[j] = IF j = started THEN "connect" ELSE rcv[j]
    BY <1>6, <2>1 DEF Spawn
  <2>6. ThreadsInv'
    BY <1>6, <2>1, <2>4, <2>5 DEF Spawn
  <2> QED
    BY <2>2, <2>3, <2>4, <2>6
<1>7. CASE SpawnFails
  BY <1>7 DEF SpawnFails
<1>8. CASE Join
  BY <1>8 DEF Join
<1>9. CASE Verdict
  BY <1>9 DEF Verdict
<1>10. CASE Sync
  BY <1>10 DEF Sync
<1>11. CASE Close
  BY <1>11 DEF Close
<1>12. CASE Rename
  BY <1>12 DEF Rename
<1>13. CASE FileCallFails
  BY <1>13 DEF FileCallFails
<1>14. CASE Return
  BY <1>14 DEF Return
<1>15. CASE Cleanup
  BY <1>15 DEF Cleanup
<1> QED
  BY <1>1, <1>2, <1>3, <1>4, <1>5, <1>6, <1>7, <1>8, <1>9, <1>10, <1>11, <1>12,
     <1>13, <1>14, <1>15 DEF MainStep

(* Frames in flight stay frames when one is added, taken or lost.          *)
LEMMA ChanTake ==
  ASSUME PeerTypeOK, NEW i \in Segs, chan[i] # <<>>
  PROVE  /\ Head(chan[i]) \in Frame
         /\ Head(chan[i]) = chan[i][1]
         /\ Len(chan[i]) \in Nat \ {0}
         /\ Tail(chan[i]) \in Seq(Frame)
         /\ Len(Tail(chan[i])) = Len(chan[i]) - 1
         /\ \A k \in 1 .. Len(Tail(chan[i])) : Tail(chan[i])[k] = chan[i][k + 1]
<1>1. chan[i] \in Seq(Frame)
  BY DEF PeerTypeOK
<1>2. Head(chan[i]) = chan[i][1]
  BY <1>1
<1> QED
  BY <1>1, <1>2, HeadTailProperties, EmptySeq

LEMMA ChanAdd ==
  ASSUME PeerTypeOK, NEW i \in Segs, NEW f \in Frame
  PROVE  /\ Append(chan[i], f) \in Seq(Frame)
         /\ Len(chan[i]) \in Nat
         /\ Len(Append(chan[i], f)) = Len(chan[i]) + 1
         /\ \A k \in 1 .. Len(chan[i]) : Append(chan[i], f)[k] = chan[i][k]
         /\ Append(chan[i], f)[Len(chan[i]) + 1] = f
<1>1. chan[i] \in Seq(Frame)
  BY DEF PeerTypeOK
<1> QED
  BY <1>1, AppendProperties, LenProperties

LEMMA ChanLose ==
  ASSUME PeerTypeOK, NEW i \in Segs, NEW n \in 0 .. Len(chan[i])
  PROVE  /\ SubSeq(chan[i], 1, n) \in Seq(Frame)
         /\ Len(SubSeq(chan[i], 1, n)) = n
         /\ \A k \in 1 .. n : SubSeq(chan[i], 1, n)[k] = chan[i][k]
<1>1. chan[i] \in Seq(Frame) /\ Len(chan[i]) \in Nat
  BY LenProperties DEF PeerTypeOK
<1>2. \A k \in 1 .. n : chan[i][k] \in Frame
  BY <1>1, ElementOfSeq
<1> QED
  BY <1>1, <1>2, SubSeqProperties

(* A live thread only exists while transfer_request() spawns or joins.     *)
LEMMA LiveWhileJoining ==
  ASSUME SharedInv, NEW i \in Segs, Live(i)
  PROVE  main \in {"spawn", "join"} /\ partial \in Contents /\ Writing
BY DEF SharedInv, ThreadsInv, Writing

(* A segment thread moves on, or exits.                                    *)
LEMMA ThreadMoves ==
  ASSUME SharedInv, NEW i \in Segs, Live(i),
         NEW pc \in {"request", "receive", "exited"},
         rcv' = [rcv EXCEPT ![i] = pc],
         UNCHANGED <<main, rc, started, joined, fdOpen>>,
         failed' \in BOOLEAN,
         received' \in [Segs -> 0 .. Size],
         partial' \in Contents,
         UNCHANGED <<final, destOK, histVars>>,
         PeerTypeOK'
  PROVE  SharedInv'
<1>1. main \in {"spawn", "join"}
  BY LiveWhileJoining
<1>2. MainTypeOK' /\ ThreadTypeOK'
  BY DEF SharedInv, TypeOK, MainTypeOK, ThreadTypeOK
<1>3. FileTypeOK' /\ HistTypeOK'
  BY DEF SharedInv, TypeOK, FileTypeOK, HistTypeOK, histVars
<1>4. \A j \in Segs : rcv'[j] = IF j = i THEN pc ELSE rcv[j]
  BY DEF SharedInv, TypeOK, ThreadTypeOK
<1>5. rcv[i] # "none" /\ rcv[i] # "exited"
  BY DEF Live
<1>6. ThreadsInv'
  BY <1>1, <1>4, <1>5 DEF SharedInv, ThreadsInv, Live
<1> QED
  BY <1>2, <1>3, <1>6 DEF SharedInv, TypeOK

LEMMA SharedThread ==
  ASSUME SharedInv, NEW i \in Segs, ThreadStep(i)
  PROVE  SharedInv'
<1>1. /\ PeerTypeOK
      /\ received \in [Segs -> 0 .. Size]
      /\ failed \in BOOLEAN
      /\ chan \in [Segs -> Seq(Frame)]
      /\ srv \in [Segs -> {"none", "wait", "find", "validate", "open", "send",
                           "error", "closed"}]
  BY DEF SharedInv, TypeOK, MainTypeOK, PeerTypeOK, ThreadTypeOK
<1>2. CASE Connect(i)
  <2>1. Live(i) /\ partial \in Contents
    BY <1>2, LiveWhileJoining DEF Connect, Live
  <2>2. PeerTypeOK'
    BY <1>1, <1>2 DEF Connect, PeerTypeOK
  <2> QED
    BY <1>1, <1>2, <2>1, <2>2, ThreadMoves
    DEF Connect, mainVars, fileVars, histVars
<1>3. CASE Request(i)
  <2>1. Live(i) /\ partial \in Contents
    BY <1>3, LiveWhileJoining DEF Request, Live
  <2>2. PeerTypeOK'
    BY <1>1, <1>3 DEF Request, PeerTypeOK
  <2> QED
    BY <1>1, <1>3, <2>1, <2>2, ThreadMoves
    DEF Request, mainVars, fileVars, histVars
<1>4. CASE ContactFails(i)
  <2>1. Live(i) /\ partial \in Contents
    BY <1>4, LiveWhileJoining DEF ContactFails, Live
  <2>2. PeerTypeOK'
    BY <1>1, <1>4 DEF ContactFails, PeerTypeOK, peerVars
  <2> QED
    BY <1>1, <1>4, <2>1, <2>2, ThreadMoves
    DEF ContactFails, ExitFailed, Exit, fileVars, histVars
<1>5. CASE Receive(i) \/ WriteFails(i) \/ Reject(i)
  <2> DEFINE frame == Head(chan[i])
  <2>1. Live(i) /\ partial \in Contents
    BY <1>5, LiveWhileJoining DEF Receive, WriteFails, Reject, Live
  <2>2. chan[i] # <<>> /\ frame \in Frame /\ Tail(chan[i]) \in Seq(Frame)
    BY <1>1, <1>5, ChanTake DEF Receive, WriteFails, Reject
  <2>3. PeerTypeOK'
    BY <1>1, <1>5, <2>2 DEF Receive, WriteFails, Reject, PeerTypeOK, fileVars
  <2>4. frame.start \in 0 .. Size /\ frame.len \in 0 .. Size
    BY <2>2 DEF Frame
  <2> HIDE DEF frame
  <2>5. CASE Receive(i)
    <3>1. partial' \in Contents
      BY <2>1, <2>2, <2>4, <2>5, WriteEffect DEF Receive, frame
    <3>2. received'= [received EXCEPT ![i] = @ + frame.len]
      BY <2>5 DEF Receive, frame
    <3>3. /\ frame.start = First(i) + received[i]
          /\ frame.len <= Last(i) - frame.start + 1
      BY <2>5 DEF Receive, Accepts, frame
    <3>4. received[i] + frame.len \in 0 .. Size
      <4>1. received[i] \in 0 .. Size
        BY <1>1
      <4>2. First(i) \in Nat /\ Last(i) \in Nat /\ Last(i) < Size
        BY SegmentBounds
      <4> QED
        BY <2>4, <3>3, <4>1, <4>2, SizesAssumption
    <3>5. received' \in [Segs -> 0 .. Size]
      BY <1>1, <3>2, <3>4
    <3> QED
      BY <1>1, <2>1, <2>3, <2>5, <3>1, <3>5, ThreadMoves
      DEF Receive, mainVars, histVars
  <2>6. CASE WriteFails(i)
    <3>1. PICK n \in 0 .. frame.len - 1 : Write(frame, n)
      BY <2>6 DEF WriteFails, frame
    <3>2. partial' \in Contents
      BY <2>1, <2>2, <2>4, <3>1, WriteEffect
    <3> QED
      BY <1>1, <2>1, <2>3, <2>6, <3>2, ThreadMoves
      DEF WriteFails, ExitFailed, Exit, histVars
  <2>7. CASE Reject(i)
    BY <1>1, <2>1, <2>3, <2>7, ThreadMoves
    DEF Reject, ExitFailed, Exit, fileVars, histVars
  <2> QED
    BY <1>5, <2>5, <2>6, <2>7
<1>6. CASE Eof(i)
  <2>1. Live(i) /\ partial \in Contents
    BY <1>6, LiveWhileJoining DEF Eof, Live
  <2>2. PeerTypeOK'
    BY <1>1, <1>6 DEF Eof, PeerTypeOK, peerVars
  <2> QED
    BY <1>1, <1>6, <2>1, <2>2, ThreadMoves
    DEF Eof, ExitFailed, Exit, fileVars, histVars
<1> QED
  BY <1>2, <1>3, <1>4, <1>5, <1>6 DEF ThreadStep

(* A peer moves on: nothing the client's threads share is touched.         *)
LEMMA PeerMoves ==
  ASSUME SharedInv, UNCHANGED <<mainVars, threadVars, fileVars>>,
         PeerTypeOK', HistTypeOK'
  PROVE  SharedInv'
BY DEF SharedInv, TypeOK, MainTypeOK, ThreadTypeOK, FileTypeOK, ThreadsInv,
       Writing, Live, mainVars, threadVars, fileVars

LEMMA SharedServe ==
  ASSUME SharedInv, NEW i \in Segs,
         ServeStep(i) \/ Hangup(i) \/ Edit(i) \/ Delete(i)
  PROVE  SharedInv'
<1>1. /\ PeerTypeOK
      /\ chan \in [Segs -> Seq(Frame)]
      /\ offset \in [Segs -> 0 .. Size]
      /\ srv \in [Segs -> {"none", "wait", "find", "validate", "open", "send",
                           "error", "closed"}]
      /\ disk \in [Segs -> {"match", "changed", "gone"}]
  BY DEF SharedInv, TypeOK, PeerTypeOK
<1>2. HistTypeOK
  BY DEF SharedInv, TypeOK
<1>3. ASSUME UNCHANGED histVars
      PROVE  HistTypeOK'
  BY <1>2, <1>3 DEF HistTypeOK, histVars
<1>4. CASE Find(i) \/ Validate(i) \/ ServeFails(i)
  <2>1. PeerTypeOK'
    BY <1>1, <1>4 DEF Find, Validate, ServeFails, PeerTypeOK
  <2> QED
    BY <1>3, <1>4, <2>1, PeerMoves DEF Find, Validate, ServeFails
<1>5. CASE Open(i)
  <2>1. First(i) \in 0 .. Size
    BY SegmentBounds, SizesAssumption
  <2>2. PeerTypeOK'
    BY <1>1, <1>5, <2>1 DEF Open, PeerTypeOK
  <2> QED
    BY <1>3, <1>5, <2>2, PeerMoves DEF Open
<1>6. CASE Send(i)
  <2> DEFINE remaining == Last(i) - offset[i] + 1
             want == IF remaining > ChunkSize THEN ChunkSize ELSE remaining
             f(n) == [kind |-> "data", start |-> offset[i], len |-> n,
                      data |-> IF disk[i] = "changed" THEN "bad" ELSE "good"]
  <2>1. PICK n \in 1 .. want :
          /\ chan' = [chan EXCEPT ![i] = Append(@, f(n))]
          /\ offset' = [offset EXCEPT ![i] = @ + n]
          /\ srv' = [srv EXCEPT ![i] = IF n = remaining THEN "closed" ELSE "send"]
    BY <1>6 DEF Send
  <2>2. /\ offset[i] \in 0 .. Size /\ n \in 0 .. Size
        /\ offset[i] + n \in 0 .. Size
    BY <1>1, SegmentBounds, SizesAssumption
  <2>3. f(n) \in Frame
    BY <2>2 DEF Frame
  <2> HIDE DEF f, remaining
  <2>4. Append(chan[i], f(n)) \in Seq(Frame)
    BY <1>1, <2>3, ChanAdd
  <2>5. disk' = disk
    BY <1>6 DEF Send
  <2>6. PeerTypeOK'
    BY <1>1, <2>1, <2>2, <2>4, <2>5 DEF PeerTypeOK
  <2> QED
    BY <1>3, <1>6, <2>6, PeerMoves DEF Send
<1>7. CASE ErrorReply(i)
  <2>1. ErrorFrame \in Frame
    BY SizesAssumption DEF ErrorFrame, Frame
  <2>2. Append(chan[i], ErrorFrame) \in Seq(Frame)
    BY <1>1, <2>1, ChanAdd
  <2>3. PeerTypeOK'
    BY <1>1, <1>7, <2>2 DEF ErrorReply, PeerTypeOK
  <2> QED
    BY <1>3, <1>7, <2>3, PeerMoves DEF ErrorReply
<1>8. CASE Hangup(i)
  <2>1. PICK n \in 0 .. Len(chan[i]) :
          chan' = [chan EXCEPT ![i] = SubSeq(@, 1, n)]
    BY <1>8 DEF Hangup
  <2>2. SubSeq(chan[i], 1, n) \in Seq(Frame)
    BY <1>1, ChanLose
  <2>3. PeerTypeOK'
    BY <1>1, <1>8, <2>1, <2>2 DEF Hangup, PeerTypeOK
  <2> QED
    BY <1>3, <1>8, <2>3, PeerMoves DEF Hangup
<1>9. CASE Edit(i) \/ Delete(i)
  <2>1. PeerTypeOK'
    BY <1>1, <1>9 DEF Edit, Delete, PeerTypeOK
  <2>2. HistTypeOK'
    BY <1>2, <1>9 DEF Edit, Delete, HistTypeOK, histVars
  <2> QED
    BY <1>9, <2>1, <2>2, PeerMoves DEF Edit, Delete
<1> QED
  BY <1>4, <1>5, <1>6, <1>7, <1>8, <1>9 DEF ServeStep

LEMMA SharedClient ==
  ASSUME SharedInv, Unplug \/ Replug \/ Crash
  PROVE  SharedInv'
<1> USE ActiveType, SizesAssumption
    DEF SharedInv, TypeOK, MainTypeOK, ThreadTypeOK, FileTypeOK, PeerTypeOK,
        HistTypeOK, ThreadsInv, Writing, Live, Segs,
        mainVars, threadVars, fileVars, peerVars, histVars
<1>1. CASE Unplug
  BY <1>1 DEF Unplug
<1>2. CASE Replug
  BY <1>2 DEF Replug
<1>3. CASE Crash
  <2>1. failed' \in BOOLEAN /\ fdOpen' \in BOOLEAN /\ stranded' \in BOOLEAN
    BY <1>3, Zenon DEF Crash
  <2>2. MainTypeOK' /\ ThreadTypeOK'
    BY <1>3, <2>1 DEF Crash
  <2>3. FileTypeOK' /\ PeerTypeOK' /\ HistTypeOK'
    BY <1>3, <2>1 DEF Crash
  <2>4. ThreadsInv' /\ ~Writing'
    BY <1>3 DEF Crash
  <2> QED
    BY <2>2, <2>3, <2>4
<1> QED
  BY <1>1, <1>2, <1>3

(* SharedInv is inductive.                                                 *)
LEMMA SharedNext == SharedInv /\ [Next]_vars => SharedInv'
<1> SUFFICES ASSUME SharedInv, [Next]_vars
             PROVE  SharedInv'
  OBVIOUS
<1>1. CASE Begin \/ Refuse \/ MainStep
  BY <1>1, SharedMain
<1>2. ASSUME NEW i \in Segs, ThreadStep(i)
      PROVE  SharedInv'
  BY <1>2, SharedThread
<1>3. ASSUME NEW i \in Segs,
             ServeStep(i) \/ Hangup(i) \/ Edit(i) \/ Delete(i)
      PROVE  SharedInv'
  BY <1>3, SharedServe
<1>4. CASE Unplug \/ Replug \/ Crash
  BY <1>4, SharedClient
<1>5. CASE UNCHANGED vars
  BY <1>5, SharedStutter
<1> QED
  BY <1>1, <1>2, <1>3, <1>4, <1>5 DEF Next, Environment

LEMMA SharedAlways == Spec => []SharedInv
<1>1. Init => SharedInv
  BY SharedInit
<1>2. SharedInv /\ [Next]_vars => SharedInv'
  BY SharedNext
<1> QED
  BY <1>1, <1>2, PTL DEF Spec

(* The variables keep their types.                                         *)
THEOREM TypeCorrect == Spec => []TypeOK
<1>1. SharedInv => TypeOK
  BY DEF SharedInv
<1> QED
  BY <1>1, SharedAlways, PTL

(* Whatever the order in which segments end, fail or never start, the      *)
(* descriptor of the .part file is closed only after the last thread that  *)
(* writes to it is gone.                                                   *)
THEOREM NoLateWriter == Spec => []NoWriterAfterClose
<1>1. SharedInv => NoWriterAfterClose
  BY DEF SharedInv, ThreadsInv, NoWriterAfterClose, Live
<1> QED
  BY <1>1, SharedAlways, PTL

-----------------------------------------------------------------------------
(* What is in flight. *)

LEMMA StreamInit == Init => StreamInv
BY DEF Init, StreamInv, Stream, FrameOK, Unused

(* Steps that leave connection i alone keep its invariant.                 *)
LEMMA StreamFrame ==
  ASSUME NEW i \in Segs, Stream(i),
         main' # "idle" => main # "idle",
         rcv'[i] = rcv[i], received'[i] = received[i], srv'[i] = srv[i],
         offset'[i] = offset[i], chan'[i] = chan[i], disk'[i] = disk[i],
         raced'[i] = raced[i]
  PROVE  Stream(i)'
BY DEF Stream, FrameOK, EndOf, Unused

LEMMA StreamMain ==
  ASSUME SharedInv, StreamInv, Begin \/ Refuse \/ MainStep
  PROVE  StreamInv'
<1> SUFFICES ASSUME NEW i \in Segs
             PROVE  Stream(i)'
  BY DEF StreamInv
<1>1. Stream(i)
  BY DEF StreamInv
<1>2. CASE Begin
  BY <1>2 DEF Begin, Stream, Unused
<1>3. CASE Spawn
  <2>1. /\ rcv \in [Segs -> {"none", "connect", "request", "receive", "exited"}]
        /\ started \in Nat /\ main = "spawn"
        /\ rcv[i] # "none" => i < started
    BY <1>3, ActiveType
    DEF Spawn, SharedInv, TypeOK, ThreadTypeOK, MainTypeOK, ThreadsInv
  <2>2. rcv'[i] = IF i = started THEN "connect" ELSE rcv[i]
    BY <1>3, <2>1 DEF Spawn
  <2>3. UNCHANGED <<received, srv, offset, chan, disk, raced>>
    BY <1>3 DEF Spawn, peerVars, histVars
  <2>4. CASE i = started
    <3>1. rcv[i] = "none" /\ srv[i] = "none" /\ Unused(i)
      BY <1>1, <2>1, <2>4, ActiveType DEF Stream
    <3> QED
      BY <1>1, <2>2, <2>3, <2>4, <3>1 DEF Stream, FrameOK, Unused
  <2>5. CASE i # started
    BY <1>1, <2>1, <2>2, <2>3, <2>5, StreamFrame
  <2> QED
    BY <2>4, <2>5
<1>4. CASE Refuse \/ OpenPartial \/ OpenFails \/ SetSize \/ SpawnFails \/ Join
           \/ Verdict \/ Sync \/ Close \/ Rename \/ FileCallFails \/ Return
           \/ Cleanup
  <2>1. main' # "idle" => main # "idle"
    BY <1>4 DEF Refuse, OpenPartial, OpenFails, SetSize, SpawnFails, Join,
         Verdict, Sync, Close, Rename, FileCallFails, Return, Cleanup
  <2>2. UNCHANGED <<rcv, received, srv, offset, chan, disk, raced>>
    BY <1>4 DEF Refuse, OpenPartial, OpenFails, SetSize, SpawnFails, Join,
         Verdict, Sync, Close, Rename, FileCallFails, Return, Cleanup,
         threadVars, peerVars, histVars
  <2> QED
    BY <1>1, <2>1, <2>2, StreamFrame
<1> QED
  BY <1>2, <1>3, <1>4 DEF MainStep

LEMMA StreamClient ==
  ASSUME SharedInv, StreamInv, Unplug \/ Replug \/ Crash
  PROVE  StreamInv'
<1> SUFFICES ASSUME NEW i \in Segs
             PROVE  Stream(i)'
  BY DEF StreamInv
<1>1. Stream(i)
  BY DEF StreamInv
<1>2. CASE Unplug \/ Replug
  BY <1>1, <1>2, StreamFrame
  DEF Unplug, Replug, mainVars, threadVars, peerVars, histVars
<1>3. CASE Crash
  BY <1>1, <1>3 DEF Crash, Stream, FrameOK, peerVars
<1> QED
  BY <1>2, <1>3

LEMMA StreamThread ==
  ASSUME SharedInv, StreamInv, NEW j \in Segs, ThreadStep(j)
  PROVE  StreamInv'
<1> SUFFICES ASSUME NEW i \in Segs
             PROVE  Stream(i)'
  BY DEF StreamInv
<1>1. Stream(i)
  BY DEF StreamInv
<1>2. /\ PeerTypeOK
      /\ rcv \in [Segs -> {"none", "connect", "request", "receive", "exited"}]
      /\ received \in [Segs -> 0 .. Size]
      /\ chan \in [Segs -> Seq(Frame)]
      /\ srv \in [Segs -> {"none", "wait", "find", "validate", "open", "send",
                           "error", "closed"}]
  BY DEF SharedInv, TypeOK, ThreadTypeOK, PeerTypeOK
<1>3. main' = main /\ UNCHANGED <<offset, disk, raced>>
  BY DEF ThreadStep, Connect, Request, ContactFails, Receive, WriteFails,
         Reject, Eof, mainVars, peerVars, histVars
<1>4. CASE i # j
  <2>1. /\ rcv'[i] = rcv[i] /\ received'[i] = received[i]
        /\ srv'[i] = srv[i] /\ chan'[i] = chan[i]
    BY <1>2, <1>4
    DEF ThreadStep, Connect, Request, ContactFails, Receive, WriteFails,
        Reject, Eof, ExitFailed, Exit, mainVars, threadVars, peerVars
  <2> QED
    BY <1>1, <1>3, <2>1, StreamFrame
<1>5. CASE i = j
  <2>1. CASE Connect(i)
    <3>1. rcv[i] = "connect" /\ main # "idle"
      BY <2>1, LiveWhileJoining DEF Connect, Live
    <3>2. /\ rcv'[i] = "request" /\ srv'[i] = "wait"
          /\ received' = received /\ chan' = chan
      BY <1>2, <2>1 DEF Connect
    <3> QED
      BY <1>1, <1>3, <3>1, <3>2 DEF Stream, FrameOK, Unused
  <2>2. CASE Request(i)
    <3>1. /\ rcv[i] = "request" /\ rcv'[i] = "receive"
          /\ srv'[i] = IF srv[i] = "wait" THEN "find" ELSE srv[i]
          /\ received' = received /\ chan' = chan
      BY <1>2, <2>2 DEF Request
    <3>2. srv[i] \in {"wait", "closed"} /\ chan[i] = <<>> /\ received[i] = 0
      BY <1>1, <3>1 DEF Stream, Unused
    <3> QED
      BY <1>1, <1>3, <3>1, <3>2 DEF Stream, FrameOK
  <2>3. CASE ContactFails(i) \/ Eof(i)
    <3>1. /\ rcv'[i] = "exited" /\ srv' = srv
          /\ received' = received /\ chan' = chan
      BY <1>2, <2>3 DEF ContactFails, Eof, ExitFailed, Exit, peerVars
    <3> QED
      BY <1>1, <1>3, <3>1 DEF Stream, FrameOK
  <2>4. CASE Receive(i) \/ WriteFails(i) \/ Reject(i)
    <3>1. /\ chan[i] # <<>> /\ rcv[i] = "receive" /\ srv' = srv
          /\ chan'[i] = Tail(chan[i])
      BY <1>2, <2>4 DEF Receive, WriteFails, Reject
    <3>2. /\ Len(chan[i]) \in Nat \ {0}
          /\ Len(chan'[i]) = Len(chan[i]) - 1
          /\ \A k \in 1 .. Len(chan'[i]) : chan'[i][k] = chan[i][k + 1]
          /\ Head(chan[i]) = chan[i][1] /\ Head(chan[i]) \in Frame
      BY <1>2, <3>1, ChanTake
    <3>3. (\A k \in 1 .. Len(chan[i]) : FrameOK(i, chan[i][k]))'
      <4> SUFFICES ASSUME NEW k \in 1 .. Len(chan'[i])
                   PROVE  FrameOK(i, chan[i][k])'
        OBVIOUS
      <4>1. k + 1 \in 1 .. Len(chan[i]) /\ chan'[i][k] = chan[i][k + 1]
        BY <3>2
      <4>2. FrameOK(i, chan[i][k + 1])
        BY <1>1, <4>1 DEF Stream
      <4> QED
        BY <1>3, <4>1, <4>2 DEF FrameOK
    <3>4. srv[i] \notin {"wait", "find", "validate", "open"}
      BY <1>1, <3>1 DEF Stream
    <3>5. CASE Receive(i)
      <4>1. /\ chan[i][1].kind = "data"
            /\ chan[i][1].start = First(i) + received[i]
        BY <3>2, <3>5 DEF Receive, Accepts
      <4>2. /\ received'[i] = received[i] + chan[i][1].len
            /\ rcv'[i] \in {"receive", "exited"}
        BY <1>2, <3>2, <3>5 DEF Receive
      <4>3. /\ First(i) \in Nat /\ received[i] \in Nat
            /\ chan[i][1].len \in Nat
        BY <1>2, <3>2, SegmentBounds DEF Frame
      <4>4. EndOf(i, 0)' = EndOf(i, 1)
        BY <4>1, <4>2, <4>3 DEF EndOf
      <4>5. \A k \in 0 .. Len(chan'[i]) : EndOf(i, k)' = EndOf(i, k + 1)
        BY <3>2, <4>4 DEF EndOf
      <4>6. \A k \in 1 .. Len(chan'[i]) :
              chan'[i][k].kind = "data" => chan'[i][k].start = EndOf(i, k - 1)'
        <5> SUFFICES ASSUME NEW k \in 1 .. Len(chan'[i]),
                            chan'[i][k].kind = "data"
                     PROVE  chan'[i][k].start = EndOf(i, k - 1)'
          OBVIOUS
        <5>1. k + 1 \in 1 .. Len(chan[i]) /\ k - 1 \in 0 .. Len(chan'[i])
          BY <3>2
        <5>2. chan[i][k + 1].start = EndOf(i, (k + 1) - 1)
          BY <1>1, <3>1, <3>2, <5>1 DEF Stream
        <5>3. (k + 1) - 1 = (k - 1) + 1
          OBVIOUS
        <5> QED
          BY <3>2, <4>5, <5>1, <5>2, <5>3
      <4>7. (srv[i] = "send" => offset[i] = EndOf(i, Len(chan[i])))'
        <5> SUFFICES ASSUME srv[i] = "send"
                     PROVE  offset[i] = EndOf(i, Len(chan[i]))'
          BY <1>3, <3>1
        <5>1. offset[i] = EndOf(i, Len(chan[i]))
          BY <1>1, <3>1 DEF Stream
        <5>2. CASE Len(chan[i]) = 1
          BY <3>2, <4>4, <5>1, <5>2 DEF EndOf
        <5>3. CASE Len(chan[i]) # 1
          <6>1. /\ Len(chan'[i]) \in 1 .. Len(chan'[i])
                /\ Len(chan'[i]) # 0 /\ Len(chan[i]) # 0
                /\ Len(chan'[i]) + 1 = Len(chan[i])
            <7>1. \A m \in Nat \ {0} : \A n :
                    n = m - 1 /\ m # 1 => n \in 1 .. n /\ n # 0 /\ m # 0 /\ n + 1 = m
              OBVIOUS
            <7> QED
              BY ONLY <3>2, <5>3, <7>1, Zenon
          <6>2. chan'[i][Len(chan'[i])] = chan[i][Len(chan'[i]) + 1]
            BY ONLY <3>2, <6>1, Zenon
          <6> QED
            BY <5>1, <6>1, <6>2 DEF EndOf
        <5> QED
          BY <5>2, <5>3
      <4> QED
        BY <1>1, <1>3, <3>1, <3>3, <3>4, <4>2, <4>6, <4>7 DEF Stream
    <3>6. CASE WriteFails(i) \/ Reject(i)
      <4>1. rcv'[i] = "exited"
        BY <1>2, <3>6 DEF WriteFails, Reject, ExitFailed, Exit
      <4> QED
        BY <1>1, <1>3, <3>1, <3>3, <3>4, <4>1 DEF Stream
    <3> QED
      BY <2>4, <3>5, <3>6
  <2> QED
    BY <1>5, <2>1, <2>2, <2>3, <2>4 DEF ThreadStep
<1> QED
  BY <1>4, <1>5

LEMMA StreamServe ==
  ASSUME SharedInv, StreamInv, NEW j \in Segs,
         ServeStep(j) \/ Hangup(j) \/ Edit(j) \/ Delete(j)
  PROVE  StreamInv'
<1> SUFFICES ASSUME NEW i \in Segs
             PROVE  Stream(i)'
  BY DEF StreamInv
<1>1. Stream(i)
  BY DEF StreamInv
<1>2. /\ PeerTypeOK
      /\ rcv \in [Segs -> {"none", "connect", "request", "receive", "exited"}]
      /\ received \in [Segs -> 0 .. Size]
      /\ offset \in [Segs -> 0 .. Size]
      /\ chan \in [Segs -> Seq(Frame)]
      /\ disk \in [Segs -> {"match", "changed", "gone"}]
      /\ raced \in [Segs -> BOOLEAN]
      /\ srv \in [Segs -> {"none", "wait", "find", "validate", "open", "send",
                           "error", "closed"}]
  BY DEF SharedInv, TypeOK, ThreadTypeOK, PeerTypeOK, HistTypeOK
<1>3. UNCHANGED <<main, rcv, received>>
  BY DEF ServeStep, Find, Validate, Open, Send, ServeFails, ErrorReply,
         Hangup, Edit, Delete, mainVars, threadVars
<1>4. CASE i # j
  <2>1. /\ srv'[i] = srv[i] /\ chan'[i] = chan[i] /\ offset'[i] = offset[i]
        /\ disk'[i] = disk[i] /\ raced'[i] = raced[i]
    BY <1>2, <1>4
    DEF ServeStep, Find, Validate, Open, Send, ServeFails, ErrorReply,
        Hangup, Edit, Delete, peerVars, histVars
  <2> QED
    BY <1>1, <1>3, <2>1, StreamFrame
<1>5. CASE i = j
  <2>1. CASE Find(i) \/ Validate(i) \/ ServeFails(i)
    <3>1. /\ UNCHANGED <<offset, chan, disk, raced>>
          /\ srv[i] \in {"find", "validate", "open", "send"}
          /\ srv'[i] \in {"validate", "open", "error"}
          /\ srv'[i] \in {"validate", "open"} =>
               disk[i] = "match" /\ srv[i] \in {"find", "validate"}
      BY <1>2, <2>1 DEF Find, Validate, ServeFails, histVars
    <3> QED
      BY <1>1, <1>3, <3>1 DEF Stream, FrameOK, EndOf, Unused
  <2>2. CASE Open(i)
    <3>1. /\ UNCHANGED <<chan, disk, raced>>
          /\ srv[i] = "open" /\ srv'[i] = "send"
          /\ offset'[i] = First(i)
      BY <1>2, <2>2 DEF Open, histVars
    <3>2. chan[i] = <<>> /\ (rcv[i] = "receive" => received[i] = 0)
      BY <1>1, <3>1 DEF Stream
    <3>3. First(i) \in First(i) .. Last(i) /\ First(i) + 0 = First(i)
      BY SegmentBounds
    <3>4. rcv[i] = "receive" => offset'[i] = EndOf(i, Len(chan[i]))'
      BY <1>3, <3>1, <3>2, <3>3 DEF EndOf
    <3> QED
      BY <1>1, <1>3, <3>1, <3>2, <3>3, <3>4 DEF Stream, FrameOK
  <2>3. CASE Send(i)
    <3> DEFINE remaining == Last(i) - offset[i] + 1
               want == IF remaining > ChunkSize THEN ChunkSize ELSE remaining
               f(n) == [kind |-> "data", start |-> offset[i], len |-> n,
                        data |-> IF disk[i] = "changed" THEN "bad" ELSE "good"]
    <3>1. PICK n \in 1 .. want :
            /\ chan' = [chan EXCEPT ![i] = Append(@, f(n))]
            /\ offset' = [offset EXCEPT ![i] = @ + n]
            /\ srv' = [srv EXCEPT ![i] =
                         IF n = remaining THEN "closed" ELSE "send"]
      BY <2>3 DEF Send
    <3>2. srv[i] = "send" /\ disk' = disk /\ raced' = raced
      BY <2>3 DEF Send, histVars
    <3>3. offset[i] \in First(i) .. Last(i) /\ First(i) \in Nat /\ Last(i) \in Nat
      BY <1>1, <3>2, SegmentBounds DEF Stream
    <3>4. /\ n \in 1 .. ChunkSize /\ n <= remaining
          /\ offset'[i] = offset[i] + n
          /\ srv'[i] = IF n = remaining THEN "closed" ELSE "send"
          /\ chan'[i] = Append(chan[i], f(n))
      BY <1>2, <3>1, <3>3, SizesAssumption
    <3>5. n # remaining => offset'[i] \in First(i) .. Last(i)
      BY <3>3, <3>4
    <3>6. FrameOK(i, f(n))
      <4>1. f(n).data = "bad" => raced[i]
        BY <1>1, <3>2 DEF Stream
      <4> QED
        BY <3>3, <3>4, <4>1 DEF FrameOK
    <3>7. f(n) \in Frame /\ f(n).start = offset[i] /\ f(n).len = n
      BY <1>2, <3>3, <3>4, SegmentBounds, SizesAssumption DEF Frame
    <3> DEFINE len == Len(chan[i])
    <3>8. /\ len \in Nat /\ Len(chan'[i]) = len + 1
          /\ \A k \in 1 .. len : chan'[i][k] = chan[i][k]
          /\ chan'[i][len + 1] = f(n)
      BY <1>2, <3>4, <3>7, ChanAdd
    <3> HIDE DEF f, remaining, want, len
    <3>9. (\A k \in 1 .. Len(chan[i]) : FrameOK(i, chan[i][k]))'
      <4> SUFFICES ASSUME NEW k \in 1 .. len + 1
                   PROVE  FrameOK(i, chan[i][k])'
        BY <3>8
      <4>1. CASE k = len + 1
        BY <3>2, <3>6, <3>8, <4>1 DEF FrameOK
      <4>2. CASE k # len + 1
        <5>1. k \in 1 .. len
          BY <3>8, <4>2
        <5> QED
          BY <1>1, <3>2, <3>8, <5>1 DEF Stream, FrameOK, len
      <4> QED
        BY <4>1, <4>2
    <3>10. ASSUME rcv[i] = "receive"
           PROVE  (\A k \in 1 .. Len(chan[i]) :
                    chan[i][k].kind = "data" =>
                      chan[i][k].start = EndOf(i, k - 1))'
      <4> SUFFICES ASSUME NEW k \in 1 .. len + 1, chan'[i][k].kind = "data"
                   PROVE  chan'[i][k].start = EndOf(i, k - 1)'
        BY <3>8
      <4>1. EndOf(i, k - 1)' = EndOf(i, k - 1)
        <5>1. k - 1 = 0 \/ k - 1 \in 1 .. len
          BY <3>8
        <5> QED
          BY <1>3, <3>8, <5>1 DEF EndOf
      <4>2. CASE k = len + 1
        <5>1. offset[i] = EndOf(i, len)
          BY <1>1, <3>2, <3>10 DEF Stream, len
        <5>2. k - 1 = len
          BY <3>8, <4>2
        <5> QED
          BY <3>7, <3>8, <4>1, <4>2, <5>1, <5>2
      <4>3. CASE k # len + 1
        <5>1. k \in 1 .. len
          BY <3>8, <4>3
        <5>2. chan[i][k].kind = "data" => chan[i][k].start = EndOf(i, k - 1)
          BY <1>1, <3>10, <5>1 DEF Stream, len
        <5> QED
          BY <3>8, <4>1, <5>1, <5>2
      <4> QED
        BY <4>2, <4>3
    <3>11. offset'[i] = EndOf(i, Len(chan[i]))'
      BY <3>4, <3>7, <3>8 DEF EndOf
    <3>12. srv'[i] \in {"send", "closed"} /\ (srv'[i] = "send" => n # remaining)
      BY <3>4
    <3> QED
      BY <1>1, <1>3, <3>2, <3>5, <3>9, <3>10, <3>11, <3>12 DEF Stream
  <2>4. CASE ErrorReply(i)
    <3>1. /\ UNCHANGED <<offset, disk, raced>>
          /\ srv[i] = "error" /\ srv'[i] = "closed"
          /\ chan'[i] = Append(chan[i], ErrorFrame)
      BY <1>2, <2>4 DEF ErrorReply, histVars
    <3>2. ErrorFrame \in Frame /\ ErrorFrame.kind = "error"
      BY SizesAssumption DEF ErrorFrame, Frame
    <3> DEFINE len == Len(chan[i])
    <3>3. /\ len \in Nat /\ Len(chan'[i]) = len + 1
          /\ \A k \in 1 .. len : chan'[i][k] = chan[i][k]
          /\ chan'[i][len + 1].kind = "error"
      BY <1>2, <3>1, <3>2, ChanAdd
    <3> HIDE DEF len
    <3>4. rcv[i] \notin {"connect", "request"} /\ (main = "idle" \/ rcv[i] # "none")
      <4>1. rcv[i] = "connect" => main # "idle"
        BY LiveWhileJoining DEF Live
      <4> QED
        BY <1>1, <3>1, <4>1 DEF Stream
    <3>5. (\A k \in 1 .. Len(chan[i]) : FrameOK(i, chan[i][k]))'
      <4> SUFFICES ASSUME NEW k \in 1 .. len + 1, chan'[i][k].kind = "data"
                   PROVE  FrameOK(i, chan[i][k])'
        BY <3>3 DEF FrameOK
      <4>1. k \in 1 .. len
        BY <3>3
      <4> QED
        BY <1>1, <3>1, <3>3, <4>1 DEF Stream, FrameOK, len
    <3>6. ASSUME rcv[i] = "receive"
          PROVE  (\A k \in 1 .. Len(chan[i]) :
                    chan[i][k].kind = "data" =>
                      chan[i][k].start = EndOf(i, k - 1))'
      <4> SUFFICES ASSUME NEW k \in 1 .. len + 1, chan'[i][k].kind = "data"
                   PROVE  chan'[i][k].start = EndOf(i, k - 1)'
        BY <3>3
      <4>1. k \in 1 .. len /\ (k - 1 = 0 \/ k - 1 \in 1 .. len)
        BY <3>3
      <4>2. EndOf(i, k - 1)' = EndOf(i, k - 1)
        BY <1>3, <3>3, <4>1 DEF EndOf
      <4>3. chan[i][k].kind = "data" => chan[i][k].start = EndOf(i, k - 1)
        BY <1>1, <3>6, <4>1 DEF Stream, len
      <4> QED
        BY <3>3, <4>1, <4>2, <4>3
    <3> QED
      BY <1>1, <1>3, <3>1, <3>4, <3>5, <3>6 DEF Stream
  <2>5. CASE Hangup(i)
    <3>1. PICK n \in 0 .. Len(chan[i]) :
            chan' = [chan EXCEPT ![i] = SubSeq(@, 1, n)]
      BY <2>5 DEF Hangup
    <3>2. /\ UNCHANGED <<offset, disk, raced>>
          /\ srv[i] # "none" /\ srv'[i] = "closed"
          /\ chan'[i] = SubSeq(chan[i], 1, n)
      BY <1>2, <2>5, <3>1 DEF Hangup, histVars
    <3>3. /\ Len(chan'[i]) = n
          /\ \A k \in 1 .. n : chan'[i][k] = chan[i][k] /\ k \in 1 .. Len(chan[i])
          /\ chan[i] = <<>> => chan'[i] = <<>>
      <4>1. chan[i] \in Seq(Frame) /\ chan'[i] \in Seq(Frame)
        BY <1>2, <3>2, ChanLose
      <4>2. /\ Len(chan'[i]) = n
            /\ \A k \in 1 .. n : chan'[i][k] = chan[i][k]
        BY <1>2, <3>2, ChanLose
      <4>3. Len(chan[i]) \in Nat
        BY <4>1, LenProperties
      <4>4. chan[i] = <<>> => n = 0
        BY <4>3
      <4>5. n = 0 => chan'[i] = <<>>
        BY <4>1, <4>2, EmptySeq
      <4> QED
        BY <4>2, <4>3, <4>4, <4>5
    <3>4. (\A k \in 1 .. Len(chan[i]) : FrameOK(i, chan[i][k]))'
      BY <1>1, <3>2, <3>3 DEF Stream, FrameOK
    <3>5. ASSUME rcv[i] = "receive"
          PROVE  (\A k \in 1 .. Len(chan[i]) :
                    chan[i][k].kind = "data" =>
                      chan[i][k].start = EndOf(i, k - 1))'
      <4> SUFFICES ASSUME NEW k \in 1 .. n, chan'[i][k].kind = "data"
                   PROVE  chan'[i][k].start = EndOf(i, k - 1)'
        BY <3>3
      <4>1. k - 1 = 0 \/ k - 1 \in 1 .. n
        OBVIOUS
      <4>2. EndOf(i, k - 1)' = EndOf(i, k - 1)
        BY <1>3, <3>3, <4>1 DEF EndOf
      <4>3. chan[i][k].kind = "data" => chan[i][k].start = EndOf(i, k - 1)
        BY <1>1, <3>3, <3>5 DEF Stream
      <4> QED
        BY <3>3, <4>2, <4>3
    <3>6. /\ main # "idle" => rcv[i] \notin {"none", "connect"}
          /\ rcv[i] = "request" => Unused(i)'
      BY <1>1, <1>3, <3>2, <3>3 DEF Stream, Unused
    <3> QED
      BY <1>1, <1>3, <3>2, <3>4, <3>5, <3>6 DEF Stream
  <2>6. CASE Edit(i) \/ Delete(i)
    <3>1. /\ UNCHANGED <<srv, offset, chan>>
          /\ disk'[i] = "changed" /\ srv[i] \in {"open", "send"} => raced'[i]
          /\ raced[i] => raced'[i]
      BY <1>2, <2>6 DEF Edit, Delete, histVars
    <3> QED
      BY <1>1, <1>3, <3>1 DEF Stream, FrameOK, EndOf, Unused
  <2> QED
    BY <1>5, <2>1, <2>2, <2>3, <2>4, <2>5, <2>6 DEF ServeStep
<1> QED
  BY <1>4, <1>5

-----------------------------------------------------------------------------
(* What is in the files. *)

LEMMA BytesInit == Init => BytesInv
BY SegmentBounds DEF Init, SegLen, BytesInv, Writing, InstalledIsWhole, OnlyRacedPeersCorrupt

(* Steps that write no byte keep what is known about the bytes.            *)
LEMMA BytesFrame ==
  ASSUME SharedInv, BytesInv,
         Writing' => Writing /\ partial' = partial,
         UNCHANGED <<received, final>>,
         \A i \in Segs : rcv'[i] # rcv[i] =>
           rcv'[i] \in {"none", "connect", "request"} \/ (rcv'[i] = "exited" /\ failed')
             \/ (rcv'[i] = "receive" /\ received[i] = 0),
         (failed /\ ~failed') => \A i \in Segs : rcv'[i] = "none",
         \A i \in Segs : raced[i] => raced'[i]
  PROVE  BytesInv'
<1>1. ASSUME Writing', NEW i \in Segs
      PROVE  Written(i)'
  BY <1>1 DEF BytesInv, Written
<1>2. ASSUME NEW i \in Segs
      PROVE  /\ received'[i] <= SegLen(i)
             /\ rcv'[i] = "receive" => received'[i] < SegLen(i)
             /\ rcv'[i] = "exited" /\ ~failed' => received'[i] = SegLen(i)
  <2>1. 0 < SegLen(i)
    BY SegmentBounds DEF SegLen
  <2>2. CASE rcv'[i] = rcv[i]
    BY <2>2 DEF BytesInv
  <2>3. CASE rcv'[i] # rcv[i]
    BY <2>1, <2>3 DEF BytesInv
  <2> QED
    BY <2>2, <2>3
<1>3. InstalledIsWhole'
  BY DEF BytesInv, InstalledIsWhole
<1>4. OnlyRacedPeersCorrupt'
  BY DEF BytesInv, OnlyRacedPeersCorrupt
<1> QED
  BY <1>1, <1>2, <1>3, <1>4 DEF BytesInv, SegLen

LEMMA BytesMain ==
  ASSUME SharedInv, StreamInv, BytesInv, Begin \/ Refuse \/ MainStep
  PROVE  BytesInv'
<1>1. CASE Begin
  <2>1. \A i \in Segs : received'[i] = 0 /\ rcv'[i] = "none" /\ 0 <= SegLen(i)
    BY <1>1, SegmentBounds DEF Begin, SegLen
  <2>2. ~Writing' /\ UNCHANGED <<final, raced>>
    BY <1>1 DEF Begin, Writing, fileVars
  <2> QED
    BY <2>1, <2>2
    DEF BytesInv, InstalledIsWhole, OnlyRacedPeersCorrupt, SegLen
<1>2. CASE SetSize
  <2>1. \A i \in Segs : received[i] = 0
    BY <1>2 DEF SetSize, SharedInv, ThreadsInv, StreamInv, Stream, Unused, Segs
  <2>2. UNCHANGED <<rcv, received, failed, raced, final>>
    BY <1>2 DEF SetSize, threadVars, histVars
  <2>3. ASSUME NEW i \in Segs
        PROVE  Written(i)'
    <3>1. \A b \in First(i) .. Last(i) : partial'[b] = Hole
      BY <1>2, SegmentBytes DEF SetSize
    <3>2. \A b \in First(i) .. First(i) + received'[i] - 1 : FALSE
      BY <2>1, <2>2, SegmentBounds
    <3> QED
      BY <3>1, <3>2 DEF Written, Hole
  <2> QED
    BY <2>2, <2>3
    DEF BytesInv, InstalledIsWhole, OnlyRacedPeersCorrupt, SegLen
<1>3. CASE Spawn
  <2>1. \A i \in Segs : rcv'[i] # rcv[i] => rcv'[i] = "connect"
    BY <1>3 DEF Spawn, SharedInv, TypeOK, ThreadTypeOK
  <2> QED
    BY <1>3, <2>1, BytesFrame DEF Spawn, Writing, fileVars, histVars
<1>4. CASE Rename
  <2>1. /\ partial \in Contents /\ Writing
        /\ \A i \in Segs : rcv[i] = "exited" /\ ~failed
    <3>1. \A i \in Segs : i < Active
      BY ActiveType DEF Segs
    <3> QED
      BY <1>4, <3>1 DEF Rename, SharedInv, ThreadsInv, Writing
  <2>2. final' = partial /\ UNCHANGED <<rcv, received, failed, raced>> /\ ~Writing'
    BY <1>4 DEF Rename, Writing, threadVars, histVars
  <2>3. \A i \in Segs : Written(i) /\ received[i] = SegLen(i)
    BY <2>1 DEF BytesInv
  <2>4. InstalledIsWhole'
    <3> SUFFICES ASSUME NEW b \in Bytes
                 PROVE  partial[b] # Hole
      BY <2>2 DEF InstalledIsWhole
    <3>1. PICK i \in Segs : b \in First(i) .. Last(i)
      BY SegmentsCover
    <3>2. b \in First(i) .. First(i) + received[i] - 1
      BY <2>3, <3>1, SegmentBounds DEF SegLen
    <3> QED
      BY <2>3, <3>2 DEF Written
  <2>5. OnlyRacedPeersCorrupt'
    BY <2>2, <2>3 DEF OnlyRacedPeersCorrupt, Written
  <2> QED
    BY <2>2, <2>4, <2>5 DEF BytesInv, SegLen
<1>5. CASE Refuse \/ OpenPartial \/ OpenFails \/ SpawnFails \/ Join \/ Verdict
           \/ Sync \/ Close \/ FileCallFails \/ Return \/ Cleanup
  <2>1. /\ UNCHANGED <<rcv, received, final, raced>>
        /\ failed => failed'
        /\ Writing' => Writing /\ partial' = partial
    BY <1>5
    DEF Refuse, OpenPartial, OpenFails, SpawnFails, Join, Verdict, Sync, Close,
        FileCallFails, Return, Cleanup, Writing, threadVars, fileVars, histVars
  <2> QED
    BY <2>1, BytesFrame
<1> QED
  BY <1>1, <1>2, <1>3, <1>4, <1>5 DEF MainStep

LEMMA BytesOther ==
  ASSUME SharedInv, BytesInv,
         \/ Unplug \/ Replug \/ Crash
         \/ \E j \in Segs : ServeStep(j) \/ Hangup(j) \/ Edit(j) \/ Delete(j)
  PROVE  BytesInv'
<1>1. CASE Crash
  <2>1. \A i \in Segs : rcv'[i] = "none"
    BY <1>1 DEF Crash
  <2> QED
    BY <1>1, <2>1, BytesFrame DEF Crash, Writing, fileVars
<1>2. CASE Unplug \/ Replug
  BY <1>2, BytesFrame
  DEF Unplug, Replug, Writing, mainVars, threadVars, histVars
<1>3. ASSUME NEW j \in Segs,
             ServeStep(j) \/ Hangup(j) \/ Edit(j) \/ Delete(j)
      PROVE  BytesInv'
  <2>1. UNCHANGED <<mainVars, threadVars, fileVars>>
    BY <1>3 DEF ServeStep, Find, Validate, Open, Send, ServeFails, ErrorReply,
         Hangup, Edit, Delete
  <2>2. raced \in [Segs -> BOOLEAN]
    BY DEF SharedInv, TypeOK, HistTypeOK
  <2>3. \A i \in Segs : raced[i] => raced'[i]
    BY <1>3, <2>2 DEF ServeStep, Find, Validate, Open, Send, ServeFails,
         ErrorReply, Hangup, Edit, Delete, histVars
  <2> QED
    BY <2>1, <2>3, BytesFrame DEF Writing, mainVars, threadVars, fileVars
<1> QED
  BY <1>1, <1>2, <1>3

LEMMA BytesThread ==
  ASSUME SharedInv, StreamInv, BytesInv, NEW j \in Segs, ThreadStep(j)
  PROVE  BytesInv'
<1>1. /\ PeerTypeOK
      /\ rcv \in [Segs -> {"none", "connect", "request", "receive", "exited"}]
      /\ received \in [Segs -> 0 .. Size]
  BY DEF SharedInv, TypeOK, ThreadTypeOK
<1>2. CASE Connect(j) \/ Request(j)
  <2>1. rcv[j] = "request" => received[j] = 0
    BY DEF StreamInv, Stream, Unused
  <2>2. \A i \in Segs : rcv'[i] # rcv[i] =>
           rcv'[i] = "request" \/ (rcv'[i] = "receive" /\ received[i] = 0)
    BY <1>1, <1>2, <2>1 DEF Connect, Request
  <2> QED
    BY <1>2, <2>2, BytesFrame
    DEF Connect, Request, Writing, mainVars, fileVars, histVars
<1>3. CASE ContactFails(j) \/ Reject(j) \/ Eof(j)
  <2>1. \A i \in Segs : rcv'[i] # rcv[i] => rcv'[i] = "exited" /\ failed'
    BY <1>1, <1>3 DEF ContactFails, Reject, Eof, ExitFailed, Exit
  <2> QED
    BY <1>3, <2>1, BytesFrame
    DEF ContactFails, Reject, Eof, ExitFailed, Writing, fileVars, histVars
<1>4. CASE Receive(j) \/ WriteFails(j)
  <2> DEFINE frame == Head(chan[j])
  <2>1. Live(j) /\ Writing /\ partial \in Contents
    BY <1>4, LiveWhileJoining DEF Receive, WriteFails, Live
  <2>2. /\ chan[j] # <<>> /\ frame \in Frame /\ frame = chan[j][1]
        /\ 1 \in 1 .. Len(chan[j])
    BY <1>1, <1>4, ChanTake DEF Receive, WriteFails
  <2>3. FrameOK(j, frame)
    BY <2>2 DEF StreamInv, Stream
  <2>4. Accepts(j, frame) /\ rcv[j] = "receive"
    BY <1>4 DEF Receive, WriteFails
  <2> HIDE DEF frame
  <2>5. /\ frame.len \in Nat /\ frame.start = First(j) + received[j]
        /\ frame.len <= Last(j) - frame.start + 1
        /\ frame.start \in First(j) .. Last(j)
        /\ frame.data \in {"good", "bad"}
        /\ frame.data = "bad" => raced[j]
    BY <2>2, <2>3, <2>4 DEF Accepts, Frame, FrameOK
  <2>6. PICK n \in 0 .. frame.len : Write(frame, n) /\ (Receive(j) => n = frame.len)
    BY <1>4, <2>5 DEF Receive, WriteFails, frame
  <2>7. \A b \in Bytes :
          partial'[b] = IF b \in frame.start .. frame.start + n - 1
                        THEN frame.data ELSE partial[b]
    BY <2>1, <2>2, <2>5, <2>6, WriteEffect
  <2>8. \A b \in frame.start .. frame.start + n - 1 : b \in First(j) .. Last(j)
    BY <2>5, SegmentBounds
  <2>9. UNCHANGED <<final, raced>> /\ Writing'
    BY <1>4, <2>1 DEF Receive, WriteFails, mainVars, histVars, Writing
  <2>10. ASSUME NEW i \in Segs, i # j
         PROVE  Written(i)'
    <3>1. \A b \in First(i) .. Last(i) : b \in Bytes /\ partial'[b] = partial[b]
      <4> SUFFICES ASSUME NEW b \in First(i) .. Last(i)
                   PROVE  b \in Bytes /\ partial'[b] = partial[b]
        OBVIOUS
      <4>1. b \in Bytes
        BY SegmentBytes
      <4>2. b \notin First(j) .. Last(j)
        BY <2>10, SegmentsDisjoint
      <4>3. b \notin frame.start .. frame.start + n - 1
        BY <2>8, <4>2
      <4> QED
        BY <2>7, <4>1, <4>3
    <3>2. received'[i] = received[i] /\ received[i] \in Nat
      BY <1>1, <1>4, <2>10 DEF Receive, WriteFails
    <3>3. received[i] <= SegLen(i)
      BY DEF BytesInv
    <3>4. /\ \A b \in First(i) .. First(i) + received[i] - 1 : partial[b] # Hole
          /\ \A b \in First(i) .. Last(i) : partial[b] = "bad" => raced[i]
      BY <2>1 DEF BytesInv, Written
    <3>5. \A b \in First(i) .. First(i) + received[i] - 1 : b \in First(i) .. Last(i)
      BY <3>2, <3>3, SegmentBounds DEF SegLen
    <3> QED
      BY <2>9, <3>1, <3>2, <3>4, <3>5 DEF Written
  <2>11. /\ received[j] \in Nat /\ received[j] < SegLen(j)
         /\ \A b \in First(j) .. First(j) + received[j] - 1 : partial[b] # Hole
         /\ \A b \in First(j) .. Last(j) : partial[b] = "bad" => raced[j]
    BY <1>1, <2>1, <2>4 DEF BytesInv, Written
  <2>12. \A b \in First(j) .. Last(j) : partial'[b] = "bad" => raced'[j]
    BY <2>5, <2>7, <2>9, <2>11, SegmentBytes
  <2>13. /\ received'[j] <= received[j] + n
         /\ received'[j] \in Nat /\ received'[j] <= SegLen(j)
         /\ rcv'[j] = "receive" => received'[j] < SegLen(j)
         /\ rcv'[j] = "exited" /\ ~failed' => received'[j] = SegLen(j)
    <3>1. CASE Receive(j)
      <4>1. /\ received'[j] = received[j] + frame.len
            /\ rcv'[j] = IF frame.start + frame.len > Last(j)
                        THEN "exited" ELSE "receive"
        BY <1>1, <3>1 DEF Receive, frame
      <4>2. n = frame.len
        BY <2>6, <3>1
      <4> QED
        BY <2>5, <2>11, <4>1, <4>2, SegmentBounds DEF SegLen
    <3>2. CASE WriteFails(j)
      <4>1. received' = received /\ rcv'[j] = "exited" /\ failed'
        BY <1>1, <3>2 DEF WriteFails, ExitFailed, Exit
      <4> QED
        BY <2>5, <2>6, <2>11, <4>1, SegmentBounds DEF SegLen
    <3> QED
      BY <1>4, <3>1, <3>2
  <2>14. Written(j)'
    <3> SUFFICES ASSUME NEW b \in First(j) .. First(j) + received'[j] - 1
                 PROVE  partial'[b] # Hole
      BY <2>12 DEF Written
    <3>1. b \in First(j) .. Last(j) /\ b \in Bytes
      <4>1. b \in First(j) .. Last(j)
        BY <2>13, SegmentBounds DEF SegLen
      <4> QED
        BY <4>1, SegmentBytes
    <3>2. CASE b < First(j) + received[j]
      BY <2>5, <2>7, <2>11, <3>1, <3>2, SegmentBounds DEF Hole
    <3>3. CASE b >= First(j) + received[j]
      BY <2>5, <2>7, <2>11, <2>13, <3>1, <3>3, SegmentBounds DEF Hole
    <3> QED
      BY <2>11, <3>2, <3>3, SegmentBounds
  <2>15. ASSUME NEW i \in Segs
         PROVE  /\ received'[i] <= SegLen(i)
                /\ rcv'[i] = "receive" => received'[i] < SegLen(i)
                /\ rcv'[i] = "exited" /\ ~failed' => received'[i] = SegLen(i)
    <3>1. CASE i = j
      BY <2>13, <3>1
    <3>2. CASE i # j
      <4>1. /\ received'[i] = received[i] /\ rcv'[i] = rcv[i]
            /\ failed => failed'
        BY <1>1, <1>4, <3>2
        DEF Receive, WriteFails, ExitFailed, Exit, mainVars
      <4> QED
        BY <4>1 DEF BytesInv
    <3> QED
      BY <3>1, <3>2
  <2>16. InstalledIsWhole' /\ OnlyRacedPeersCorrupt'
    BY <2>9 DEF BytesInv, InstalledIsWhole, OnlyRacedPeersCorrupt
  <2> QED
    BY <2>10, <2>14, <2>15, <2>16 DEF BytesInv, SegLen
<1> QED
  BY <1>2, <1>3, <1>4 DEF ThreadStep

-----------------------------------------------------------------------------
(* The invariant of the whole download, and what follows from it.          *)
Inv == SharedInv /\ StreamInv /\ BytesInv

LEMMA InvNext == Inv /\ [Next]_vars => Inv'
<1> SUFFICES ASSUME SharedInv, StreamInv, BytesInv, [Next]_vars
             PROVE  StreamInv' /\ BytesInv'
  BY SharedNext DEF Inv
<1>1. CASE Begin \/ Refuse \/ MainStep
  BY <1>1, StreamMain, BytesMain
<1>2. ASSUME NEW i \in Segs, ThreadStep(i)
      PROVE  StreamInv' /\ BytesInv'
  BY <1>2, StreamThread, BytesThread
<1>3. ASSUME NEW i \in Segs,
             ServeStep(i) \/ Hangup(i) \/ Edit(i) \/ Delete(i)
      PROVE  StreamInv' /\ BytesInv'
  BY <1>3, StreamServe, BytesOther
<1>4. CASE Unplug \/ Replug \/ Crash
  BY <1>4, StreamClient, BytesOther
<1>5. CASE UNCHANGED vars
  <2>1. StreamInv'
    BY <1>5, StreamFrame
    DEF StreamInv, vars, mainVars, threadVars, peerVars, histVars
  <2>2. BytesInv'
    BY <1>5, BytesFrame
    DEF Writing, vars, mainVars, threadVars, fileVars, peerVars, histVars
  <2> QED
    BY <2>1, <2>2
<1> QED
  BY <1>1, <1>2, <1>3, <1>4, <1>5 DEF Next, Environment

LEMMA InvAlways == Spec => []Inv
<1>1. Init => Inv
  BY SharedInit, StreamInit, BytesInit DEF Inv
<1>2. Inv /\ [Next]_vars => Inv'
  BY InvNext
<1> QED
  BY <1>1, <1>2, PTL DEF Spec

(* However segments, threads, peers and the disk fail, a file that appears *)
(* under its final name has every byte of every segment.                   *)
THEOREM Whole == Spec => []InstalledIsWhole
<1>1. Inv => InstalledIsWhole
  BY DEF Inv, BytesInv
<1> QED
  BY <1>1, InvAlways, PTL

(* Bytes of another version of the file are only installed in the segment  *)
(* of a peer whose file changed between its validation and its last read.  *)
THEOREM OnlyRaces == Spec => []OnlyRacedPeersCorrupt
<1>1. Inv => OnlyRacedPeersCorrupt
  BY DEF Inv, BytesInv
<1> QED
  BY <1>1, InvAlways, PTL

(* The receiver's byte_start check never rejects a frame of sender.c.      *)
THEOREM FramesAreNext == Spec => []DataFramesAreNext
<1>1. Inv => DataFramesAreNext
  <2> SUFFICES ASSUME Inv, NEW i \in Segs,
                      rcv[i] = "receive", chan[i] # <<>>,
                      Head(chan[i]).kind = "data"
               PROVE  Accepts(i, Head(chan[i]))
    BY DEF DataFramesAreNext
  <2>1. /\ Head(chan[i]) = chan[i][1] /\ 1 \in 1 .. Len(chan[i])
    BY ChanTake DEF Inv, SharedInv, TypeOK
  <2>2. Stream(i)
    BY DEF Inv, StreamInv
  <2>3. FrameOK(i, chan[i][1])
    BY <2>1, <2>2 DEF Stream
  <2>4. chan[i][1].start = EndOf(i, 1 - 1)
    BY <2>1, <2>2 DEF Stream
  <2>5. chan[i][1].start = First(i) + received[i]
    BY <2>4 DEF EndOf
  <2> QED
    BY <2>1, <2>3, <2>5 DEF Accepts, FrameOK
<1> QED
  BY <1>1, InvAlways, PTL

(* A .part file left behind: the drive was gone or the client killed.      *)
LeftoverInv ==
  /\ main \in {"idle", "open"} /\ partial # NoFile => stranded
  /\ main = "return" => partial = NoFile
  /\ main \notin {"idle", "open"} /\ ~destOK => stranded

THEOREM Leftover == Spec => []LeftoverOnlyIfStranded
<1>1. Init => LeftoverInv
  BY DEF Init, LeftoverInv
<1>2. SharedInv /\ LeftoverInv /\ [Next]_vars => LeftoverInv'
  <2> SUFFICES ASSUME SharedInv, LeftoverInv, [Next]_vars
               PROVE  LeftoverInv'
    OBVIOUS
  <2>1. CASE Begin \/ Refuse \/ MainStep
    BY <2>1 DEF MainStep, Begin, Refuse, OpenPartial, OpenFails, SetSize, Spawn,
         SpawnFails, Join, Verdict, Sync, Close, Rename, FileCallFails, Return,
         Cleanup, LeftoverInv, fileVars, histVars
  <2>2. ASSUME NEW i \in Segs, ThreadStep(i)
        PROVE  LeftoverInv'
    <3>1. main \in {"spawn", "join"}
      BY <2>2, LiveWhileJoining
      DEF ThreadStep, Connect, Request, ContactFails, Receive, WriteFails,
          Reject, Eof, Live
    <3>2. UNCHANGED <<main, destOK, stranded>>
      BY <2>2 DEF ThreadStep, Connect, Request, ContactFails, Receive,
           WriteFails, Reject, Eof, mainVars, fileVars, histVars
    <3> QED
      BY <3>1, <3>2 DEF LeftoverInv
  <2>3. ASSUME NEW i \in Segs,
               ServeStep(i) \/ Hangup(i) \/ Edit(i) \/ Delete(i)
        PROVE  LeftoverInv'
    BY <2>3 DEF ServeStep, Find, Validate, Open, Send, ServeFails, ErrorReply,
         Hangup, Edit, Delete, LeftoverInv, mainVars, fileVars, histVars
  <2>4. CASE Unplug \/ Replug \/ Crash
    BY <2>4 DEF Unplug, Replug, Crash, LeftoverInv, mainVars, fileVars, histVars
  <2>5. CASE UNCHANGED vars
    BY <2>5 DEF LeftoverInv, vars, mainVars, fileVars, histVars
  <2> QED
    BY <2>1, <2>2, <2>3, <2>4, <2>5 DEF Next, Environment
<1>3. LeftoverInv => LeftoverOnlyIfStranded
  BY DEF LeftoverInv, LeftoverOnlyIfStranded
<1> QED
  BY <1>1, <1>2, <1>3, SharedAlways, PTL DEF Spec

-----------------------------------------------------------------------------
(* Refinement. *)

(* Only rename() and the ends of transfer_request() are seen from outside. *)
LEMMA Unseen ==
  ASSUME UNCHANGED <<rc, final>>, Status' = Status
  PROVE  UNCHANGED Atomic!vars
BY DEF Atomic!vars

LEMMA StepRefines ==
  ASSUME Inv, [Next]_vars
  PROVE  [Atomic!Next]_(Atomic!vars)
<1> USE DEF Atomic!Next, Atomic!Begin, Atomic!Install, Atomic!Succeed,
            Atomic!Fail, Atomic!Die, Status
<1>1. CASE Begin
  BY <1>1 DEF Begin, fileVars
<1>2. CASE Refuse
  BY <1>2 DEF Refuse, fileVars
<1>3. CASE OpenFails
  BY <1>3 DEF OpenFails, fileVars
<1>4. CASE Rename
  <2>1. final' = partial /\ rc' = rc /\ main = "rename" /\ main' = "return"
    BY <1>4 DEF Rename
  <2>2. final' \in Contents /\ \A b \in Bytes : final'[b] # Hole
    <3>1. Inv'
      BY InvNext
    <3>2. partial \in Contents /\ partial # NoFile
      BY <2>1, NoFileAssumption DEF Inv, SharedInv, Writing
    <3> QED
      BY <2>1, <3>1, <3>2 DEF Inv, BytesInv, InstalledIsWhole
  <2>3. final' \in [Bytes -> {"good", "bad"}]
    BY <2>2 DEF Contents, Hole
  <2> QED
    BY <2>1, <2>3
<1>5. CASE Return
  BY <1>5 DEF Return, fileVars
<1>6. CASE Cleanup
  BY <1>6 DEF Cleanup
<1>7. CASE Crash
  BY <1>7 DEF Crash, fileVars
<1>8. CASE OpenPartial \/ SetSize \/ Spawn \/ SpawnFails \/ Join \/ Verdict
           \/ Sync \/ Close \/ FileCallFails
  BY <1>8, Unseen DEF OpenPartial, SetSize, Spawn, SpawnFails, Join, Verdict,
       Sync, Close, FileCallFails, fileVars
<1>9. ASSUME NEW i \in Segs, ThreadStep(i)
      PROVE  UNCHANGED Atomic!vars
  BY <1>9, Unseen DEF ThreadStep, Connect, Request, ContactFails, Receive,
       WriteFails, Reject, Eof, mainVars, fileVars
<1>10. ASSUME NEW i \in Segs,
              ServeStep(i) \/ Hangup(i) \/ Edit(i) \/ Delete(i)
       PROVE  UNCHANGED Atomic!vars
  BY <1>10, Unseen DEF ServeStep, Find, Validate, Open, Send, ServeFails,
       ErrorReply, Hangup, Edit, Delete, mainVars, fileVars
<1>11. CASE Unplug \/ Replug \/ UNCHANGED vars
  BY <1>11, Unseen DEF Unplug, Replug, vars, mainVars, fileVars
<1> QED
  BY <1>1, <1>2, <1>3, <1>4, <1>5, <1>6, <1>7, <1>8, <1>9, <1>10, <1>11
  DEF Next, MainStep, Environment

(* transfer_request() is an atomic installation of a complete file.        *)
THEOREM Refinement == Spec => ImplementsAtomicDownload
<1>1. Init => Atomic!Init
  BY DEF Init, Atomic!Init, Status
<1>2. Inv /\ [Next]_vars => [Atomic!Next]_(Atomic!vars)
  BY StepRefines
<1> QED
  BY <1>1, <1>2, InvAlways, PTL
  DEF Spec, ImplementsAtomicDownload, Atomic!Spec

-----------------------------------------------------------------------------
(* Waiting.  Blocked in pthread_join(), in recv(), or in recv() of the     *)
(* next request; whoever is not has a step to make.                        *)

MainWaits == main = "join" /\ joined < started /\ rcv[joined] # "exited"

ThreadWaits(i) ==
  \/ rcv[i] \in {"none", "exited"}
  \/ rcv[i] = "receive" /\ chan[i] = <<>> /\ srv[i] # "closed"

PeerWaits(i) == srv[i] \in {"none", "wait", "closed"}

(* A thread that is joined was created, and one that waits for frames has  *)
(* been connected to a peer, and its request was taken or refused.         *)
WaitInv ==
  /\ main \in {"spawn", "join"} => \A i \in Segs : i < started => rcv[i] # "none"
  /\ \A i \in Segs :
       /\ rcv[i] = "request" => srv[i] \in {"wait", "closed"}
       /\ rcv[i] = "receive" => srv[i] \notin {"none", "wait"}

LEMMA WaitNext ==
  ASSUME Inv, WaitInv, [Next]_vars
  PROVE  WaitInv'
<1> USE DEF mainVars, threadVars, fileVars, peerVars, histVars
<1>t. /\ rcv \in [Segs -> {"none", "connect", "request", "receive", "exited"}]
      /\ srv \in [Segs -> {"none", "wait", "find", "validate", "open", "send",
                           "error", "closed"}]
      /\ started \in Nat /\ Segs \subseteq Nat
  BY ActiveType DEF Inv, SharedInv, TypeOK, MainTypeOK, ThreadTypeOK, PeerTypeOK
<1>1. CASE Begin \/ Crash
  BY <1>1 DEF Begin, Crash, WaitInv
<1>2. CASE Spawn
  BY <1>2, <1>t DEF Spawn, WaitInv
<1>3. CASE \/ Refuse \/ OpenPartial \/ OpenFails \/ SetSize \/ SpawnFails \/ Join
           \/ Verdict \/ Sync \/ Close \/ Rename \/ FileCallFails \/ Return
           \/ Cleanup \/ Unplug \/ Replug \/ UNCHANGED vars
  <2>1. UNCHANGED <<rcv, srv, started>>
    BY <1>3 DEF Refuse, OpenPartial, OpenFails, SetSize, SpawnFails, Join,
       Verdict, Sync, Close, Rename, FileCallFails, Return, Cleanup, Unplug,
       Replug, vars
  <2>2. main' \in {"spawn", "join"} =>
          main \in {"spawn", "join"} \/ (main = "size" /\ started = 0)
    BY <1>3 DEF Refuse, OpenPartial, OpenFails, SetSize, SpawnFails, Join,
       Verdict, Sync, Close, Rename, FileCallFails, Return, Cleanup, Unplug,
       Replug, vars, Inv, SharedInv, ThreadsInv
  <2> QED
    BY <1>t, <2>1, <2>2 DEF WaitInv
<1>4. ASSUME NEW i \in Segs, ThreadStep(i)
      PROVE  WaitInv'
  <2>1. CASE Connect(i)
    BY <1>t, <2>1 DEF Connect, WaitInv
  <2>2. CASE Request(i)
    BY <1>t, <2>2 DEF Request, WaitInv
  <2>3. CASE ContactFails(i) \/ Receive(i) \/ WriteFails(i) \/ Reject(i) \/ Eof(i)
    <3>1. /\ UNCHANGED <<main, started, srv>>
          /\ rcv[i] # "none"
          /\ \/ rcv' = [rcv EXCEPT ![i] = "exited"]
             \/ rcv[i] = "receive" /\ rcv' = [rcv EXCEPT ![i] = "receive"]
      BY <2>3 DEF ContactFails, Receive, WriteFails, Reject, Eof, ExitFailed, Exit
    <3> QED
      BY <1>t, <3>1 DEF WaitInv
  <2> QED
    BY <1>4, <2>1, <2>2, <2>3 DEF ThreadStep
<1>5. ASSUME NEW i \in Segs, ServeStep(i) \/ Hangup(i) \/ Edit(i) \/ Delete(i)
      PROVE  WaitInv'
  <2>1. UNCHANGED <<main, rcv, started>>
    BY <1>5 DEF ServeStep, Find, Validate, Open, Send, ServeFails, ErrorReply,
       Hangup, Edit, Delete
  <2>2. \/ srv' = srv
        \/ \E pc \in {"validate", "open", "send", "error", "closed"} :
             /\ srv[i] \notin {"none", "wait", "closed"} \/ pc = "closed"
             /\ srv' = [srv EXCEPT ![i] = pc]
    <3>1. CASE Send(i)
      <4>1. \E pc \in {"closed", "send"} : srv' = [srv EXCEPT ![i] = pc]
        BY <3>1 DEF Send
      <4> QED
        BY <3>1, <4>1 DEF Send
    <3>2. CASE Find(i) \/ Validate(i) \/ Open(i)
      BY <3>2 DEF Find, Validate, Open
    <3>3. CASE ServeFails(i) \/ ErrorReply(i)
      BY <3>3 DEF ServeFails, ErrorReply
    <3>4. CASE Hangup(i)
      <4>1. srv' = [srv EXCEPT ![i] = "closed"]
        BY <3>4 DEF Hangup
      <4> QED
        BY <4>1
    <3>5. CASE Edit(i) \/ Delete(i)
      BY <3>5 DEF Edit, Delete
    <3> QED
      BY <1>5, <3>1, <3>2, <3>3, <3>4, <3>5 DEF ServeStep
  <2> QED
    BY <1>t, <2>1, <2>2 DEF WaitInv
<1> QED
  BY <1>1, <1>2, <1>3, <1>4, <1>5 DEF Next, MainStep, Environment

(* While transfer_request() waits for a segment thread, that thread or the *)
(* peer that serves it has something to do: never do all three wait.       *)
THEOREM NeverAllWait ==
  Spec => [](MainWaits => ~(ThreadWaits(joined) /\ PeerWaits(joined)))
<1>1. Init => WaitInv
  BY DEF Init, WaitInv
<1>2. Inv /\ WaitInv /\ [Next]_vars => WaitInv'
  BY WaitNext
<1>3. Inv /\ WaitInv => (MainWaits => ~(ThreadWaits(joined) /\ PeerWaits(joined)))
  <2> SUFFICES ASSUME Inv, WaitInv, MainWaits, ThreadWaits(joined), PeerWaits(joined)
               PROVE  FALSE
    OBVIOUS
  <2>1. joined \in Segs
    BY ActiveType DEF Inv, SharedInv, TypeOK, MainTypeOK, MainWaits, Segs
  <2> QED
    BY <2>1 DEF WaitInv, MainWaits, ThreadWaits, PeerWaits
<1> QED
  BY <1>1, <1>2, <1>3, InvAlways, PTL DEF Spec

-----------------------------------------------------------------------------
(* How much a call, its threads and the peers have left to do.             *)

MainLeft ==
  CASE main = "open" -> 8 + Active + Active
    [] main = "size" -> 7 + Active + Active
    [] main = "spawn" -> 6 + Active + (Active - started)
    [] main = "join" -> 5 + (started - joined)
    [] main = "sync" -> 4
    [] main = "close" -> 3
    [] main = "rename" -> 2
    [] main \in {"return", "cleanup"} -> 1
    [] OTHER -> 0

ThreadLeft(i) ==
  CASE main = "idle" -> 0
    [] main # "idle" /\ rcv[i] = "none" -> SegLen(i) + 4
    [] main # "idle" /\ rcv[i] = "connect" -> SegLen(i) + 3
    [] main # "idle" /\ rcv[i] = "request" -> SegLen(i) + 2
    [] main # "idle" /\ rcv[i] = "receive" -> (SegLen(i) - received[i]) + 1
    [] OTHER -> 0

PeerLeft(i) ==
  CASE srv[i] \in {"none", "wait"} -> SegLen(i) + 6
    [] srv[i] = "find" -> SegLen(i) + 5
    [] srv[i] = "validate" -> SegLen(i) + 4
    [] srv[i] = "open" -> SegLen(i) + 3
    [] srv[i] = "send" -> (Last(i) - offset[i]) + 3
    [] srv[i] = "error" -> 1
    [] OTHER -> 0

LEMMA WorkStays ==
  /\ UNCHANGED <<main, started, joined>> => MainLeft' = MainLeft
  /\ \A i \in Segs :
       /\ UNCHANGED <<main, rcv[i], received[i]>> => ThreadLeft(i)' = ThreadLeft(i)
       /\ UNCHANGED <<srv[i], offset[i]>> => PeerLeft(i)' = PeerLeft(i)
BY DEF MainLeft, ThreadLeft, PeerLeft

LEMMA WorkRanges ==
  ASSUME Inv, NEW i \in Segs
  PROVE  /\ SegLen(i) \in Nat /\ SegLen(i) > 0 /\ SegLen(i) = Last(i) - First(i) + 1
         /\ First(i) \in Nat /\ Last(i) \in Nat
         /\ received[i] \in 0 .. SegLen(i)
         /\ srv[i] = "send" => offset[i] \in First(i) .. Last(i)
<1>1. First(i) \in Nat /\ Last(i) \in Nat /\ First(i) <= Last(i)
  BY SegmentBounds
<1>2. received[i] \in 0 .. Size /\ received[i] <= SegLen(i) /\ Size \in Nat
  BY SizesAssumption DEF Inv, SharedInv, TypeOK, ThreadTypeOK, BytesInv
<1>3. srv[i] = "send" => offset[i] \in First(i) .. Last(i)
  BY DEF Inv, StreamInv, Stream
<1> QED
  BY <1>1, <1>2, <1>3 DEF SegLen

LEMMA WorkNat ==
  ASSUME Inv
  PROVE  /\ MainLeft \in Nat
         /\ \A i \in Segs : ThreadLeft(i) \in Nat /\ PeerLeft(i) \in Nat
<1>1. /\ main \in {"idle", "open", "size", "spawn", "join", "sync", "close",
                   "rename", "return", "cleanup"}
      /\ started \in 0 .. Active /\ joined \in 0 .. Active /\ joined <= started
      /\ Active \in Nat
  BY ActiveType, SizesAssumption DEF Inv, SharedInv, TypeOK, MainTypeOK, ThreadsInv
<1>2. MainLeft \in Nat
  BY <1>1 DEF MainLeft
<1>3. ASSUME NEW i \in Segs
      PROVE  ThreadLeft(i) \in Nat /\ PeerLeft(i) \in Nat
  <2>1. /\ SegLen(i) \in Nat /\ received[i] \in 0 .. SegLen(i)
        /\ srv[i] = "send" => offset[i] \in First(i) .. Last(i)
        /\ First(i) \in Nat /\ Last(i) \in Nat
    BY WorkRanges
  <2>2. /\ rcv[i] \in {"none", "connect", "request", "receive", "exited"}
        /\ srv[i] \in {"none", "wait", "find", "validate", "open", "send",
                       "error", "closed"}
    BY DEF Inv, SharedInv, TypeOK, ThreadTypeOK, PeerTypeOK
  <2> HIDE DEF SegLen
  <2> QED
    BY <1>1, <2>1, <2>2 DEF ThreadLeft, PeerLeft
<1> QED
  BY <1>2, <1>3

(* A step of transfer_request(): a thread that it creates has as much less *)
(* to do, and when it ends nothing is left.                                *)
LEMMA MainLowers ==
  ASSUME Inv, MainStep
  PROVE  /\ MainLeft' < MainLeft /\ MainLeft' <= MainLeft
         /\ \A i \in Segs : ThreadLeft(i)' <= ThreadLeft(i) /\ PeerLeft(i)' = PeerLeft(i)
<1> USE DEF mainVars, threadVars, fileVars, peerVars, histVars
<1>1. /\ started \in 0 .. Active /\ joined \in 0 .. Active /\ joined <= started
      /\ Active \in Nat
      /\ main = "spawn" => started < Active
      /\ main \in {"open", "size"} => started = 0
  BY ActiveType, SizesAssumption DEF Inv, SharedInv, TypeOK, MainTypeOK, ThreadsInv
<1>2. MainLeft' < MainLeft /\ MainLeft' <= MainLeft
  <2>1. CASE OpenPartial \/ OpenFails \/ SetSize
    BY <1>1, <2>1 DEF OpenPartial, OpenFails, SetSize, MainLeft
  <2>2. CASE Spawn
    BY <1>1, <2>2 DEF Spawn, MainLeft
  <2>3. CASE SpawnFails \/ Join \/ Verdict
    BY <1>1, <2>3 DEF SpawnFails, Join, Verdict, MainLeft
  <2>4. CASE Sync \/ Close \/ Rename \/ FileCallFails \/ Return \/ Cleanup
    BY <1>1, <2>4 DEF Sync, Close, Rename, FileCallFails, Return, Cleanup,
       MainLeft
  <2> QED
    BY <2>1, <2>2, <2>3, <2>4 DEF MainStep
<1>3. UNCHANGED <<received, srv, offset>>
  BY DEF MainStep, OpenPartial, OpenFails, SetSize, Spawn, SpawnFails, Join,
     Verdict, Sync, Close, Rename, FileCallFails, Return, Cleanup
<1>4. main # "idle" /\ (rcv' = rcv \/ (Spawn /\ main' # "idle"))
  BY DEF MainStep, OpenPartial, OpenFails, SetSize, Spawn, SpawnFails, Join,
     Verdict, Sync, Close, Rename, FileCallFails, Return, Cleanup
<1>5. ASSUME NEW i \in Segs
      PROVE  ThreadLeft(i)' <= ThreadLeft(i)
  <2>0. ThreadLeft(i) \in Nat
    BY WorkNat
  <2>1. CASE main' = "idle"
    BY <2>0, <2>1 DEF ThreadLeft
  <2>2. CASE main' # "idle" /\ rcv'[i] = rcv[i]
    <3>1. ThreadLeft(i)' = ThreadLeft(i)
      BY <1>3, <1>4, <2>2 DEF ThreadLeft
    <3> QED
      BY <2>0, <3>1
  <2>3. CASE Spawn /\ rcv'[i] # rcv[i]
    <3>1. /\ started \in Segs /\ rcv \in [Segs -> {"none", "connect", "request",
                                                   "receive", "exited"}]
          /\ rcv[started] = "none"
      BY <1>1, <2>3 DEF Spawn, Segs, Inv, SharedInv, TypeOK, ThreadTypeOK, ThreadsInv
    <3>2. i = started /\ rcv[i] = "none" /\ rcv'[i] = "connect"
      BY <2>3, <3>1 DEF Spawn
    <3>3. SegLen(i) \in Nat
      BY WorkRanges
    <3> HIDE DEF SegLen
    <3> QED
      BY <1>4, <2>3, <3>2, <3>3 DEF ThreadLeft, Spawn
  <2> QED
    BY <1>4, <2>1, <2>2, <2>3
<1>6. \A i \in Segs : PeerLeft(i)' = PeerLeft(i)
  BY <1>3, WorkStays
<1> QED
  BY <1>2, <1>5, <1>6

(* A step of a segment thread; its request gives the peer a step.          *)
LEMMA ThreadLowers ==
  ASSUME Inv, NEW i \in Segs, ThreadStep(i)
  PROVE  /\ MainLeft' = MainLeft
         /\ ThreadLeft(i)' < ThreadLeft(i)
         /\ \A j \in Segs : ThreadLeft(j)' <= ThreadLeft(j) /\ PeerLeft(j)' <= PeerLeft(j)
<1> USE DEF mainVars, threadVars, fileVars, peerVars, histVars
<1>1. /\ rcv \in [Segs -> {"none", "connect", "request", "receive", "exited"}]
      /\ srv \in [Segs -> {"none", "wait", "find", "validate", "open", "send",
                           "error", "closed"}]
      /\ received \in [Segs -> 0 .. Size]
  BY DEF Inv, SharedInv, TypeOK, ThreadTypeOK, PeerTypeOK
<1>2. UNCHANGED <<main, started, joined, offset>> /\ Live(i)
  BY DEF ThreadStep, Connect, Request, ContactFails, Receive, WriteFails, Reject,
     Eof, ExitFailed, Exit, Live
<1>3. main # "idle"
  BY <1>2, LiveWhileJoining DEF Inv
<1>4. MainLeft' = MainLeft
  BY <1>2, WorkStays
<1>5. /\ SegLen(i) \in Nat /\ received[i] \in 0 .. SegLen(i)
      /\ SegLen(i) = Last(i) - First(i) + 1
      /\ First(i) \in Nat /\ Last(i) \in Nat
  BY WorkRanges
<1> HIDE DEF SegLen
<1>6. ThreadLeft(i) \in Nat /\ ThreadLeft(i) > 0
  BY <1>1, <1>2, <1>3, <1>5 DEF ThreadLeft, Live
<1>7. ThreadLeft(i)' < ThreadLeft(i) /\ ThreadLeft(i)' <= ThreadLeft(i)
  <2>1. CASE rcv'[i] = "exited"
    <3>1. ThreadLeft(i)' = 0
      BY <1>2, <1>3, <2>1 DEF ThreadLeft
    <3> QED
      BY <1>6, <3>1
  <2>2. CASE Connect(i)
    <3>1. rcv[i] = "connect" /\ rcv'[i] = "request"
      BY <1>1, <2>2 DEF Connect
    <3> QED
      BY <1>2, <1>3, <1>5, <3>1 DEF ThreadLeft
  <2>3. CASE Request(i)
    <3>1. rcv[i] = "request" /\ rcv'[i] = "receive" /\ received' = received
      BY <1>1, <2>3 DEF Request
    <3> QED
      BY <1>2, <1>3, <1>5, <3>1 DEF ThreadLeft
  <2>4. CASE Receive(i) /\ rcv'[i] # "exited"
    <3> DEFINE frame == Head(chan[i])
    <3>1. Accepts(i, frame) /\ received' = [received EXCEPT ![i] = @ + frame.len]
      BY <2>4 DEF Receive
    <3>2. rcv[i] = "receive" /\ rcv'[i] = "receive"
      BY <1>1, <2>4 DEF Receive
    <3> HIDE DEF frame
    <3>3. frame.len \in Nat /\ frame.len > 0 /\ received[i] + frame.len <= SegLen(i)
      BY <1>5, <3>1, SizesAssumption DEF Accepts
    <3>4. received'[i] = received[i] + frame.len
      BY <1>1, <3>1
    <3> QED
      BY <1>2, <1>3, <1>5, <3>2, <3>3, <3>4 DEF ThreadLeft
  <2>5. ContactFails(i) \/ WriteFails(i) \/ Reject(i) \/ Eof(i) => rcv'[i] = "exited"
    BY <1>1 DEF ContactFails, WriteFails, Reject, Eof, ExitFailed, Exit
  <2> QED
    BY <2>1, <2>2, <2>3, <2>4, <2>5 DEF ThreadStep
<1>8. ASSUME NEW j \in Segs
      PROVE  ThreadLeft(j)' <= ThreadLeft(j)
  <2>0. ThreadLeft(j) \in Nat
    BY WorkNat
  <2>1. CASE j = i
    BY <1>7, <2>0, <2>1
  <2>2. CASE j # i
    <3>1. rcv'[j] = rcv[j] /\ received'[j] = received[j]
      BY <1>1, <2>2 DEF ThreadStep, Connect, Request, ContactFails, Receive,
         WriteFails, Reject, Eof, ExitFailed, Exit
    <3>2. ThreadLeft(j)' = ThreadLeft(j)
      BY <1>2, <3>1, WorkStays
    <3> QED
      BY <2>0, <3>2
  <2> QED
    BY <2>1, <2>2
<1>9. ASSUME NEW j \in Segs
      PROVE  PeerLeft(j)' <= PeerLeft(j)
  <2>0. PeerLeft(j) \in Nat /\ SegLen(j) \in Nat
    BY WorkNat, WorkRanges
  <2>1. CASE srv'[j] = srv[j]
    <3>1. PeerLeft(j)' = PeerLeft(j)
      BY <1>2, <2>1, WorkStays
    <3> QED
      BY <2>0, <3>1
  <2>2. CASE srv'[j] # srv[j]
    <3>1. \/ Connect(i) /\ j = i /\ srv'[j] = "wait"
          \/ Request(i) /\ j = i /\ srv[j] = "wait" /\ srv'[j] = "find"
      BY <1>1, <2>2 DEF ThreadStep, Connect, Request, ContactFails, Receive,
         WriteFails, Reject, Eof
    <3>2. Connect(i) => srv[i] = "none"
      BY <1>3 DEF Connect, Inv, StreamInv, Stream
    <3> QED
      BY <2>0, <3>1, <3>2 DEF PeerLeft
  <2> QED
    BY <2>1, <2>2
<1> QED
  BY <1>4, <1>7, <1>8, <1>9

(* A step of a peer; a connection that is cut leaves it nothing to do.     *)
LEMMA PeerLowers ==
  ASSUME Inv, NEW i \in Segs, ServeStep(i) \/ Hangup(i)
  PROVE  /\ ServeStep(i) => PeerLeft(i)' < PeerLeft(i)
         /\ \A j \in Segs : PeerLeft(j)' <= PeerLeft(j)
<1> USE DEF mainVars, threadVars, fileVars, peerVars, histVars
<1>1. /\ srv \in [Segs -> {"none", "wait", "find", "validate", "open", "send",
                           "error", "closed"}]
      /\ offset \in [Segs -> 0 .. Size]
  BY DEF Inv, SharedInv, TypeOK, PeerTypeOK
<1>2. /\ SegLen(i) \in Nat /\ SegLen(i) = Last(i) - First(i) + 1
      /\ First(i) \in Nat /\ Last(i) \in Nat
      /\ srv[i] = "send" => offset[i] \in First(i) .. Last(i)
  BY WorkRanges
<1> HIDE DEF SegLen
<1>3. PeerLeft(i) \in Nat
  BY WorkNat
<1>4. ASSUME ServeStep(i)
      PROVE  PeerLeft(i)' < PeerLeft(i) /\ PeerLeft(i)' <= PeerLeft(i)
  <2>1. CASE Find(i) \/ Validate(i)
    <3>1. \/ srv[i] = "find" /\ srv'[i] = "validate"
          \/ srv[i] = "validate" /\ srv'[i] = "open"
      BY <1>1, <2>1 DEF Find, Validate
    <3> QED
      BY <1>2, <3>1 DEF PeerLeft
  <2>2. CASE Open(i)
    <3>1. srv[i] = "open" /\ srv'[i] = "send" /\ offset'[i] = First(i)
      BY <1>1, <2>2 DEF Open
    <3> QED
      BY <1>2, <3>1 DEF PeerLeft
  <2>3. CASE Send(i)
    <3> DEFINE remaining == Last(i) - offset[i] + 1
               want == IF remaining > ChunkSize THEN ChunkSize ELSE remaining
    <3>1. PICK n \in 1 .. want :
            /\ offset' = [offset EXCEPT ![i] = @ + n]
            /\ srv' = [srv EXCEPT ![i] = IF n = remaining THEN "closed" ELSE "send"]
      BY <2>3 DEF Send
    <3>2. srv[i] = "send"
      BY <2>3 DEF Send
    <3>3. n \in Nat /\ n > 0 /\ n <= remaining
      BY <1>2, <3>1, <3>2, SizesAssumption
    <3>4. /\ offset'[i] = offset[i] + n
          /\ srv'[i] \in {"closed", "send"}
      BY <1>1, <3>1
    <3> QED
      BY <1>2, <3>2, <3>3, <3>4 DEF PeerLeft
  <2>4. CASE ServeFails(i) \/ ErrorReply(i)
    <3>1. \/ srv[i] \in {"find", "validate", "open", "send"} /\ srv'[i] = "error"
          \/ srv[i] = "error" /\ srv'[i] = "closed"
      BY <1>1, <2>4 DEF ServeFails, ErrorReply
    <3> QED
      BY <1>2, <3>1 DEF PeerLeft
  <2> QED
    BY <1>4, <2>1, <2>2, <2>3, <2>4 DEF ServeStep
<1>5. ASSUME NEW j \in Segs
      PROVE  PeerLeft(j)' <= PeerLeft(j)
  <2>0. PeerLeft(j) \in Nat
    BY WorkNat
  <2>1. CASE j = i /\ ServeStep(i)
    BY <1>4, <2>0, <2>1
  <2>2. CASE j = i /\ Hangup(i)
    <3>1. srv'[i] = "closed"
      BY <1>1, <2>2 DEF Hangup
    <3> QED
      BY <1>3, <2>2, <3>1 DEF PeerLeft
  <2>3. CASE j # i
    <3>1. srv'[j] = srv[j] /\ offset'[j] = offset[j]
      BY <1>1, <2>3 DEF ServeStep, Find, Validate, Open, Send, ServeFails,
         ErrorReply, Hangup
    <3>2. PeerLeft(j)' = PeerLeft(j)
      BY <3>1, WorkStays
    <3> QED
      BY <2>0, <3>2
  <2> QED
    BY <2>1, <2>2, <2>3
<1> QED
  BY <1>4, <1>5

(* What a step does to the work that is left.                              *)
RunsDown ==
  /\ MainLeft \in Nat
  /\ \A i \in Segs : ThreadLeft(i) \in Nat /\ PeerLeft(i) \in Nat
  /\ MainStep => MainLeft' < MainLeft
  /\ \A i \in Segs :
       /\ ThreadStep(i) => ThreadLeft(i)' < ThreadLeft(i)
       /\ ServeStep(i) => PeerLeft(i)' < PeerLeft(i)
  /\ ~Begin =>
       /\ MainLeft' <= MainLeft
       /\ \A i \in Segs : ThreadLeft(i)' <= ThreadLeft(i) /\ PeerLeft(i)' <= PeerLeft(i)

LEMMA RunsDownStep ==
  ASSUME Inv, Next
  PROVE  RunsDown
<1> USE DEF mainVars, threadVars, fileVars, peerVars, histVars
<1>1. /\ MainLeft \in Nat
      /\ \A i \in Segs : ThreadLeft(i) \in Nat /\ PeerLeft(i) \in Nat
  BY WorkNat
<1>2. /\ UNCHANGED <<main, started, joined>> => MainLeft' <= MainLeft
      /\ UNCHANGED <<main, rcv, received>> =>
           \A i \in Segs : ThreadLeft(i)' <= ThreadLeft(i)
      /\ UNCHANGED <<srv, offset>> => \A i \in Segs : PeerLeft(i)' <= PeerLeft(i)
  BY <1>1, WorkStays
<1>3. ASSUME ~Begin
      PROVE  /\ MainLeft' <= MainLeft
             /\ \A i \in Segs : ThreadLeft(i)' <= ThreadLeft(i) /\ PeerLeft(i)' <= PeerLeft(i)
  <2>1. CASE MainStep
    BY <1>1, <2>1, MainLowers
  <2>2. ASSUME NEW i \in Segs, ThreadStep(i)
        PROVE  /\ MainLeft' <= MainLeft
               /\ \A j \in Segs : ThreadLeft(j)' <= ThreadLeft(j) /\ PeerLeft(j)' <= PeerLeft(j)
    BY <1>1, <2>2, ThreadLowers
  <2>3. ASSUME NEW i \in Segs, ServeStep(i) \/ Hangup(i)
        PROVE  /\ MainLeft' <= MainLeft
               /\ \A j \in Segs : ThreadLeft(j)' <= ThreadLeft(j) /\ PeerLeft(j)' <= PeerLeft(j)
    <3>1. UNCHANGED <<main, started, joined, rcv, received>>
      BY <2>3 DEF ServeStep, Find, Validate, Open, Send, ServeFails, ErrorReply,
         Hangup
    <3> QED
      BY <1>2, <2>3, <3>1, PeerLowers
  <2>4. ASSUME NEW i \in Segs, Edit(i) \/ Delete(i)
        PROVE  UNCHANGED <<main, started, joined, rcv, received, srv, offset>>
    BY <2>4 DEF Edit, Delete
  <2>5. CASE Refuse \/ Unplug \/ Replug
    BY <1>2, <2>5 DEF Refuse, Unplug, Replug
  <2>6. CASE Crash
    <3>1. MainLeft' = 0 /\ \A i \in Segs : ThreadLeft(i)' = 0
      BY <2>6 DEF Crash, MainLeft, ThreadLeft
    <3>2. UNCHANGED <<srv, offset>>
      BY <2>6 DEF Crash
    <3> QED
      BY <1>1, <1>2, <3>1, <3>2
  <2> QED
    BY <1>2, <1>3, <2>1, <2>2, <2>3, <2>4, <2>5, <2>6 DEF Next, Environment
<1> QED
  BY <1>1, <1>3, MainLowers, ThreadLowers, PeerLowers DEF RunsDown

(* Every step of transfer_request() lowers what it has left to do, every   *)
(* step of a segment thread and of a peer likewise, and only the next call *)
(* raises any of it, whatever fails in between: loops over segments, and   *)
(* over frames of any size, end.                                           *)
THEOREM WorkRunsDown == Spec => [][RunsDown]_vars
<1>1. Inv /\ [Next]_vars => [RunsDown]_vars
  BY RunsDownStep
<1> QED
  BY <1>1, InvAlways, PTL DEF Spec

=============================================================================
