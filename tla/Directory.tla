------------------------------ MODULE Directory ------------------------------
(***************************************************************************)
(* What the central server promises (docs/main.tex, lines 196-222): a       *)
(* directory of the peers that registered, each with the files of its last *)
(* registration.  Every registration takes effect at one moment, and every *)
(* reply tells the truth of one moment.                                    *)
(***************************************************************************)
EXTENDS Integers, FiniteSetsExt

CONSTANTS
  Peer, File, Request,
  Conn,          \* connections, one request each
  Selected(_),   \* the files a find request asks for
  Capacity, MaxNeighbors, MaxResults,
  NoReply

VARIABLES dir, reply

vars == <<dir, reply>>

Init ==
  /\ dir = [p \in {} |-> {}]
  /\ reply = [c \in Conn |-> NoReply]

Enroll(p, files) ==
  /\ p \in DOMAIN dir \/ Cardinality(DOMAIN dir) < Capacity
  /\ dir' = [q \in DOMAIN dir \cup {p} |-> IF q = p THEN files ELSE dir[q]]
  /\ UNCHANGED reply

Tell(c, r) ==
  /\ reply[c] = NoReply
  /\ reply' = [reply EXCEPT ![c] = r]
  /\ UNCHANGED dir

(* As many other peers as there are and fit. *)
Welcome(c, p) ==
  LET others == DOMAIN dir \ {p} IN
  /\ p \in DOMAIN dir
  /\ \E S \in kSubset(Min({Cardinality(others), MaxNeighbors}), others) :
       Tell(c, [kind |-> "neighbors", peers |-> S])

Asked(q) ==
  {x \in [owner : DOMAIN dir, file : Selected(q)] : x.file \in dir[x.owner]}

(* Every item that was asked for, or as many as fit. *)
Answer(c, q) ==
  \E S \in kSubset(Min({Cardinality(Asked(q)), MaxResults}), Asked(q)) :
    Tell(c, [kind |-> "found", items |-> S])

Refuse(c, p) ==
  /\ p \notin DOMAIN dir
  /\ Cardinality(DOMAIN dir) = Capacity
  /\ Tell(c, [kind |-> "full"])

Complain(c) == Tell(c, [kind |-> "error"])

Next ==
  \/ \E p \in Peer, files \in SUBSET File : Enroll(p, files)
  \/ \E c \in Conn :
       \/ \E p \in Peer : Welcome(c, p) \/ Refuse(c, p)
       \/ \E q \in Request : Answer(c, q)
       \/ Complain(c)

Spec == Init /\ [][Next]_vars
=============================================================================
