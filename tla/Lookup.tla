-------------------------------- MODULE Lookup --------------------------------
(***************************************************************************)
(* What a distributed search promises the console of a client.  A search   *)
(* starts with nothing, and makes other clients owe it files that they     *)
(* have and that match its term.  A file that is owed is collected once,   *)
(* at one moment, unless there is no room left, or it gets lost.  When the *)
(* search ends it returns what was collected.                              *)
(***************************************************************************)
EXTENDS Integers, SequencesExt

CONSTANTS
  Node, Term, File,
  Matching,      \* Matching[t]: the names that contain term t
  Holdings,      \* Holdings[n]: the files of client n
  Id,            \* ids of searches
  MaxResults

VARIABLES
  owed,      \* [to |-> client, item |-> file of another client]
  agg,       \* what each client has collected
  waiting,   \* clients whose search has not ended
  results    \* what it returned last

vars == <<owed, agg, waiting, results>>

Init ==
  /\ owed = {}
  /\ agg = [n \in Node |-> <<>>]
  /\ waiting = {}
  /\ results = [n \in Node |-> {}]

Match(n, id, p, f) ==
  [to |-> n, item |-> [owner |-> p, file |-> f, id |-> id]]

(* Every match of every other client; clients that are not reached owe     *)
(* nothing.                                                                *)
Matches(n, term, id) ==
  UNION {{Match(n, id, p, f) : f \in Holdings[p] \cap Matching[term]} :
           p \in Node \ {n}}

Search(n, term, id) ==
  /\ n \notin waiting
  /\ waiting' = waiting \cup {n}
  /\ agg' = [agg EXCEPT ![n] = <<>>]
  /\ results' = [results EXCEPT ![n] = {}]
  /\ owed \subseteq owed'
  /\ owed' \ owed \subseteq Matches(n, term, id)

Receive(o) ==
  /\ o \in owed
  /\ agg' = [agg EXCEPT ![o.to] =
               IF Len(@) < MaxResults THEN Append(@, o.item) ELSE @]
  /\ UNCHANGED <<waiting, results>>
  /\ owed' = owed \ {o}

Lose ==
  /\ UNCHANGED <<agg, waiting, results>>
  /\ owed' \subseteq owed

Return(n) ==
  /\ n \in waiting
  /\ waiting' = waiting \ {n}
  /\ results' = [results EXCEPT ![n] = {item \in ToSet(agg[n]) : item.owner # n}]
  /\ UNCHANGED <<owed, agg>>

Next ==
  \/ \E n \in Node, term \in Term, id \in Id : Search(n, term, id)
  \/ \E n \in Node : Return(n)
  \/ Lose
  \/ \E o \in owed : Receive(o)

Spec == Init /\ [][Next]_vars
=============================================================================
