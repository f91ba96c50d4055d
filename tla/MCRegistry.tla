----------------------------- MODULE MCRegistry -----------------------------
(***************************************************************************)
(* Small instances of Registry.  Two hosts with two ports each make four   *)
(* clients; f1 and f2 have the same content under different names, and     *)
(* `same' is the term that spells their identity.                          *)
(***************************************************************************)
EXTENDS Registry, TLC

CONSTANTS h1, h2, p1, p2, f1, f2, word, same, content, c1, c2, c3, c4

mcContent == [f \in File |-> content]
mcParsed == [t \in Term |-> IF t = same THEN content ELSE NoIdentity]
mcMatching == [t \in Term |-> {f1}]
mcShares == {{f1}, {f1, f2}}

Symmetry == Permutations(Conn) \cup Permutations(IP) \cup Permutations(Port)
=============================================================================
