------------------------------- MODULE MCFlood -------------------------------
(***************************************************************************)
(* Small networks for Flood.  The clients registered in the order d, c, b, *)
(* a (or c, b, a, or b, a) with a server that returns the last ones.       *)
(* `common' matches f1 and f2, `rare' only f2, and f3 has neither.          *)
(***************************************************************************)
EXTENDS Flood, TLC

CONSTANTS a, b, c, d, common, rare, f1, f2, f3

mcMatching ==
  [t \in Term |-> IF t = common THEN {f1, f2} ELSE {f2}]

mcHoldings4 == a :> {f1} @@ b :> {f3} @@ c :> {f2} @@ d :> {f1, f2, f3}
mcHoldings3 == [n \in Node |-> IF n = a THEN {} ELSE IF n = b THEN {f1} ELSE {f2}]

(* One search on a network with paths of different lengths (two clients    *)
(* that registered between d and c have left since), and two at the same   *)
(* time on a smaller one.                                                  *)
mcNetworks4 ==
  {[nbrs |-> a :> {b, c} @@ b :> {c} @@ c :> {d} @@ d :> {}, searches |-> 1],
   [nbrs |-> a :> {b, c} @@ b :> {c} @@ c :> {} @@ d :> {}, searches |-> 2]}

mcNetworks3 == {[nbrs |-> a :> {b} @@ b :> {c} @@ c :> {}, searches |-> 2]}
mcNetworks2 == {[nbrs |-> a :> {b} @@ b :> {}, searches |-> 2]}
=============================================================================
