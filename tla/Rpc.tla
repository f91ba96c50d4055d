--------------------------------- MODULE Rpc ---------------------------------
(***************************************************************************)
(* What a call to the server promises.  The calls of a client follow one   *)
(* another.  The server acts on a call at most once; one that returns well *)
(* was acted on before it did.  One that failed may have been acted on, or *)
(* may still be, at any later time.                                        *)
(***************************************************************************)
EXTENDS Naturals, Sequences

CONSTANT Calls   \* 1 .. the number of calls

VARIABLES
  status,   \* "idle", "pending", "ok" or "failed"
  log       \* the calls the server has acted on, in order

vars == <<status, log>>

Init ==
  /\ status = [k \in Calls |-> "idle"]
  /\ log = << >>

ActedOn(k) == \E n \in DOMAIN log : log[n] = k

Call(k) ==
  /\ status[k] = "idle"
  /\ \A j \in Calls : j < k => status[j] \in {"ok", "failed"}
  /\ status' = [status EXCEPT ![k] = "pending"]
  /\ UNCHANGED log

Act(k) ==
  /\ status[k] \in {"pending", "failed"}
  /\ ~ActedOn(k)
  /\ log' = Append(log, k)
  /\ UNCHANGED status

Succeed(k) ==
  /\ status[k] = "pending"
  /\ ActedOn(k)
  /\ status' = [status EXCEPT ![k] = "ok"]
  /\ UNCHANGED log

Fail(k) ==
  /\ status[k] = "pending"
  /\ status' = [status EXCEPT ![k] = "failed"]
  /\ UNCHANGED log

Next == \E k \in Calls : Call(k) \/ Act(k) \/ Succeed(k) \/ Fail(k)

Spec == Init /\ [][Next]_vars
=============================================================================
