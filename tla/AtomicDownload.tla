--------------------------- MODULE AtomicDownload ---------------------------
(***************************************************************************)
(* What `request' promises its user, with no threads, peers or partial     *)
(* files: a download replaces the destination file in one step by complete *)
(* contents and reports success, or leaves it alone and reports failure;   *)
(* if the process dies the file is the old one or a complete new one.      *)
(***************************************************************************)
CONSTANTS
  Absent,     \* value of `file' while the destination does not exist
  Complete    \* the contents a finished download may install

VARIABLES
  status,     \* "idle", "running", or "installed" (renamed, not yet reported)
  report,     \* what the last download told its caller
  file        \* the file at the destination path

vars == <<status, report, file>>

Init ==
  /\ status = "idle"
  /\ report = "none"
  /\ file = Absent

Begin ==
  /\ status = "idle"
  /\ status' = "running"
  /\ report' = "none"
  /\ UNCHANGED file

Install ==
  /\ status = "running"
  /\ status' = "installed"
  /\ file' \in Complete
  /\ UNCHANGED report

Succeed ==
  /\ status = "installed"
  /\ status' = "idle"
  /\ report' = "ok"
  /\ UNCHANGED file

(* The request is refused at once, or the running download gives up. *)
Fail ==
  /\ status \in {"idle", "running"}
  /\ status' = "idle"
  /\ report' = "fail"
  /\ UNCHANGED file

Die ==
  /\ status # "idle"
  /\ status' = "idle"
  /\ report' = "none"
  /\ UNCHANGED file

Next == Begin \/ Install \/ Succeed \/ Fail \/ Die

Spec == Init /\ [][Next]_vars
=============================================================================
