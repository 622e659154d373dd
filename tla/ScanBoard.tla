------------------------------ MODULE ScanBoard ------------------------------
(***************************************************************************)
(* What the scan service promises to whoever looks at the scans table: the *)
(* project page, the policy gate, the CI poller.  It knows rows and their  *)
(* statuses; it knows nothing of workers, messages, crashes or revocation. *)
(*                                                                         *)
(*  - a project has at most one scan queued or running;                    *)
(*  - a scan is queued once, and is then its project's latest scan;        *)
(*  - a scan that succeeded shows its complete report and never changes;   *)
(*  - a scan that failed or was cancelled may be taken up again, because   *)
(*    a message that was not acknowledged, or not revoked in time, runs it *)
(*    again: neither status is final, and the board says so.               *)
(***************************************************************************)
CONSTANTS Scans, NoScan, Projects, ProjectOf

VARIABLES status, latest

vars == <<status, latest>>

InFlight == {"queued", "running"}

Init ==
  /\ status = [s \in Scans |-> "none"]
  /\ latest = [p \in Projects |-> NoScan]

\* s would be the only scan of its project in flight.
Free(s) ==
  \A r \in Scans \ {s} :
    ProjectOf[r] = ProjectOf[s] => status[r] \notin InFlight

Move(s, from, to) ==
  /\ status[s] \in from
  /\ status' = [status EXCEPT ![s] = to]

Queue(s) ==
  /\ Move(s, {"none"}, "queued")
  /\ Free(s)
  /\ latest' = [latest EXCEPT ![ProjectOf[s]] = s]

Run(s) ==
  /\ Move(s, {"queued", "failed", "cancelled"}, "running")
  /\ Free(s)
  /\ UNCHANGED latest

Succeed(s) ==
  /\ Move(s, {"running", "cancelled"}, "succeeded")
  /\ UNCHANGED latest

Fail(s) ==
  /\ Move(s, {"queued", "running", "cancelled"}, "failed")
  /\ UNCHANGED latest

Cancel(s) ==
  /\ Move(s, InFlight, "cancelled")
  /\ UNCHANGED latest

Next ==
  \E s \in Scans :
    Queue(s) \/ Run(s) \/ Succeed(s) \/ Fail(s) \/ Cancel(s)

Spec == Init /\ [][Next]_vars
=============================================================================
