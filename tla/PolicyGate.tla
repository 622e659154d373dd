------------------------------ MODULE PolicyGate ------------------------------
(***************************************************************************)
(* The build gate (services/policy_gate.py, api/v1/policy_gate.py) over    *)
(* the findings of Triage, and the comment it leaves on a pull request     *)
(* (services/sca_comment.py).  One evaluation is three queries, each with  *)
(* a snapshot of its own: the scan, the CVEs, the licences.  The comment   *)
(* is found by its marker and updated, or created.                         *)
(***************************************************************************)
EXTENDS Triage

ASSUME GateAssumption == IsFiniteSet(Requests)

VARIABLES
  greq,     \* the evaluation in each slot
  comments  \* comments with the marker on the pull request

gateVars == <<triageVars, greq, comments>>

MaxComments == Cardinality(Requests)

\* _CLOSED_FINDING_STATUSES; a suppressed finding is open.
Closed == {"not_affected", "fixed", "false_positive"}

OpenCritical(rows, severity) ==
  {v \in Vulns : /\ rows[v].status \notin Closed \union {"none"}
                 /\ severity[v] = "critical"}

\* What the gate says of a scan when nothing else happens.
Verdict(rows, severity, blocked) ==
  IF OpenCritical(rows, severity) = {} /\ ~blocked THEN "pass" ELSE "fail"

Succeeded == {s \in Scans : scan[s].status = "succeeded"}

\* _latest_succeeded_scan_id: by created_at.
LatestSucceeded == CHOOSE s \in Succeeded : \A r \in Succeeded : r <= s

GateInit == TriageInit /\ greq = [c \in Requests |-> Idle] /\ comments = 0

\* Every evaluation under way notes the verdicts its scan would have had since
\* it was chosen (history, for the property).
Watch ==
  greq' = [c \in Requests |->
             IF greq[c].pc \in {"chosen", "counted"}
               THEN [greq[c] EXCEPT !.held = @ \union
                      {Verdict(finding'[greq[c].s], catalogue', greq[c].s \in forbidden')}]
               ELSE greq[c]]

\* No scan has succeeded: no signal, and the gate passes.
PassWithoutScan(c) ==
  /\ greq[c] = Idle /\ treq[c] = Idle
  /\ Succeeded = {}
  /\ greq' = [greq EXCEPT ![c] = [pc |-> "decided", s |-> 0, run |-> 0,
                                  held |-> {"pass"}, gate |-> "pass", open |-> {}]]
  /\ UNCHANGED <<triageVars, comments>>

ChooseScan(c) ==
  /\ greq[c] = Idle /\ treq[c] = Idle
  /\ Succeeded # {}
  /\ greq' = [greq EXCEPT ![c] =
                [pc |-> "chosen", s |-> LatestSucceeded,
                 run |-> scan[LatestSucceeded].run,
                 held |-> {Verdict(finding[LatestSucceeded], catalogue,
                                   LatestSucceeded \in forbidden)},
                 gate |-> "none", open |-> {}]]
  /\ UNCHANGED <<triageVars, comments>>

\* Wrong on purpose: suppressed findings count as closed.
CountUnsuppressed(c) ==
  /\ greq[c].pc = "chosen"
  /\ greq' = [greq EXCEPT ![c] = [@ EXCEPT !.pc = "counted",
       !.open = {v \in OpenCritical(finding[greq[c].s], catalogue) :
                   finding[greq[c].s][v].status # "suppressed"}]]
  /\ UNCHANGED <<triageVars, comments>>

\* _count_open_critical_cves.
CountCves(c) ==
  /\ greq[c].pc = "chosen"
  /\ greq' = [greq EXCEPT ![c] = [@ EXCEPT !.pc = "counted",
                                           !.open = OpenCritical(finding[greq[c].s], catalogue)]]
  /\ UNCHANGED <<triageVars, comments>>

\* _count_forbidden_license_components, and the verdict.
CountLicences(c) ==
  /\ greq[c].pc = "counted"
  /\ greq' = [greq EXCEPT ![c] = [@ EXCEPT !.pc = "decided",
                !.gate = IF greq[c].open = {} /\ greq[c].s \notin forbidden
                           THEN "pass" ELSE "fail"]]
  /\ UNCHANGED <<triageVars, comments>>

\* _find_existing_comment.
ListComments(c) ==
  /\ greq[c].pc = "decided"
  /\ greq' = [greq EXCEPT ![c] = [pc |-> "listed", found |-> comments > 0]]
  /\ UNCHANGED <<triageVars, comments>>

\* _update_comment, or _create_comment.
PostComment(c) ==
  /\ greq[c].pc = "listed"
  /\ comments' = IF greq[c].found THEN comments ELSE comments + 1
  /\ greq' = [greq EXCEPT ![c] = Idle]
  /\ UNCHANGED triageVars

\* The verdict was all that was asked for, or GitHub refused.
EndGate(c) ==
  /\ greq[c] # Idle
  /\ greq' = [greq EXCEPT ![c] = Idle]
  /\ UNCHANGED <<triageVars, comments>>

\* post_pr_comment, after the verdict.
Comments(c) == ListComments(c) \/ PostComment(c) \/ EndGate(c)

GateNext ==
  \/ /\ \/ \E v \in Vulns, severity \in Severities : Resync(v, severity)
        \/ \E s \in Scans : Publishes(s)
        \/ \E c \in Requests : greq[c] = Idle /\ Analyses(c)
     /\ Watch
     /\ UNCHANGED comments
  \/ \E c \in Requests :
       \/ PassWithoutScan(c) \/ ChooseScan(c) \/ CountCves(c) \/ CountLicences(c)
       \/ Comments(c)

GateSpec == GateInit /\ [][GateNext]_gateVars

(***************************************************************************)
(* Properties.                                                             *)
(***************************************************************************)

Verdicts == {"pass", "fail"}

GateRequests ==
  {Idle} \union [pc : {"listed"}, found : BOOLEAN]
    \union [pc : {"chosen", "counted", "decided"}, s : Scans \union {0}, run : 0..2,
            held : SUBSET Verdicts, gate : Verdicts \union {"none"}, open : SUBSET Vulns]

\* The variables stay in their domains; posts that missed each other's comment
\* leave one each.
GateTypeOK ==
  /\ comments \in 0 .. MaxComments
  /\ greq \in [Requests -> GateRequests]

\* A verdict is one that the chosen scan really had at some moment while the
\* gate was evaluated, although three queries made it, whatever was triaged or
\* resynced meanwhile; unless the scan was executed again in between.
VerdictHeld ==
  \A c \in Requests :
    greq[c].pc = "decided" /\ (greq[c].s # 0 => scan[greq[c].s].run = greq[c].run)
      => greq[c].gate \in greq[c].held
===============================================================================
