-------------------------------- MODULE Triage --------------------------------
(***************************************************************************)
(* The findings of a project's scans and what the analysts make of them    *)
(* (services/vulnerability_service.py).  A scan publishes findings for the *)
(* vulnerabilities of the catalogue, which tasks/dt_resync.py refreshes;   *)
(* a re-run deletes them and publishes new ones, with new ids.  An analyst *)
(* opens a finding and later sends a PATCH: the transaction begins, locks  *)
(* the finding, checks if_match and the matrix, and commits the status     *)
(* with an audit row, whose created_at is the start of the transaction.    *)
(***************************************************************************)
EXTENDS Portal, FiniteSets, Naturals

CONSTANTS
  Scans,        \* numbers, in the order of created_at
  Vulns,
  RunTwice,     \* bound: the scans that may be executed a second time
  MaxPatches    \* bound: PATCH requests in a behaviour

ASSUME TriageAssumption ==
  /\ MaxPatches \in Nat
  /\ IsFiniteSet(Scans) /\ Scans \subseteq Nat \ {0}

VARIABLES
  catalogue,  \* vulnerabilities.severity; "absent" before the first resync
  scan,       \* scans.status of each scan, and which execution wrote its rows
  finding,    \* the rows of each scan by vulnerability; NoFinding without one
  forbidden,  \* the scans with a component under a forbidden licence
  clock,      \* transactions begun so far
  treq

triageVars == <<catalogue, scan, finding, forbidden, clock, treq>>

Severities == {"critical", "high"}
Terminal == {"exploitable", "not_affected", "false_positive", "fixed", "suppressed"}
FindingStatuses == {"new", "analyzing"} \union Terminal

NoFinding == [status |-> "none", log |-> {}]
NewFinding == [status |-> "new", log |-> {}]

\* STATUS_TRANSITIONS.
Transitions(from) ==
  CASE from = "new"       -> {"analyzing", "suppressed"}
    [] from = "analyzing" -> Terminal
    [] OTHER              -> {"analyzing"}

\* _assert_can_transition, for an actor who is a team_admin or not.
MayMove(from, to, admin) ==
  to \in Transitions(from) /\ (to = "suppressed" => admin)

\* The rows _persist_findings adds for what DT reports: vulnerabilities that
\* the catalogue does not know yet are skipped.
FindingsFor(reported) ==
  [v \in Vulns |-> IF v \in reported /\ catalogue[v] # "absent"
                     THEN NewFinding ELSE NoFinding]

NoFindings == [v \in Vulns |-> NoFinding]

TriageInit ==
  /\ catalogue = [v \in Vulns |-> "absent"]
  /\ scan = [s \in Scans |-> [status |-> "absent", run |-> 0]]
  /\ finding = [s \in Scans |-> NoFindings]
  /\ forbidden = {}
  /\ clock = 0
  /\ treq = [c \in Requests |-> Idle]

-------------------------------------------------------------------------------

\* _upsert_vulnerability: the severity is what DT says now.
Resync(v, severity) ==
  /\ catalogue[v] # severity
  /\ catalogue' = [catalogue EXCEPT ![v] = severity]
  /\ UNCHANGED <<scan, finding, forbidden, clock, treq>>

Locked(s, v) ==
  \E c \in Requests : treq[c].pc = "locked" /\ treq[c].s = s /\ treq[c].v = v

\* An execution starts: the rows of the one before it are deleted.  A scan that
\* succeeded is started again when its message was delivered twice.
StartScan(s) ==
  /\ scan[s].run < IF s \in RunTwice THEN 2 ELSE 1
  /\ \A r \in Scans : r < s => scan[r].status # "absent"
  /\ \A v \in Vulns : ~Locked(s, v)
  /\ scan' = [scan EXCEPT ![s] = [status |-> "running", run |-> @.run + 1]]
  /\ finding' = [finding EXCEPT ![s] = NoFindings]
  /\ forbidden' = forbidden \ {s}
  /\ UNCHANGED <<catalogue, clock, treq>>

\* The pipeline of a source scan commits its rows and the outcome.
PublishSource(s, reported, blocked) ==
  /\ scan[s].status = "running"
  /\ scan' = [scan EXCEPT ![s].status = "succeeded"]
  /\ finding' = [finding EXCEPT ![s] = FindingsFor(reported)]
  /\ forbidden' = IF blocked THEN forbidden \union {s} ELSE forbidden
  /\ UNCHANGED <<catalogue, clock, treq>>

\* _persist_trivy_report: a vulnerability that is not in the catalogue is put
\* there, with trivy's severity.  There are no licences.
PublishImage(s, v, severity) ==
  /\ scan[s].status = "running"
  /\ catalogue' = [catalogue EXCEPT ![v] = IF @ = "absent" THEN severity ELSE @]
  /\ scan' = [scan EXCEPT ![s].status = "succeeded"]
  /\ finding' = [finding EXCEPT ![s][v] = NewFinding]
  /\ UNCHANGED <<forbidden, clock, treq>>

FailScan(s) ==
  /\ scan[s].status = "running"
  /\ scan' = [scan EXCEPT ![s].status = "failed"]
  /\ UNCHANGED <<catalogue, finding, forbidden, clock, treq>>

-------------------------------------------------------------------------------

\* get_vulnerability_detail: the analyst sees the status and the version.
OpenFinding(c, s, v) ==
  /\ treq[c] = Idle
  /\ clock < MaxPatches
  /\ finding[s][v] # NoFinding
  /\ treq' = [treq EXCEPT ![c] = [pc |-> "viewing", s |-> s, v |-> v,
                                  run |-> scan[s].run, seen |-> finding[s][v]]]
  /\ UNCHANGED <<catalogue, scan, finding, forbidden, clock>>

\* The PATCH arrives; its first statement, which loads the user, begins the
\* transaction.
SendPatch(c, to, match) ==
  /\ treq[c].pc = "viewing"
  /\ clock < MaxPatches
  /\ clock' = clock + 1
  /\ treq' = [treq EXCEPT ![c] = [pc |-> "begun", s |-> @.s, v |-> @.v,
                                  run |-> @.run, seen |-> @.seen, to |-> to,
                                  match |-> match, at |-> clock, found |-> NoFinding]]
  /\ UNCHANGED <<catalogue, scan, finding, forbidden>>

\* The finding is still there, unchanged if the caller asked for that, and the
\* matrix allows the move.
Admits(c, admin) ==
  LET row == finding[treq[c].s][treq[c].v] IN
  /\ row # NoFinding
  /\ scan[treq[c].s].run = treq[c].run
  /\ treq[c].match => row = treq[c].seen
  /\ MayMove(row.status, treq[c].to, admin)

\* Wrong on purpose: the finding is read without FOR UPDATE.
LoadUnlocked(c, admin) ==
  /\ treq[c].pc = "begun"
  /\ Admits(c, admin)
  /\ treq' = [treq EXCEPT ![c] = [@ EXCEPT !.pc = "locked",
                 !.found = finding[treq[c].s][treq[c].v]]]
  /\ UNCHANGED <<catalogue, scan, finding, forbidden, clock>>

\* _load_finding_with_project with FOR UPDATE, if_match and the guard.
LockFinding(c, admin) ==
  /\ treq[c].pc = "begun"
  /\ ~Locked(treq[c].s, treq[c].v)
  /\ Admits(c, admin)
  /\ treq' = [treq EXCEPT ![c] = [@ EXCEPT !.pc = "locked",
                 !.found = finding[treq[c].s][treq[c].v]]]
  /\ UNCHANGED <<catalogue, scan, finding, forbidden, clock>>

\* The UPDATE, the audit row of the flush listener, and COMMIT.
CommitStatus(c) ==
  LET row == finding[treq[c].s][treq[c].v] IN
  /\ treq[c].pc = "locked"
  /\ finding' = [finding EXCEPT ![treq[c].s][treq[c].v] =
                   [status |-> treq[c].to,
                    log    |-> row.log \union {[at |-> treq[c].at, to |-> treq[c].to]}]]
  /\ treq' = [treq EXCEPT ![c] = Idle]
  /\ UNCHANGED <<catalogue, scan, forbidden, clock>>

\* 404, 409, 422, 403, a failure, or an analyst who goes away.
EndPatch(c) ==
  /\ treq[c] # Idle
  /\ treq' = [treq EXCEPT ![c] = Idle]
  /\ UNCHANGED <<catalogue, scan, finding, forbidden, clock>>

\* What the scans and the resync do.
Publishes(s) ==
  \/ StartScan(s) \/ FailScan(s)
  \/ \E reported \in SUBSET Vulns, blocked \in BOOLEAN :
       PublishSource(s, reported, blocked)
  \/ \E v \in Vulns, severity \in Severities : PublishImage(s, v, severity)

\* What the analysts do.
Analyses(c) ==
  \/ \E s \in Scans, v \in Vulns : OpenFinding(c, s, v)
  \/ \E to \in FindingStatuses, match \in BOOLEAN : SendPatch(c, to, match)
  \/ \E admin \in BOOLEAN : LockFinding(c, admin)
  \/ CommitStatus(c) \/ EndPatch(c)

TriageNext ==
  \/ \E v \in Vulns, severity \in Severities : Resync(v, severity)
  \/ \E s \in Scans : Publishes(s)
  \/ \E c \in Requests : Analyses(c)

TriageSpec == TriageInit /\ [][TriageNext]_triageVars

-------------------------------------------------------------------------------

\* _load_status_history: the audit rows of a finding by created_at, each with
\* the status of the row before it, the first with the 'new' it was created in.
PreviousStatus(log, row) ==
  LET before == {r \in log : r.at < row.at} IN
  IF before = {} THEN "new"
    ELSE (CHOOSE r \in before : \A q \in before : q.at <= r.at).to

StatusHistory(log) ==
  {[at |-> r.at, previous |-> PreviousStatus(log, r), new |-> r.to] : r \in log}

(***************************************************************************)
(* Properties.                                                             *)
(***************************************************************************)

Rows == [status : FindingStatuses \union {"none"}, log : SUBSET [at : Nat, to : FindingStatuses]]

PatchRequests ==
  {Idle}
    \union [pc : {"viewing"}, s : Scans, v : Vulns, run : 0..2, seen : Rows]
    \union [pc : {"begun", "locked"}, s : Scans, v : Vulns, run : 0..2, seen : Rows,
            to : FindingStatuses, match : BOOLEAN, at : Nat, found : Rows]

\* The variables stay in their domains.
TriageTypeOK ==
  /\ catalogue \in [Vulns -> Severities \union {"absent"}]
  /\ scan \in [Scans -> [status : {"absent", "running", "succeeded", "failed"}, run : 0..2]]
  /\ finding \in [Scans -> [Vulns -> Rows]]
  /\ forbidden \subseteq Scans
  /\ clock \in 0..MaxPatches
  /\ treq \in [Requests -> PatchRequests]

\* A finding is moved only along the matrix, and, when the analyst sent
\* if_match, only from what that analyst saw: no decision of another analyst in
\* between is overwritten unseen.
MovesAreSeen ==
  [][\A s \in Scans, v \in Vulns :
       LET old == finding[s][v]
           new == finding'[s][v] IN
       old # NoFinding /\ new # old /\ scan'[s] = scan[s] =>
         /\ new.status \in Transitions(old.status)
         /\ \E c \in Requests :
              treq[c].pc = "locked" /\ treq'[c] = Idle
                /\ (treq[c].match => treq[c].seen = old)]_triageVars

\* The history shown with a finding is one that happened: every entry is a move
\* that the matrix allows from the status shown before it.
HistoryIsPossible ==
  \A s \in Scans, v \in Vulns :
    \A entry \in StatusHistory(finding[s][v].log) :
      entry.new \in Transitions(entry.previous)
===============================================================================
