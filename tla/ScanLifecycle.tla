---------------------------- MODULE ScanLifecycle ----------------------------
(***************************************************************************)
(* One scan, from the request that inserts its row to the worker that      *)
(* settles it: services/scan_service.py and services/webhook_service.py    *)
(* insert and enqueue it, tasks/scan_source.py and tasks/scan_container.py *)
(* run it under Celery with acks_late, services/admin_scan_service.py      *)
(* cancels it.  The three parties share one row in Postgres and one        *)
(* message on the broker, and none of them locks the row across steps      *)
(* except the admin's cancel.                                              *)
(*                                                                         *)
(* One action is one database transaction, one call to the broker, or one  *)
(* event at the worker's Celery process.                                   *)
(***************************************************************************)
EXTENDS Naturals, Sequences, FiniteSets

CONSTANTS
  Scans,      \* ids the INSERTs will hand out
  Projects,
  Workers,    \* Celery worker slots (prefetch 1: one message each)
  NoScan,     \* the null latest_scan_id
  ProjectOf,  \* the project each scan is triggered for
  KindOf,     \* scans.kind, and whether the metadata names an image
  Faults,     \* which environment faults may happen
  MaxFaults   \* how many of them, altogether

Kinds == {"source", "container", "bare"}   \* bare: container without image_ref

AllFaults == {"worker_crash",  \* the worker is lost: its message is redelivered
              "overlap",       \* the message is redelivered while it is running
              "lost_reply",    \* the broker took the message, .delay() raised
              "api_crash",     \* the request dies between two of its commits
              "time_limit"}    \* hard time limit, or the failure is not recorded

ASSUME ConstantsAssumption ==
  /\ NoScan \notin Scans
  /\ ProjectOf \in [Scans -> Projects]
  /\ KindOf \in [Scans -> Kinds]
  /\ Faults \subseteq AllFaults
  /\ MaxFaults \in Nat

VARIABLES
  status,     \* scans.status, "none" before the INSERT
  step,       \* scans.current_step; progress_percent is a function of it
  rows,       \* committed child rows of a scan: components, findings
  tasked,     \* scans whose celery_task_id is stored
  latest,     \* projects.latest_scan_id
  audited,    \* scans with a cancellation in the audit log
  api,        \* where the request that triggers a scan stands
  cancelling, \* scans whose row an admin holds FOR UPDATE
  queue,      \* scans with a message waiting on the broker
  worker,     \* what each worker slot is doing
  revokes,    \* revoke broadcasts on their way to a worker
  revoked,    \* each worker's in-memory set of revoked tasks
  faults      \* faults so far

rowVars == <<status, step, rows, tasked, latest, audited>>
vars == <<status, step, rows, tasked, latest, audited, api, cancelling,
          queue, worker, revokes, revoked, faults>>

InFlight == {"queued", "running"}
Terminal == {"succeeded", "failed", "cancelled"}
Statuses == {"none"} \union InFlight \union Terminal

(***************************************************************************)
(* The pipelines.  A stage name is a _set_stage commit; a Writes entry is  *)
(* a commit of child rows; "succeed" is _mark_succeeded.                   *)
(***************************************************************************)
Stages == {"bootstrap", "fetch", "prep", "cdxgen", "ort", "dt_upload",
           "dt_findings", "trivy", "persist", "finalize"}

Writes == [put_components |-> {"components"},
           put_findings   |-> {"findings"},
           put_report     |-> {"components", "findings"}]

\* Wrong on purpose: the scan ends without its findings.
SourcePipelineWithoutFindings ==
  <<"bootstrap", "fetch", "prep", "cdxgen", "ort", "put_components",
    "dt_upload", "dt_findings", "finalize", "succeed">>

SourcePipeline ==
  <<"bootstrap", "fetch", "prep", "cdxgen", "ort", "put_components",
    "dt_upload", "dt_findings", "put_findings", "finalize", "succeed">>

ContainerPipeline ==
  <<"bootstrap", "trivy", "persist", "put_report", "finalize", "succeed">>

Pipeline(s) == IF KindOf[s] = "source" THEN SourcePipeline
                                       ELSE ContainerPipeline

Report == {"components", "findings"}   \* what a finished scan has stored

(***************************************************************************)
(* Workers.                                                                *)
(***************************************************************************)
Idle == [pc |-> "idle", scan |-> NoScan, seen |-> "none", at |-> 0]

Turn(w, next) == worker' = [worker EXCEPT ![w] = next]

\* w goes on with the same scan, at pc.
GoTo(w, pc) ==
  Turn(w, [pc |-> pc, scan |-> worker[w].scan, seen |-> "none", at |-> 0])

\* w holds the message of s, unacknowledged.
Holds(w, s) == worker[w].scan = s

\* The operation w's pipeline is about to execute.
Op(w) == Pipeline(worker[w].scan)[worker[w].at]

Advance(w) == Turn(w, [worker[w] EXCEPT !.at = @ + 1])

\* Wrong on purpose: the index covers running scans only.
FreeOfRunning(s) ==
  \A r \in Scans \ {s} :
    ProjectOf[r] = ProjectOf[s] => status[r] # "running"

\* No other scan of the project is in flight: ix_scans_project_active.
Free(s) ==
  \A r \in Scans \ {s} :
    ProjectOf[r] = ProjectOf[s] => status[r] \notin InFlight

\* Nobody holds the row FOR UPDATE, so an UPDATE of it, or an INSERT of a
\* child row that references it, goes through.
Unlocked(s) == s \notin cancelling

\* A fault happens, within the bound.
Strike(fault) ==
  /\ fault \in Faults
  /\ faults < MaxFaults
  /\ faults' = faults + 1

Init ==
  /\ status = [s \in Scans |-> "none"]
  /\ step = [s \in Scans |-> "none"]
  /\ rows = [s \in Scans |-> {}]
  /\ tasked = {}
  /\ latest = [p \in Projects |-> NoScan]
  /\ audited = {}
  /\ api = [s \in Scans |-> "idle"]
  /\ cancelling = {}
  /\ queue = {}
  /\ worker = [w \in Workers |-> Idle]
  /\ revokes = {}
  /\ revoked = {}
  /\ faults = 0

(***************************************************************************)
(* The request: trigger_scan, and _enqueue_source_scan for a webhook.      *)
(***************************************************************************)

\* INSERT, latest_scan_id and COMMIT.  When another scan of the project is in
\* flight the index refuses the row and the request ends with a 409.
Trigger(s) ==
  /\ status[s] = "none"
  /\ Free(s)
  /\ status' = [status EXCEPT ![s] = "queued"]
  /\ latest' = [latest EXCEPT ![ProjectOf[s]] = s]
  /\ api' = [api EXCEPT ![s] = "inserted"]
  /\ UNCHANGED <<step, rows, tasked, audited, cancelling, queue, worker,
                 revokes, revoked, faults>>

\* .delay() publishes the message and returns the task id.
Enqueue(s) ==
  /\ api[s] = "inserted"
  /\ queue' = queue \union {s}
  /\ api' = [api EXCEPT ![s] = "enqueued"]
  /\ UNCHANGED <<rowVars, cancelling, worker, revokes, revoked, faults>>

\* Wrong on purpose: the exception is swallowed, the row stays queued.
EnqueueRefusedSilently(s) ==
  /\ api[s] = "inserted"
  /\ api' = [api EXCEPT ![s] = "done"]
  /\ UNCHANGED <<rowVars, cancelling, queue, worker, revokes, revoked, faults>>

\* .delay() raises: nothing was published.
EnqueueRefused(s) ==
  /\ api[s] = "inserted"
  /\ api' = [api EXCEPT ![s] = "failing"]
  /\ UNCHANGED <<rowVars, cancelling, queue, worker, revokes, revoked, faults>>

\* .delay() raises although the broker has the message.
EnqueueReplyLost(s) ==
  /\ api[s] = "inserted"
  /\ Strike("lost_reply")
  /\ queue' = queue \union {s}
  /\ api' = [api EXCEPT ![s] = "failing"]
  /\ UNCHANGED <<rowVars, cancelling, worker, revokes, revoked>>

\* The second commit: the task id, which cancel_scan needs to revoke.
StoreTaskId(s) ==
  /\ api[s] = "enqueued"
  /\ Unlocked(s)
  /\ tasked' = tasked \union {s}
  /\ api' = [api EXCEPT ![s] = "done"]
  /\ UNCHANGED <<status, step, rows, latest, audited, cancelling, queue,
                 worker, revokes, revoked, faults>>

\* The except branch: status = 'failed', whatever the row says by now.
MarkEnqueueFailed(s) ==
  /\ api[s] = "failing"
  /\ Unlocked(s)
  /\ status' = [status EXCEPT ![s] = "failed"]
  /\ api' = [api EXCEPT ![s] = "done"]
  /\ UNCHANGED <<step, rows, tasked, latest, audited, cancelling, queue,
                 worker, revokes, revoked, faults>>

\* The process dies, or its last commit fails and is rolled back.
ApiCrash(s) ==
  /\ api[s] \in {"inserted", "enqueued", "failing"}
  /\ Strike("api_crash")
  /\ api' = [api EXCEPT ![s] = "done"]
  /\ UNCHANGED <<rowVars, cancelling, queue, worker, revokes, revoked>>

(***************************************************************************)
(* The worker: scan_source_task and scan_container_task.                   *)
(***************************************************************************)

\* Wrong on purpose: a scan that succeeded is run again.
DeliverWithoutSkip(w, s) ==
  /\ worker[w] = Idle
  /\ s \in queue
  /\ <<w, s>> \notin revoked
  /\ queue' = queue \ {s}
  /\ Turn(w, [pc |-> "read", scan |-> s, seen |-> status[s], at |-> 0])
  /\ UNCHANGED <<rowVars, api, cancelling, revokes, revoked, faults>>

\* A free slot takes the message and reads the row.  A scan that succeeded is
\* skipped: the task returns and the message will be acknowledged.
Deliver(w, s) ==
  /\ worker[w] = Idle
  /\ s \in queue
  /\ <<w, s>> \notin revoked
  /\ queue' = queue \ {s}
  /\ Turn(w, [pc   |-> IF status[s] = "succeeded" THEN "ack" ELSE "read",
              scan |-> s, seen |-> status[s], at |-> 0])
  /\ UNCHANGED <<rowVars, api, cancelling, revokes, revoked, faults>>

\* Celery discards a message whose task it remembers as revoked.
Discard(w, s) ==
  /\ worker[w] = Idle
  /\ s \in queue
  /\ <<w, s>> \in revoked
  /\ queue' = queue \ {s}
  /\ UNCHANGED <<rowVars, api, cancelling, worker, revokes, revoked, faults>>

\* _mark_failed in the task's first session: the metadata names no image.
RejectBare(w) ==
  LET s == worker[w].scan IN
  /\ worker[w].pc = "read"
  /\ KindOf[s] = "bare"
  /\ Unlocked(s)
  /\ status' = [status EXCEPT ![s] = "failed"]
  /\ GoTo(w, "ack")
  /\ UNCHANGED <<step, rows, tasked, latest, audited, api, cancelling, queue,
                 revokes, revoked, faults>>

\* Wrong on purpose: the reset does not take the scan out of queued.
MarkRunningWithoutStatus(w) ==
  LET s == worker[w].scan IN
  /\ worker[w].pc = "read"
  /\ KindOf[s] # "bare"
  /\ Unlocked(s)
  /\ step' = [step EXCEPT ![s] = "bootstrap"]
  /\ rows' = [rows EXCEPT ![s] = {}]
  /\ Turn(w, [pc |-> "pipe", scan |-> s, seen |-> "none", at |-> 1])
  /\ UNCHANGED <<status, tasked, latest, audited, api, cancelling, queue,
                 revokes, revoked, faults>>

\* _reset_scan_for_rerun and _mark_running, one transaction.  The ORM leaves
\* status out of the UPDATE when the value read was already 'running'.
MarkRunning(w) ==
  LET s == worker[w].scan
      writes == worker[w].seen # "running" IN
  /\ worker[w].pc = "read"
  /\ KindOf[s] # "bare"
  /\ Unlocked(s)
  /\ writes => Free(s)
  /\ status' = [status EXCEPT ![s] = IF writes THEN "running" ELSE @]
  /\ step' = [step EXCEPT ![s] = "bootstrap"]
  /\ rows' = [rows EXCEPT ![s] = {}]
  /\ Turn(w, [pc |-> "pipe", scan |-> s, seen |-> "none", at |-> 1])
  /\ UNCHANGED <<tasked, latest, audited, api, cancelling, queue,
                 revokes, revoked, faults>>

\* The same transaction, refused by ix_scans_project_active.
Collide(w) ==
  LET s == worker[w].scan IN
  /\ worker[w].pc = "read"
  /\ KindOf[s] # "bare"
  /\ worker[w].seen # "running"
  /\ ~Free(s)
  /\ GoTo(w, "failing")
  /\ UNCHANGED <<rowVars, api, cancelling, queue, revokes, revoked, faults>>

\* _set_stage: read, write current_step, commit, publish.
SetStage(w) ==
  LET s == worker[w].scan IN
  /\ worker[w].pc = "pipe"
  /\ Op(w) \in Stages
  /\ Unlocked(s)
  /\ step' = [step EXCEPT ![s] = Op(w)]
  /\ Advance(w)
  /\ UNCHANGED <<status, rows, tasked, latest, audited, api, cancelling,
                 queue, revokes, revoked, faults>>

\* _persist_components, _persist_findings, _persist_trivy_report.  Over rows
\* another execution left, an empty SBOM or finding list goes through; any
\* other meets a unique constraint, which is a Raise.
Persist(w) ==
  LET s == worker[w].scan IN
  /\ worker[w].pc = "pipe"
  /\ Op(w) \in DOMAIN Writes
  /\ Unlocked(s)
  /\ rows' = [rows EXCEPT ![s] = @ \union Writes[Op(w)]]
  /\ Advance(w)
  /\ UNCHANGED <<status, step, tasked, latest, audited, api, cancelling,
                 queue, revokes, revoked, faults>>

\* A stage raises: a refused fetch, a failing tool, DT unavailable, a unique
\* constraint, a lost database connection.
Raise(w) ==
  /\ worker[w].pc \in {"read", "pipe"}
  /\ GoTo(w, "failing")
  /\ UNCHANGED <<rowVars, api, cancelling, queue, revokes, revoked, faults>>

\* Wrong on purpose: the outcome is written into current_step.
SucceedInStep(w) ==
  LET s == worker[w].scan IN
  /\ worker[w].pc = "pipe"
  /\ Op(w) = "succeed"
  /\ Unlocked(s)
  /\ status' = [status EXCEPT ![s] = "succeeded"]
  /\ step' = [step EXCEPT ![s] = "succeeded"]
  /\ GoTo(w, "ack")
  /\ UNCHANGED <<rows, tasked, latest, audited, api, cancelling, queue,
                 revokes, revoked, faults>>

\* _mark_succeeded: whatever the row says by now.
Succeed(w) ==
  LET s == worker[w].scan IN
  /\ worker[w].pc = "pipe"
  /\ Op(w) = "succeed"
  /\ Unlocked(s)
  /\ status' = [status EXCEPT ![s] = "succeeded"]
  /\ step' = [step EXCEPT ![s] = "finalize"]
  /\ GoTo(w, "ack")
  /\ UNCHANGED <<rows, tasked, latest, audited, api, cancelling, queue,
                 revokes, revoked, faults>>

\* _record_terminal_failure: whatever the row says by now.
RecordFailure(w) ==
  LET s == worker[w].scan IN
  /\ worker[w].pc = "failing"
  /\ Unlocked(s)
  /\ status' = [status EXCEPT ![s] = "failed"]
  /\ GoTo(w, "ack")
  /\ UNCHANGED <<step, rows, tasked, latest, audited, api, cancelling, queue,
                 revokes, revoked, faults>>

\* The task returned: acks_late acknowledges the message now.
Ack(w) ==
  /\ worker[w].pc = "ack"
  /\ Turn(w, Idle)
  /\ UNCHANGED <<rowVars, api, cancelling, queue, revokes, revoked, faults>>

\* Wrong on purpose: messages are acknowledged on receipt (no acks_late).
WorkerCrashAfterEarlyAck(w) ==
  /\ Strike("worker_crash")
  /\ Turn(w, Idle)
  /\ revokes' = {r \in revokes : r[1] # w}
  /\ revoked' = {r \in revoked : r[1] # w}
  /\ UNCHANGED <<rowVars, api, cancelling, queue>>

\* The worker is lost or restarted.  Its unacknowledged message is delivered
\* again; what it remembered of revocations, and those on their way to it,
\* are gone.
WorkerCrash(w) ==
  /\ Strike("worker_crash")
  /\ queue' = queue \union {s \in Scans : Holds(w, s)}
  /\ Turn(w, Idle)
  /\ revokes' = {r \in revokes : r[1] # w}
  /\ revoked' = {r \in revoked : r[1] # w}
  /\ UNCHANGED <<rowVars, api, cancelling>>

\* time_limit kills the task, or the failure cannot be recorded: the message
\* is acknowledged and the row keeps what it says.
HardLimit(w) ==
  /\ worker[w].pc \in {"read", "pipe", "failing"}
  /\ Strike("time_limit")
  /\ Turn(w, Idle)
  /\ UNCHANGED <<rowVars, api, cancelling, queue, revokes, revoked>>

\* The task outlives the broker's visibility timeout: the message goes back
\* to the queue while w is still at it.
Redeliver(w) ==
  /\ worker[w].pc # "idle"
  /\ Strike("overlap")
  /\ queue' = queue \union {s \in Scans : Holds(w, s)}
  /\ UNCHANGED <<rowVars, api, cancelling, worker, revokes, revoked>>

(***************************************************************************)
(* The admin: cancel_scan.                                                 *)
(***************************************************************************)

\* Wrong on purpose: the guard forgets that failed is terminal too.
LockAndRevokeFailed(s) ==
  /\ status[s] \in InFlight \union {"failed"}
  /\ Unlocked(s)
  /\ cancelling' = cancelling \union {s}
  /\ \/ revokes' = revokes
     \/ /\ s \in tasked
        /\ revokes' = revokes \union (Workers \X {s})
  /\ UNCHANGED <<rowVars, api, queue, worker, revoked, faults>>

\* SELECT ... FOR UPDATE, the 409 guard, then revoke(terminate=True) if the
\* row has a task id; a broker that cannot be reached is ignored.
LockAndRevoke(s) ==
  /\ status[s] \in InFlight
  /\ Unlocked(s)
  /\ cancelling' = cancelling \union {s}
  /\ \/ revokes' = revokes
     \/ /\ s \in tasked
        /\ revokes' = revokes \union (Workers \X {s})
  /\ UNCHANGED <<rowVars, api, queue, worker, revoked, faults>>

\* status = 'cancelled', COMMIT, and with it the audit row.
CommitCancel(s) ==
  /\ s \in cancelling
  /\ status' = [status EXCEPT ![s] = "cancelled"]
  /\ audited' = audited \union {s}
  /\ cancelling' = cancelling \ {s}
  /\ UNCHANGED <<step, rows, tasked, latest, api, queue, worker, revokes,
                 revoked, faults>>

\* The request dies after the revoke: the transaction rolls back.
AbortCancel(s) ==
  /\ s \in cancelling
  /\ Strike("api_crash")
  /\ cancelling' = cancelling \ {s}
  /\ UNCHANGED <<rowVars, api, queue, worker, revokes, revoked>>

\* The broadcast reaches a worker: it remembers the task, and if it is
\* executing it, terminates the child and acknowledges the message.
RevokeArrives(w, s) ==
  /\ <<w, s>> \in revokes
  /\ revokes' = revokes \ {<<w, s>>}
  /\ revoked' = revoked \union {<<w, s>>}
  /\ worker' = IF Holds(w, s) THEN [worker EXCEPT ![w] = Idle] ELSE worker
  /\ UNCHANGED <<rowVars, api, cancelling, queue, faults>>

RequestStep(s) ==
  \/ Trigger(s) \/ Enqueue(s) \/ EnqueueRefused(s) \/ EnqueueReplyLost(s)
  \/ StoreTaskId(s) \/ MarkEnqueueFailed(s) \/ ApiCrash(s)

AdminStep(s) == LockAndRevoke(s) \/ CommitCancel(s) \/ AbortCancel(s)

MessageStep(w, s) == Deliver(w, s) \/ Discard(w, s) \/ RevokeArrives(w, s)

TaskStep(w) ==
  \/ RejectBare(w) \/ MarkRunning(w) \/ Collide(w) \/ SetStage(w)
  \/ Persist(w) \/ Raise(w) \/ Succeed(w) \/ RecordFailure(w) \/ Ack(w)

FaultStep(w) == WorkerCrash(w) \/ HardLimit(w) \/ Redeliver(w)

Next ==
  \/ \E s \in Scans : RequestStep(s) \/ AdminStep(s)
  \/ \E w \in Workers, s \in Scans : MessageStep(w, s)
  \/ \E w \in Workers : TaskStep(w) \/ FaultStep(w)

Spec == Init /\ [][Next]_vars

(***************************************************************************)
(* Properties.                                                             *)
(***************************************************************************)

\* The states of a worker slot.
Slots == [pc   : {"idle", "read", "pipe", "failing", "ack"},
          scan : Scans \union {NoScan},
          seen : Statuses,
          at   : Nat]

\* Every variable stays in its domain.
TypeOK ==
  /\ status \in [Scans -> Statuses]
  /\ step \in [Scans -> Stages \union {"none"}]
  /\ rows \in [Scans -> SUBSET Report]
  /\ tasked \subseteq Scans
  /\ latest \in [Projects -> Scans \union {NoScan}]
  /\ audited \subseteq Scans
  /\ api \in [Scans -> {"idle", "inserted", "enqueued", "failing", "done"}]
  /\ cancelling \subseteq Scans
  /\ queue \subseteq Scans
  /\ worker \in [Workers -> Slots]
  /\ revokes \subseteq Workers \X Scans
  /\ revoked \subseteq Workers \X Scans
  /\ faults \in Nat

\* Whatever is redelivered, re-run, cancelled or failed late, a project never
\* has two scans in flight: no write of the worker brings back a scan beside
\* the one that took its place (the UPDATE is refused like the INSERT is).
OneActivePerProject ==
  \A r, s \in Scans :
    /\ ProjectOf[r] = ProjectOf[s]
    /\ status[r] \in InFlight
    /\ status[s] \in InFlight
    => r = s

\* A scan the board shows as queued is its project's latest, has nothing of
\* an earlier execution left to show, and no execution of it is past its
\* first transaction: "queued" never hides a run (a late worker may turn a
\* settled scan to running again, never to queued).
QueuedIsFresh ==
  \A s \in Scans : status[s] = "queued" =>
    /\ latest[ProjectOf[s]] = s
    /\ rows[s] = {}
    /\ step[s] = "none"
    /\ \A w \in Workers : Holds(w, s) => worker[w].pc \in {"read", "failing"}

\* Somebody will still act on the row of s: its message waits, an execution
\* has not written its outcome, the request has not enqueued it or has yet to
\* mark it failed, or an admin is about to cancel it.
Owned(s) ==
  \/ s \in queue
  \/ s \in cancelling
  \/ api[s] \in {"inserted", "failing"}
  \/ \E w \in Workers :
       Holds(w, s) /\ worker[w].pc \in {"read", "pipe", "failing"}

\* These leave a scan in flight with nobody to move it.
StrandingFaults == {"api_crash", "time_limit"}

\* No scan stays queued or running with nobody left to move it (its project
\* would refuse every new scan), through crashes, redeliveries and lost
\* replies of the broker.  A scan an admin cancelled is excepted: a task that
\* read the row before the cancel marks it running after, and the revoke then
\* kills that task.
NothingStranded ==
  Faults \intersect StrandingFaults = {} =>
    \A s \in Scans : status[s] \in InFlight => Owned(s) \/ s \in audited

\* A message is delivered to one execution at a time.
OnceAtATime == Faults \intersect {"overlap", "lost_reply"} = {}

\* While deliveries do not overlap, an execution is alone with its scan: its
\* message is not also waiting on the broker, and no second worker has it.
OneExecution ==
  OnceAtATime =>
    \A w \in Workers, s \in Scans : Holds(w, s) =>
      /\ s \notin queue
      /\ \A v \in Workers : Holds(v, s) => v = w

\* While deliveries do not overlap, a scan that says succeeded shows the whole
\* report and the last step, although a re-execution first deletes the rows
\* of the run before it.
CompleteWhenSucceeded ==
  OnceAtATime =>
    \A s \in Scans : status[s] = "succeeded" =>
      rows[s] = Report /\ step[s] = "finalize"

\* While deliveries do not overlap, no late worker, cancel or request takes
\* the success of a scan back, or touches its report.
SucceededIsFinal ==
  [][OnceAtATime =>
       \A s \in Scans : status[s] = "succeeded" =>
         status'[s] = "succeeded" /\ rows'[s] = rows[s]]_vars

\* cancel_scan says of the task it revokes that the cancel "still wins" and
\* that "the worker's own progress hooks check for this and bail out".  So a
\* task never moves a row that says cancelled.
CancelSticks ==
  [][\A w \in Workers, s \in Scans :
       status[s] = "cancelled" /\ Holds(w, s) /\ worker'[w] # worker[w]
         => status'[s] = "cancelled"]_vars

(***************************************************************************)
(* The board, refined: status and latest are what readers see.             *)
(***************************************************************************)
Board == INSTANCE ScanBoard
  WITH Scans <- Scans, NoScan <- NoScan, Projects <- Projects, ProjectOf <- ProjectOf,
       status <- status, latest <- latest

\* While deliveries do not overlap, the three parties together implement the
\* board of ScanBoard.
ImplementsBoard == Board!Spec

(***************************************************************************)
(* Fairness: the workers run, the broker delivers, and a request or a      *)
(* cancel that started is carried on.  Nothing obliges a user to trigger a *)
(* scan, an admin to cancel one, a stage to raise, or a fault to happen.   *)
(***************************************************************************)
Fairness ==
  /\ \A s \in Scans :
       /\ WF_vars(Enqueue(s) \/ EnqueueRefused(s) \/ EnqueueReplyLost(s))
       /\ WF_vars(StoreTaskId(s) \/ MarkEnqueueFailed(s))
       /\ WF_vars(CommitCancel(s))
  /\ \A w \in Workers :
       /\ WF_vars(TaskStep(w))
       /\ WF_vars(\E s \in Scans : MessageStep(w, s))

FairSpec == Spec /\ Fairness

\* Every scan in flight settles, or an admin cancelled it and the race above
\* stranded it: no crash, redelivery or refused enqueue leaves a project
\* blocked for ever.
EveryScanSettles ==
  \A s \in Scans :
    status[s] \in InFlight ~> (status[s] \in Terminal \/ s \in audited)
=============================================================================
