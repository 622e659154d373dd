---------------------------- MODULE OrphanCleanup ----------------------------
(***************************************************************************)
(* Deleting the Dependency-Track projects whose scan is gone               *)
(* (services/admin_dt_service.list_orphans and enqueue_orphan_cleanup, and *)
(* tasks/dt_orphan_cleanup.py), while scans are asked for, upload their    *)
(* SBOM and go.  The endpoint takes a Redis lock with a time to live and   *)
(* publishes a task; the task deletes the projects one by one, writes an   *)
(* audit row for each, and deletes the lock unless it is about to be       *)
(* retried.  The version of a DT project is the id of its scan; here both  *)
(* have one name, and a scan has at most one project, a bound.             *)
(***************************************************************************)
EXTENDS Portal, FiniteSets, Naturals

CONSTANTS
  Projects,    \* scans, and the DT projects made for them
  Cleanups,    \* cleanup tasks
  MaxRetries   \* max_retries of the task

ASSUME CleanupsAssumption == "free" \notin Cleanups /\ MaxRetries \in Nat

VARIABLES
  born,         \* the scans that there are or were
  scans,        \* the scans in the database
  made,         \* the projects that DT has or had
  dtProjects,   \* the projects in DT
  page,         \* what list_orphans has read of DT and not yet compared
  shown,        \* what it has ever shown as orphans (history)
  cleanupLock,  \* dt:admin:orphan_cleanup_lock: the task it was taken for, or "free"
  expires,      \* the lock has a time to live
  task,         \* each task
  audited,      \* projects with an audit row of the clean-up
  overtaken     \* tasks whose lock expired or was dropped by somebody else (history)

dtVars == <<born, scans, made, dtProjects, page, shown>>

cleanupVars == <<dtVars, cleanupLock, expires, task, audited, overtaken>>

NotSent ==
  [pc |-> "none", chosen |-> {}, todo |-> {}, current |-> {}, failed |-> {}, retries |-> 0]

\* A message that was given up, or never sent.
Gone == [NotSent EXCEPT !.pc = "lost"]

\* The message of a task, with its arguments and the count of its retries.
Requeued(k, n) ==
  [NotSent EXCEPT !.pc = "queued", !.chosen = k.chosen, !.retries = n]

\* The task is about to have, or has, a message in the broker or a worker.
Alive(t) ==
  task[t].pc \in {"taken", "queued", "paging", "classifying", "working", "auditing", "skipping"}

\* The task that t takes the lock from when it deletes the key.
Robbed(t) == {cleanupLock} \ {t, "free"}

\* Wrong on purpose: every project of the page is taken for an orphan.
AllOfPage(listed) == listed

\* _classify_page and _classify_into: those whose version is no scan's id.
Orphans(listed) == listed \ scans

CleanupInit ==
  /\ born = {} /\ scans = {}
  /\ made = {} /\ dtProjects = {}
  /\ page = {} /\ shown = {}
  /\ cleanupLock = "free"
  /\ expires = FALSE
  /\ task = [t \in Cleanups |-> NotSent]
  /\ audited = {}
  /\ overtaken = {}

-------------------------------------------------------------------------------

\* A scan is asked for; its row is committed before anybody works on it.
NewScan(p) ==
  /\ p \notin born
  /\ born' = born \union {p}
  /\ scans' = scans \union {p}
  /\ UNCHANGED <<made, dtProjects, page, shown, cleanupLock, expires, task, audited, overtaken>>

\* upsert_project, by the scan's worker, who may be late: the scan may have gone.
UpsertProject(p) ==
  /\ p \in born \ made
  /\ made' = made \union {p}
  /\ dtProjects' = dtProjects \union {p}
  /\ UNCHANGED <<born, scans, page, shown, cleanupLock, expires, task, audited, overtaken>>

\* A project of the portal is deleted, with its scans.
DropScan(p) ==
  /\ p \in scans
  /\ scans' = scans \ {p}
  /\ UNCHANGED <<born, made, dtProjects, page, shown>>
  /\ UNCHANGED <<cleanupLock, expires, task, audited, overtaken>>

\* list_orphans, for an administrator: a page of DT is read, and then compared with the
\* scans.  Pages go by number, so that they may show any of the projects.
ListOrphans(listed) ==
  /\ page = {} /\ listed # {}
  /\ listed \subseteq dtProjects
  /\ page' = listed
  /\ UNCHANGED <<born, scans, made, dtProjects, shown>>
  /\ UNCHANGED <<cleanupLock, expires, task, audited, overtaken>>

ShowOrphans ==
  /\ page # {}
  /\ shown' = shown \union Orphans(page)
  /\ page' = {}
  /\ UNCHANGED <<born, scans, made, dtProjects, cleanupLock, expires, task, audited, overtaken>>

\* SET NX EX.  Whatever is posted is chosen, with no look at the scans.  With nothing
\* chosen, which the endpoint refuses and this function does not, the task looks for all
\* the orphans itself.
TakeLock(t, chosen) ==
  /\ task[t] = NotSent
  /\ cleanupLock = "free"
  /\ cleanupLock' = t
  /\ expires' = TRUE
  /\ task' = [task EXCEPT ![t] = [@ EXCEPT !.pc = "taken", !.chosen = chosen]]
  /\ UNCHANGED <<dtVars, audited, overtaken>>

\* delay() publishes the message.
Publish(t) ==
  /\ task[t].pc = "taken"
  /\ task' = [task EXCEPT ![t] = [@ EXCEPT !.pc = "queued"]]
  /\ UNCHANGED <<dtVars, cleanupLock, expires, audited, overtaken>>

\* delay() raises: the lock is deleted, whoever has it.  The broker may have
\* taken the message all the same.
PublishFails(t, sent) ==
  /\ task[t].pc = "taken"
  /\ task' = [task EXCEPT ![t] = IF sent THEN Requeued(@, 0) ELSE Gone]
  /\ overtaken' = overtaken \union Robbed(t) \union (IF sent THEN {t} ELSE {})
  /\ cleanupLock' = "free"
  /\ UNCHANGED <<dtVars, expires, audited>>

\* The API process dies with the lock taken and nothing published.
LoseRequest(t) ==
  /\ task[t].pc = "taken"
  /\ task' = [task EXCEPT ![t] = Gone]
  /\ UNCHANGED <<dtVars, cleanupLock, expires, audited, overtaken>>

\* The time to live of the lock is over.
ExpireLock ==
  /\ cleanupLock # "free"
  /\ expires
  /\ overtaken' = overtaken \union {cleanupLock}
  /\ cleanupLock' = "free"
  /\ UNCHANGED <<dtVars, expires, task, audited>>

-------------------------------------------------------------------------------

\* What was chosen is deleted as it is; otherwise the pages of DT are read.
StartCleanup(t) ==
  /\ task[t].pc = "queued"
  /\ task' = [task EXCEPT ![t] =
                IF @.chosen = {} THEN [@ EXCEPT !.pc = "paging"]
                ELSE [@ EXCEPT !.pc = "working", !.todo = task[t].chosen]]
  /\ UNCHANGED <<dtVars, cleanupLock, expires, audited, overtaken>>

\* list_projects, of one page.
ListPage(t, listed) ==
  /\ task[t].pc = "paging"
  /\ listed \subseteq dtProjects
  /\ task' = [task EXCEPT ![t] = [@ EXCEPT !.pc = "classifying", !.current = listed]]
  /\ UNCHANGED <<dtVars, cleanupLock, expires, audited, overtaken>>

\* _classify_into, and the next page, unless that was the last.
ClassifyPage(t, last) ==
  /\ task[t].pc = "classifying"
  /\ task' = [task EXCEPT ![t] = [@ EXCEPT !.pc = IF last THEN "working" ELSE "paging",
                 !.todo = task[t].todo \union Orphans(task[t].current), !.current = {}]]
  /\ UNCHANGED <<dtVars, cleanupLock, expires, audited, overtaken>>

\* delete_project: DT deletes the project, or answers 4xx, as it does when there
\* is none; the audit row is still to be written.
DeleteInDt(t, p, refused) ==
  /\ task[t].pc = "working"
  /\ p \in task[t].todo
  /\ p \in dtProjects \/ refused
  /\ dtProjects' = IF refused THEN dtProjects ELSE dtProjects \ {p}
  /\ task' = [task EXCEPT ![t] = [@ EXCEPT !.pc = IF refused THEN "skipping" ELSE "auditing",
                 !.todo = task[t].todo \ {p}, !.current = {p}]]
  /\ UNCHANGED <<born, scans, made, page, shown, cleanupLock, expires, audited, overtaken>>

\* Wrong on purpose: an audit row that cannot be written is only logged.
EmitOrLog(t, written) ==
  /\ task[t].pc \in {"auditing", "skipping"}
  /\ audited' = IF written THEN audited \union task[t].current ELSE audited
  /\ task' = [task EXCEPT ![t] = [@ EXCEPT !.pc = "working", !.current = {}]]
  /\ UNCHANGED <<dtVars, cleanupLock, expires, overtaken>>

\* _emit_audit, for a deletion and for a 4xx alike; when it fails after a deletion
\* the project is reported as failed.
EmitAudit(t, written) ==
  /\ task[t].pc \in {"auditing", "skipping"}
  /\ task[t].pc = "skipping" => written
  /\ audited' = IF written THEN audited \union task[t].current ELSE audited
  /\ task' = [task EXCEPT ![t] = [@ EXCEPT !.pc = "working", !.current = {},
                 !.failed = task[t].failed \union (IF written THEN {} ELSE task[t].current)]]
  /\ UNCHANGED <<dtVars, cleanupLock, expires, overtaken>>

\* The end of the task: the lock is deleted, whoever has it, unless Redis fails.
FinishCleanup(t, released) ==
  /\ task[t].pc = "working"
  /\ task[t].todo = {}
  /\ cleanupLock' = IF released THEN "free" ELSE cleanupLock
  /\ overtaken' = IF released THEN overtaken \union Robbed(t) ELSE overtaken
  /\ task' = [task EXCEPT ![t] = [@ EXCEPT !.pc = "done"]]
  /\ UNCHANGED <<dtVars, expires, audited>>

\* The task raises: DT refuses to list its projects, the scans cannot be read, or the
\* audit row of a 4xx is not written, an error in a handler that no other handler
\* takes.  What is left is not deleted; the lock is.
AbortCleanup(t, released) ==
  /\ task[t].pc \in {"paging", "classifying", "skipping"}
  /\ cleanupLock' = IF released THEN "free" ELSE cleanupLock
  /\ overtaken' = IF released THEN overtaken \union Robbed(t) ELSE overtaken
  /\ task' = [task EXCEPT ![t] = Gone]
  /\ UNCHANGED <<dtVars, expires, audited>>

\* Wrong on purpose: the lock is released before the retry, too.
ReleaseAndRetry(t) ==
  /\ task[t].pc \in {"paging", "working"}
  /\ cleanupLock' = "free"
  /\ task' = [task EXCEPT ![t] = Requeued(@, @.retries)]
  /\ UNCHANGED <<dtVars, expires, audited, overtaken>>

\* DTUnavailable: the task is retried with the lock kept.  After the last retry
\* the lock is kept as well, and left to its time to live.
DtUnavailable(t) ==
  /\ task[t].pc \in {"paging", "working"}
  /\ task' = [task EXCEPT ![t] =
                IF @.retries < MaxRetries THEN Requeued(@, @.retries + 1) ELSE Gone]
  /\ UNCHANGED <<dtVars, cleanupLock, expires, audited, overtaken>>

\* The worker is lost: the message was not acknowledged and comes back.
LoseWorker(t) ==
  /\ task[t].pc \in {"paging", "classifying", "working", "auditing", "skipping"}
  /\ task' = [task EXCEPT ![t] = Requeued(@, @.retries)]
  /\ UNCHANGED <<dtVars, cleanupLock, expires, audited, overtaken>>

CleanupNext ==
  \/ ExpireLock \/ ShowOrphans
  \/ \E p \in Projects : NewScan(p) \/ UpsertProject(p) \/ DropScan(p)
  \/ \E listed \in SUBSET Projects : ListOrphans(listed)
  \/ \E t \in Cleanups :
       \/ \E chosen \in SUBSET Projects : TakeLock(t, chosen)
       \/ \E listed \in SUBSET Projects : ListPage(t, listed)
       \/ \E last \in BOOLEAN : ClassifyPage(t, last)
       \/ Publish(t) \/ LoseRequest(t) \/ StartCleanup(t)
       \/ \E sent \in BOOLEAN : PublishFails(t, sent)
       \/ \E p \in Projects, refused \in BOOLEAN : DeleteInDt(t, p, refused)
       \/ \E written \in BOOLEAN : EmitAudit(t, written)
       \/ \E released \in BOOLEAN : FinishCleanup(t, released) \/ AbortCleanup(t, released)
       \/ DtUnavailable(t) \/ LoseWorker(t)

\* Time passes for the lock; nothing is assumed of workers, broker or DT.
CleanupSpec ==
  CleanupInit /\ [][CleanupNext]_cleanupVars /\ WF_cleanupVars(ExpireLock)

(***************************************************************************)
(* Properties.                                                             *)
(***************************************************************************)

Tasks ==
  [pc      : {"none", "taken", "queued", "paging", "classifying", "working", "auditing",
              "skipping", "done", "lost"},
   chosen  : SUBSET Projects,
   todo    : SUBSET Projects,
   current : SUBSET Projects,
   failed  : SUBSET Projects,
   retries : 0..MaxRetries]

\* The variables stay in their domains.
CleanupTypeOK ==
  /\ scans \subseteq born /\ born \subseteq Projects
  /\ dtProjects \subseteq made /\ made \subseteq born
  /\ page \subseteq made /\ shown \subseteq made
  /\ cleanupLock \in Cleanups \union {"free"}
  /\ expires \in BOOLEAN
  /\ task \in [Cleanups -> Tasks]
  /\ audited \subseteq Projects
  /\ overtaken \subseteq Cleanups

\* The key in Redis is the lease of module Lease: a clean-up starts only when all
\* others under way were overtaken, and only one that was overtaken overtakes.
Leased == INSTANCE Lease
  WITH Holders <- Cleanups, held <- {t \in Cleanups : Alive(t)}, lost <- overtaken

ImplementsLease == Leased!Spec

\* The DT project of a scan that exists goes only if its id was posted and no list has
\* ever shown it as an orphan: what was shown may be chosen however late, and what a task
\* that looks for itself finds is deleted while scans begin, upload and go.  The ids that
\* are posted are not compared with the scans (dt_orphan_cleanup.py:85).
OnlyOrphansGo ==
  [][\A p \in dtProjects \intersect scans : p \notin dtProjects' =>
       p \notin shown /\ \E t \in Cleanups : p \in task[t].chosen]_cleanupVars

\* A clean-up of chosen projects that ends has left an audit row for each, or
\* reported it as failed, whatever was lost and retried on the way.
ChosenAreAccounted ==
  \A t \in Cleanups :
    task[t].pc = "done" => task[t].chosen \subseteq audited \union task[t].failed

==============================================================================
