# TrustedOSS portal: TLA+ verification

TLA+ models of the TrustedOSS portal's backend (`src/apps/backend`), the TLC
runs that check them on small instances, and TLAPS proofs of what matters most
for every instance. Paths below are relative to `src/apps/backend`.

## 1. The system

The portal scans the open-source components of projects. A FastAPI process
serves users and webhooks, Celery workers run scans and scheduled tasks, both
share Postgres and Redis (broker, breaker state, progress channels), and
Dependency-Track (DT) matches vulnerabilities.

| Component | State it keeps | Operations | What makes it correct |
|---|---|---|---|
| Scan triggering (`services/scan_service.py`, `services/webhook_service.py`) | rows of `scans`, `projects.latest_scan_id`, webhook deliveries | insert, enqueue, store task id, mark failed | one active scan per project; a scan that is inserted is run or marked failed; a push is scanned once |
| Scan workers (`tasks/scan_source.py`, `tasks/scan_container.py`) | status, step and progress of a scan; components, findings, artifacts | skip, reset and rerun, stages, persist, succeed, fail | success means the whole report; re-execution does not collide; every scan settles |
| Admin scan control (`services/admin_scan_service.py`) | status, audit | list, cancel | a cancel is final; a terminal scan cannot be cancelled |
| DT breaker (`integrations/dt/breaker.py`) | four Redis keys | call, record success or failure, gate, force close | it opens when DT is down, probes once, closes when DT is up |
| DT health (`integrations/dt/health.py`) | none of its own | heartbeat every 60 s, optional restart | the breaker follows DT without traffic |
| DT administration (`services/admin_dt_service.py`, `tasks/dt_orphan_cleanup.py`) | clean-up lock, status cache | force reset, list and clean up orphans | one clean-up at a time, lock released at its end; what a list or the task found to be an orphan is one when it goes |
| Approvals (`services/component_approval_service.py`) | `component_approvals` | create, read, transition, delete | one open approval per component and project; decisions taken on what was seen, final, kept |
| Triage (`services/vulnerability_service.py`) | status of findings | transition with `if_match` | legal transitions only, no lost update |
| Policy gate (`services/policy_gate.py`) | none | evaluate | the verdict describes one scan at one time |
| Users and teams (`services/admin_user_service.py`, `services/admin_team_service.py`) | `is_superuser`, memberships | change role, deactivate, add and remove members, delete team | a super admin always remains; a team with members has an admin |
| WebSocket progress (`api/v1/ws.py`, `tasks/_progress.py`) | connections per user | subscribe, first frame, evict | a client sees the last progress; the cap holds |
| Notifications (`tasks/notify.py`, `notifications/`) | in-app rows, preferences | insert in-app, dispatch, retry | nothing lost, nothing twice |
| Backup (`tasks/backup.py`, `services/backup_service.py`) | directories | create, prune, delete, restore | one backup per slot; a restore is whole |
| Audit (`core/audit.py`, `services/admin_audit_service.py`) | audit log | a row on every flush, search, export | a change and its audit row stand or fall together; the rows replay to the state; an export leaves no gap |
| Pages and exports (`services/project_detail_service.py`, `license_service.py`, `obligation_service.py`, `sbom_export.py`) | none | tabs, pages, charts, drawers, NOTICE, SBOM, comment | what is counted twice is counted alike; an export is of one state of its scan |
| Sessions (`services/auth_service.py`, `services/password_reset_service.py`) | refresh tokens, reset links | log in, rotate, log out, deactivate, send and use a link | tabs do not sign each other out; a link that was mailed works |
| External sign-in (`services/oauth_service.py`, `services/oauth_identity_service.py`) | users, personal teams, identities | callback, register, unlink | one external account is one user |
| API keys (`services/api_key_service.py`, `core/api_key_auth.py`) | keys with a copy of their team | issue, list, view, revoke, use | a revocation stays; uses and revocations that overlap lose nothing |
| Licence look-up (`integrations/license_fetcher/`) | a cache with an age, negative rows too | look up, ask a registry, normalise, write | the one licence concluded is enough for a text of the registry |
| Shared catalogue (`tasks/scan_source.py`, `tasks/scan_container.py`, `tasks/dt_resync.py`) | components, licences, vulnerabilities, cache rows | get or create, upsert | a report is stored whole or not at all; transactions end |
| Projects (`services/project_service.py`) | `projects` | create, PATCH, archive | each write is audited as it was made |

How they interact. The API inserts a scan and publishes a Celery message; the
worker that takes it writes the same row the API inserted, and the admin's
cancel writes it again. The only coordination is the partial unique index
`ix_scans_project_active`, the cancel's row lock, and the message, which is
acknowledged when the task returns. Workers reach DT through the breaker; so do
the hourly resync and the orphan tasks; the heartbeat writes the breaker without
asking it. Approvals, triage, users and teams are concurrent HTTP transactions
over their own tables.

What is hard here: messages that arrive again (a lost worker, a visibility
timeout); a row committed before the broker is asked; a status that is read once
and overwritten later; a revoke that travels while the task goes on; Redis
command sequences without a transaction; SELECTs that are not locked before the
write they justify; reports made of several snapshots. `PROJECT.json` lists these
hazards with their lines, the properties that cover them, and in a note what a
property excepts because the code does not handle it.

## 2. Modules

| Module | Role |
|---|---|
| `ScanBoard` | abstract: scans as a reader of the table sees them |
| `ScanLifecycle` | request, broker, workers and admin over one table |
| `MCScan` | instances of `ScanLifecycle` for TLC |
| `DtBreaker` | the breaker, command by command, with callers, heartbeats, admins, DT and the clock |
| `Approvals` | the approval workflow, statement by statement |
| `Portal` | what the HTTP services share: users, teams, slots for requests, `Idle` |
| `SuperAdmins` | promotions, demotions, deactivations and the trigger behind them |
| `MCSuperAdmins` | an instance of `SuperAdmins` for the violated run |
| `TeamMembers` | memberships and the deletion of teams |
| `Triage` | findings, analysts, the resync, and scans that publish and re-publish |
| `PolicyGate` | extends `Triage`: the gate's queries and its comment |
| `Deliveries` | the webhook ledger; implements `ScanBoard` |
| `Lease` | abstract: what a lock with a time to live promises |
| `OrphanCleanup` | the clean-up of DT; implements `Lease` |
| `Notices` | notifications, their channels, retries and the inbox |
| `Backups` | backups, pruning, upload and restore |
| `Progress` | from the worker's row through the socket to the tab |
| `Catalogue` | rows that all scans share, statement by statement |
| `Reports` | tabs, pages, drawers and exports; its scans implement `ScanBoard` |
| `Sessions` | refresh tokens, one cookie, reset links |
| `SignIns` | external accounts, users, identities |
| `ApiKeys` | keys: issued, revoked and used at the same time |
| `LicenceLookup` | registries, the cache and the normalisation of texts |
| `AuditTrail` | projects, the audit rows of their writes, the export |
| `MCServices` | one run for the services of the portal |
| `MCTasks` | one run, with fairness, for what goes on in the background |
| `ScanLifecycleProofs` | theorems of `ScanLifecycle`, with the refinement of `ScanBoard` |
| `RequestProofs` | theorems of `Approvals`, `Deliveries`, `SuperAdmins`, `TeamMembers`, `Triage`, `PolicyGate` |
| `TaskProofs` | theorems of `DtBreaker`, `OrphanCleanup`, `Notices`, `Catalogue`, and of their composition |
| `AccountsProofs` | theorems of `ApiKeys`, `SignIns`, `Sessions` |
| `RecordsProofs` | theorems of `Backups`, `AuditTrail`, `Progress` |
| `ReportsProofs` | theorems of `Reports`, with the refinement of `ScanBoard`, and `LicenceLookup` |
| `ServicesProofs` | theorems of `MCServices`, the composition of the services |
| `NumberLemmas` | least numbers, induction over numbers, circles in finite sets, recursion on a size |

### ScanLifecycle

One action is one database transaction, one call to the broker, or one event at
a worker.

- **Request** (`trigger_scan`, `_enqueue_source_scan`): `Trigger` inserts the row
  and moves `latest` in one transaction and is enabled only when the index
  accepts the row (a refused insert changes nothing). Then `Enqueue` and
  `StoreTaskId`, or `EnqueueRefused` or `EnqueueReplyLost` and
  `MarkEnqueueFailed`; `ApiCrash` may come between any two. The webhook does the
  same with the same commits.
- **Worker**: `Deliver` takes a message and reads the row (`seen` is what the ORM
  loaded), skipping a scan that succeeded. `MarkRunning` is
  `_reset_scan_for_rerun` and `_mark_running`, one transaction; SQLAlchemy omits
  an attribute whose value did not change, so the index is met only if `seen` was
  not `running`. `Collide` is that transaction refused by the index. `RejectBare`
  fails a container scan without an image. `SetStage`, `Persist` and `Succeed`
  step through `SourcePipeline` or `ContainerPipeline`; `Raise` leaves it at any
  point, `RecordFailure` writes the failure, `Ack` acknowledges the message.
- **Broker and faults** (Celery and Redis are external, modelled from the
  configuration in `tasks/celery_app.py`): `WorkerCrash` returns the message,
  `Redeliver` returns it while the worker is still at it, `HardLimit` kills the
  task and acknowledges it, `RevokeArrives` makes a worker remember the task and
  kills its execution, `Discard` drops a message so remembered.
- **Admin** (`cancel_scan`): `LockAndRevoke` is SELECT FOR UPDATE, the guard and
  the revoke broadcast; `CommitCancel` writes the row with its audit record. Other
  writers of the row wait in between (`Unlocked`).

Abstracted: progress percent (a function of the step), error messages and
timestamps; the artifacts table (same transactions as the stages, no constraint);
rows of a scan, of which only the presence of components and of findings is kept;
ORT and the preparation step, which swallow their errors; the branches for a
scan or project row that is gone, because nothing deletes one while it is
scanned in this model. A read and a write of one session are one step, as the
writes are unconditional: the write at commit time is what others see.

### DtBreaker

The four keys are `state`, `fails`, `stamped` with `age` (`opened_at`), and
`lock` (`probe_lock`, with its time to live in ticks). Callers step through
`call`: `Enter` (snapshot), `GatePasses` or `GateRefuses` (the Lua script),
`Resnap`, the request, then `record_success` (`Clear`, `Check`, `Close`,
`Unstamp`, `Unlock`) or `record_failure` (`Count`, `Stamp`, `Trip`). A heartbeat
starts at the request; an admin's `ForceReset` checks the snapshot, then runs
`force_close`. `Crash` stops a client between two commands. `probing` is a
history variable: clients whose request DT gets because they saw HALF_OPEN. The
counter is kept up to the threshold, which is all the code compares it with, and
ages up to the cool-down.

### Approvals

Rows carry status, version, pair, requester and decider; `lock` is the row lock;
`etag` what each client was last shown; `req` the request it has under way.
`Preflight` and `Insert` are the two halves of a creation, `Lock` and `Commit` of
a transition, `ReadToDelete` and `Delete` of a deletion, so each may come between
the halves of another. A request that fails a guard changes nothing and has no
action. `etag` stands for the If-Match header a client sends; callers who are not
members of the team get 404 everywhere and are left out.

### SuperAdmins, TeamMembers

A request is `LoadUser`, perhaps `LockSupers`, `FlushUser` (the UPDATE, with the
row lock and the trigger of migration 0013, which counts in a snapshot that does
not see what others have not committed) and `CommitUser`. A deactivation that read
its user as an ordinary one takes no lock and counts nobody; if he was promoted
since, it takes an active super admin away (`Overtakes`), which the history variable
`overtaken` records. Memberships: `ReadMember`, `LockAdmins` (FOR UPDATE on the team's
admins, and the counts), `CommitMember`; the assignment of a role by a super admin
writes without that lock, as the code does; `LockTeam` and `DeleteTeam`. Names of
users and teams, and the listings, are left out.

### Triage, PolicyGate

`StartScan`, `PublishSource`, `PublishImage` and `FailScan` are what scans do to
findings (a re-run gives them new ids); `Resync` changes a severity. A PATCH is
`OpenFinding` (what the analyst sees), `SendPatch` (the transaction begins),
`LockFinding` (row lock, `if_match`, matrix) and `CommitStatus` with its audit row.
`StatusHistory` is the list of a finding's moves as the detail shows it. The gate
adds `ChooseScan`, `CountCves`, `CountLicences` and the comment, which is looked
for (`ListComments`) and then updated or created (`PostComment`). `held` is a
history variable: the verdicts that the chosen scan had while it was evaluated.

### Deliveries

`Receive`, `RecordDelivery` (commit of the ledger row, unique by id), `InsertScan`
(commit of the scan, under the active-scan index), `PublishScan`, `LinkDelivery`,
`AnswerDelivery`; `LoseHandler` between any two; a provider sends again what it saw
no answer to. `ScanByHand` and `WorkOnScan` stand for everybody else, as moves of
`ScanBoard`; `HookBoard` instantiates it over `webscan`. Left out: signatures, the
answer to a push the index refused, and the broker reply that is lost, which
`ScanLifecycle` has.

### OrphanCleanup and Lease

Scans are asked for (`NewScan`), upload their SBOM, perhaps after they have gone
(`UpsertProject`), and go (`DropScan`). An administrator's list reads a page of DT
(`ListOrphans`) and compares it with the scans later (`ShowOrphans`). The endpoint takes
the key for any set of ids that is posted (`TakeLock`: nothing in the code compares them
with the scans) and publishes or fails to. A task with nothing chosen reads and compares
pages itself (`ListPage`, `ClassifyPage`); it deletes in DT (`DeleteInDt`), writes its
audit row (`EmitAudit`), and ends by `FinishCleanup`, `AbortCleanup` or, when DT is
unavailable, a retry that keeps the key. `ExpireLock` and `LoseWorker` come at any
time. `overtaken` records who lost the key to time or to another; with it the
module implements `Lease`: a task starts only when all others under way have lost
the lock, and who has not lost it takes it from nobody.

### Notices

`PostLetter`, then per attempt `ApplyPrefs`, `Send` per channel and `EndAttempt`,
which retries the whole task when one channel failed for the moment; `LoseSender`
brings the message back. The inbox is read by `Reading`. What a message says is
left out.

### Backups

`dir` holds what is on the disk under each name. A backup allocates a slot, closes
its files one by one (`Dumped`, `ArchiveBegun`, `Sealed`), and prunes; the upload
validates, looks for a free name and moves later (`MoveUpload`); a restore checks
the checksums (`Sound`), loads the dump in one transaction (`Loaded`), wipes and
unpacks the workspace (`Unpacked`). Workers are lost, the disk spoils files,
administrators delete files one after the other. A checksum is modelled as: the
manifest knows the whole files.

### Progress

`row` is the scan's row, `news` the publications on their way, `wire` each socket,
`conn` its handler, `bucket` the registry of a process with its cap, `tab` the
hook. A handler reads the row, registers, closes whom it evicted, greets with the
row and then subscribes, so a publication in between reaches nobody. A tab may have
several sockets (`Sockets` are tabs and `Slots`), since the hook knows only one: a
socket that closes (`sock`) is `leaving` or `failing` until `OnClose`, which makes the
hook forget whichever it knows and perhaps start a timeout (`timers`, of which it has
the handle of the last, `armed`). Meanwhile `BecomeVisible` opens another, and so
`Reconnect` may open a third beside one that is live, which `beside` records. A closing
socket delivers no more frames. Left out: a page that is unmounted and mounted again
while its socket closes.

### Catalogue

Two transactions at READ COMMITTED, of a source scan, a container scan, or the
resync; a statement is an action, a unique key makes an insert wait for the other's
end, an error aborts the transaction (there are no savepoints), and PostgreSQL's
deadlock detector picks a victim of a circle (`InCircle`). The handler around the licence cache catches the
error and goes on, as the code does; COMMIT of an aborted transaction is a
rollback.

### Reports

A scan stores its components with their licences, then its findings, and deletes
both when it is executed again; a failed scan keeps what it has. A scan that was
cancelled may still be worked at (`AtWork`), because no write of an execution reads
the status; whether an execution had begun when the cancel came is not kept, which
allows no state that the code does not reach. `pointer` moves with the INSERT. The
statuses and the pointer change as `ScanBoard` says (`ReportsKeepBoard`; with the webhooks, `ScansKeepBoard`), which ties
what the pages read to what `ScanLifecycle` writes. Tabs, filters, charts, pages and drawers are operators over the
rows, each translated from its own query, and are compared between two commits;
exports ask their queries one by one while scans go on (`Ask`). Severities other
than critical and info, the category 'conditional', search, other sort keys and
all wording are left out; drawers show `DrawerCap` rows.

### Sessions

`token` is `refresh_tokens`, `cookie` the one that the tabs share. A rotation reads
its row (`ReadToken`) and commits later; `RefuseRefresh` is reuse detection, which
revokes `Chain`, the row and its ancestors. `ReceiveAnswer` sets or clears the
cookie in the order the answers arrive. `forfeit` records the rows the browser has no
claim to: revoked without its hearing of it, or of a `Family` (all that descends from
one login) of which a revoked row was presented. Reset links: `BeginReset`, `IssueReset`
(voids the pending ones it sees), `MailReset` (whose failure is swallowed; an
administrator's link is never mailed), `BeginConsume`, `CommitConsume`.

### SignIns, ApiKeys

A callback looks up the identity, then the email, then links or creates a user, a
personal team and an identity, each insert against unique keys that wait for
another transaction (`KeyFree`); the loser rolls back and looks again. A key is
issued from memberships read before (`BeginIssue`, `CommitIssue`). A revocation
(`BeginRevoke`, `CommitRevoke`) and a use (`BeginUse`, `Touch`) each read the row
without a lock and write it later, so that one may fall between the halves of another;
`CanView` and `CanRevoke` are their guards.

### LicenceLookup

`says` is what a registry says of a package: several texts (a POM, a page of
pkg.go.dev) or one, each a sequence of words, and classifiers (PyPI). The four fetchers
differ in what they take out of an answer: the first text, the first that is not blank,
the first classifier that names a licence. `Normalise` makes one SPDX id of a text or
none. Rows of the cache, negative ones too, grow old; two pipelines look
up, ask, write and commit or roll back.

### AuditTrail

Writes of a project are read, changed and committed with the row that the flush
listener writes (`Audits`); rows carry the start of their transaction, `nr` is the
order of commits. `ReadChunk` is one page of the export. `updated_at` and masked
values are left out.

## 3. Runs

| Run | Module, cfg | Shows |
|---|---|---|
| `scan_at_least_once` | MCScan, `MCScanAtLeastOnce.cfg` | with worker losses, overlapping deliveries and lost replies: one active scan per project, a queued scan is fresh, nothing is stranded |
| `scan_once_at_a_time` | MCScan, `MCScanOnceAtATime.cfg` | with worker and request crashes and killed tasks, but no overlap: success is complete and final, and the life cycle implements `ScanBoard` |
| `scan_settles` | MCScan, `MCScanLiveness.cfg` | every scan settles under fairness |
| `scan_cancel_sticks` | MCScan, `MCScanCancelSticks.cfg` | violated: a cancel does not stick |
| `services` | MCServices, `MCServices.cfg` | fifteen services, each in every interleaving of its own statements, keep their 21 properties |
| `tasks` | MCTasks, `MCTasks.cfg` | under fairness: the breaker follows DT in both directions, the clean-up's lock is a lease, only orphans go and what was chosen is accounted for, notifications and pipelines end, transactions never all wait for each other, reports are stored whole or not at all |
| `breaker_one_probe` | DtBreaker, `MCBreakerOneProbe.cfg` | violated: two probes are out at once |
| `last_super_admin` | MCSuperAdmins, `MCSuperAdmins.cfg` | violated: two deactivations, each overtaken by a promotion, leave no super admin |
| `history` | Triage, `MCHistory.cfg` | violated: a finding's history shows impossible moves |
| `catalogue` | Catalogue, `MCCatalogue.cfg` | violated: a pipeline goes on with a report that was rolled back |
| `notice` | Reports, `MCNotice.cfg` | violated: a NOTICE is not made of the latest success |
| `approvals_kept` | Approvals, `MCApprovalsKept.cfg` | violated: a decided approval can be deleted |

**Bounds.** Scans: two scans of one project and two workers, one scan that runs
and one that fails at once (a container scan without an image, the shortest way
for another scan to occupy the project); the index relates scans only in pairs
and a message has at most two holders, so a third of either adds no new kind of
conflict. Faults: `MaxFaults` is 2, enough for a crash during the recovery from
a crash, or an overlap followed by a crash. The safety runs treat the workers as
symmetric; the liveness run has one worker and no symmetry. Breaker: threshold 2
(so that one failure and the last failure differ), cool-down of one tick and a
probe lock of two; one caller, one heartbeat and one admin in the passing run,
two callers where the question is about two probes; `MaxMishaps` bounds the
changes of DT, crashes, client errors and resets. Approvals: three users, two of
them admins, two rows of one pair, so that an approval can be opened again beside
a decided one. A row's version is bounded by the workflow itself.

`services`: a behaviour picks one service and takes steps of that one. The slots of
requests, jobs and tabs are the same two names and are symmetric, and so are the
names of manual backups and rows of approvals. Further bounds are
operators of `MCServices`, each with its reason:

| Service | Instance |
|---|---|
| admins, members | three users, one team, two requests at a time (the violated run has three) |
| triage, gate | one vulnerability, two PATCHes, one scan that may run twice; the gate has two scans, or one and one PATCH, or one and two evaluations at once (`OneScan`, `OnePatch`) |
| deliveries | three pushes, one ignored, two scans |
| backups | one automatic and two manual names, two jobs, one restore, one lost worker (`OneBackup` after it and beside a restore) |
| progress | two tabs, a cap of one, one stage, two runs with one tab and one socket, or one run with two tabs and a second socket of one of them (`OneTab`) |
| approvals | three clients, two of them admins (`Seen`) |
| reports | two components, licences and CVEs, two scans; the first finds every possible inventory; exports, cancels and the second scan with the fullest (`Overlaps`) |
| sessions, resets | three tokens, or two with a lost answer, a deactivation or a link (`FewLinks`), or three links and no log-in (`NoSessions`) |
| signins | two external accounts, two emails, one unlink (`OneOwner`) |
| keys | two issuers, two tenants, one project, one key, two requests at a time (`OneTeamEach`) |
| lookups | two pipelines, one package, two licences, one retry; every text of two words and three-term texts, two texts, two classifiers (`Sayings`, `LongTextsOfCrates`) |
| audit | one project, three writes, pages of one row |

Two of each suffice because every property here is about a pair: two requests that
read the same state, two rows of one key, two snapshots of one report. `tasks`
has two clean-ups and one scan with its DT project, one letter on two channels with one resend
and one lost worker, and two writers over two packages of which one names a licence,
and an image with two CVEs in one package (`InTurn`: one of the two begins first).

**Deadlock.** The scan runs, `services`, `tasks`, `last_super_admin`, `catalogue` and `notice` set
`CHECK_DEADLOCK FALSE`: scans, writes, letters and transactions are finitely many,
and when all are done nothing is left to do, and a portal without a super admin takes no
more requests of one. That no two transactions of the
catalogue wait for each other for ever is `SomeoneGoesOn` and `PipelinesEnd`. The other runs keep the
check.

**Fairness.** `ScanLifecycle!Fairness`: a request that inserted a row goes on to
the broker and to its second commit (the function has no other exit than a
crash), an admin's transaction commits, workers execute their task and take
messages. Nothing is assumed about users, stages that raise, or faults. Worker
crashes are bounded, as a worker that crashes for ever settles nothing.
`DtBreaker!Fairness`: a client that started goes on; the beat schedule brings the
resync and the heartbeat again (`tasks/celery_app.py:60-82`); time passes. Other
callers need not come back. `OrphanCleanup`: a key with a time to live expires.
`NoticeFairness`: a worker takes a message and every call of a channel has a
timeout. `CatalogueFairness`: a transaction that can execute a statement does, and
PostgreSQL breaks deadlocks. `TasksFairness` is their conjunction, each for its
part. In all, weak fairness is enough because a process
that can go on stays able to, until it does.

**Conditions inside properties.** `NothingStranded` and `EveryScanSettles` except
a scan an admin cancelled: the race of `CancelSticks` may leave it running with
nobody at it. `NothingStranded` also leaves out request crashes and the hard time
limit: the code has nothing that finds such a scan, except an admin.
`CompleteWhenSucceeded`, `SucceededIsFinal` and `ImplementsBoard`
speak of deliveries that do not overlap: with two executions of one scan at once,
either may delete what the other wrote, and a scan the first marked succeeded is
marked failed by the second. `ScanLifecycle` takes a commit that returns for one
that stored; `Catalogue` shows the exception.

`LastAdminStays` excepts the assignment of roles by a super admin, which counts
nobody, and a developer who is promoted after the removal read his role.
`SuperAdminRemains` holds until a deactivation is overtaken by a promotion;
`last_super_admin` shows what happens then. `PushesScannedOnce` excepts a
handler that dies between the ledger row and the scan, and a push that meets a scan
in flight. `VerdictHeld` excepts a scan that is executed again between the queries.
`ExportsAreWhole` speaks of deliveries that do not overlap. `AuditReplays` is in the
order of commits, which `created_at` does not show. `ExportLosesOnlyTheOldest` bounds
what an export may miss by what was written meanwhile.

`TabsStaySignedIn` excepts the rows in `forfeit`. The tab that lost a race of two
refreshes keeps the others signed in, in the code; the documentation asks for the
contrary after a replay (below), so the property says nothing of that family.
`AMailedLinkWorks` excepts a newest link that nobody was given: an administrator's, or
one whose mail the broker refused. `PercentNeverFalls` excepts a tab whose last socket
was opened beside a live one, which the hook allows while an older one is closing.
`LicenceSuffices` is about one of the registry's texts or classifiers: that one of
several is enough for the package is right of a POM only. `OnlyOrphansGo` excepts an id
that was posted and that no list had shown, since posted ids are deleted as they are.
`RevocationSticks` says nothing of the revoker, whom a second revocation overwrites.

So the runs that pass do not catch: a scan stranded after a cancel or a request crash, a
push lost between ledger and scan, and the halves of the hazards above that are
excepted. `ReportsAgree` is a relation between queries over the same rows, true of all
rows, and not about interleavings. `ScansKeepBoard` ties the scans of `Deliveries` and
`Reports` to the ones of `ScanLifecycle` and finds no flaw of its own. `scan_settles`
takes the report's transaction for one step; that transactions may block each other is
the matter of `Catalogue`.

### Where documentation and code disagree

The seven violated runs; each is a finding in `PROJECT.json` with the sentence it
contradicts:

1. a cancelled scan is taken to running, succeeded or failed by its task;
2. HALF_OPEN lets every caller through;
3. the last super admin can be deactivated: two deactivations read their users as
   ordinary ones, both are promoted, and neither counts nor is seen by the other's
   trigger;
4. a decided approval can be deleted by a request that read it before;
5. the history of a finding is sorted by the start of transactions and lists moves
   in an order in which they did not happen;
6. an error of the licence cache is swallowed inside the transaction it aborted, and
   a scan goes on with nothing stored;
7. the NOTICE reads a pointer that moves when a scan is queued, not when one
   succeeds.

Seen while reading, without a run (paths under `services/` unless given):

- Scans: `tasks/scan_source.py:24-26` says a re-execution cannot collide, which
  holds only while deliveries do not overlap; `docs-site/docs/user-guide/scans.md:97`
  says that a scan succeeds from the cache when DT is unavailable,
  `tasks/scan_source.py:157-159` fails it when the breaker is open; `trigger_scan` does not look at
  `archived_at`; a container report with two CVEs of one package violates
  `uq_scan_components`; a DT poll that stays empty is stored as no findings and the
  scan succeeds (`tasks/scan_source.py:670-712`), and a scan that is executed again
  finds its DT project with the findings of the earlier upload.
- DT: a failed probe may leave HALF_OPEN: a late success deletes the counter, the
  probe's failure counts one (`integrations/dt/breaker.py:238`, 257-270), and
  `docs-site/docs/admin-guide/dt-connector.md:71` says "back to OPEN"; line 85 there
  has the clean-up delete orphans, while the ids posted to it are not compared with the
  scans (`admin_dt_service.py:461`, `tasks/dt_orphan_cleanup.py:85-86`), and an empty
  list, which `schemas/admin_ops.py:119-122` and the task take for "all orphans", is
  refused by `api/v1/admin/dt.py:137-147`; line 62 says the breaker of a fresh
  install is OPEN, an absent key reads as CLOSED (`integrations/dt/breaker.py:203`);
  `admin_dt_service.py:431` and `tasks/dt_orphan_cleanup.py:17-18` give the clean-up
  lock 600 s, the constant is 3600; the lock is kept after the last retry; every 4xx
  of a deletion is recorded as a missing project; in the mode without a choice a
  deletion whose worker dies before the audit row is never audited;
  `docs-site/docs/user-guide/vulnerabilities.md:88-90` promises more than `tasks/dt_resync.py`, which only
  refreshes the catalogue.
- Webhooks: `webhook_service.py:350` reads an attribute of a row that a rollback
  expired; GitLab's `X-Gitlab-Webhook-UUID` is taken for an id of the delivery.
- Backups: psql runs without ON_ERROR_STOP (`tasks/backup.py:438`) and its stdout is
  a pipe that nobody reads; a restore is executed again when its worker is lost.
- Notifications: channels that had delivered deliver again on a retry. Progress: a
  tab that subscribes late never sees the end; the cap is per process; shown again
  before the `onclose` of a closing socket, the hook ends with two live sockets, and its
  percentage can fall (`apps/frontend/src/hooks/useScanWebSocket.ts:295`, 323, 375-395).
- Users: migration 0013 says at 32-33 that its trigger closes the gap between count and
  write, and at 62 that the lock does; neither covers `last_super_admin`.
- Gate: the latest scan is the one created last, not the one that finished last;
  `_build_summary_for_scan` overwrites the bucket of unrated findings.
- Pages: `project_detail_service.py:430` counts a cross product as the number of
  vulnerabilities; `get_component_detail` takes the latest scan of all projects
  before it looks at access; comments in `list_project_licenses` and at
  `api/v1/policy_gate.py:300-301` say that their numbers match the Overview's, which
  puts a component in its worst category only, `_compute_distribution` counts it in
  every one of its categories;
  `docs-site/docs/user-guide/sbom.md:99` calls the NOTICE byte-stable, it carries
  the time; the same page speaks of
  VEX, the export has no such section; one AsyncSession is used in `asyncio.gather`
  (`project_detail_service.py:310-313`).
- Licences: a failed look-up is cached for 24 hours and overwrites a licence that was
  known; "GPL-2.0 or later" becomes GPL-2.0-only (`integrations/license_fetcher/base.py:395-402`);
  base.py:24-25 says that workers have one process, `docker-compose.yml:231` runs two,
  and the pause between requests is kept per process; the adapters take the first of
  several licences (`maven.py:56-58`, `pkggo.py:55-59`, `pypi.py:99-107`), while
  `normalize_spdx_id` refuses a conjunction because one part of it is not enough.
- Sessions: a token that is used twice is taken for stolen, says
  `apps/frontend/src/lib/api.ts:89-92`, and the entire chain is revoked, say
  `docs-site/docs/user-guide/auth-and-profile.md:28` and `auth_service.py:12-14`;
  `_revoke_chain` revokes the row and its ancestors, so that the child of the row, which
  is the live one, stays, while the tab that lost resets itself (`api.ts:115-126`). The
  answer to a refresh that arrives after a log-out's puts the browser back in. The
  consumer of a link documents 'password_reset' as the reason of a revocation and
  writes 'reuse_detected'.
- Reset links: two requests at once leave two pending tokens
  (`password_reset_service.py:292-325`), which the policy of a single one and
  `scalar_one_or_none` do not expect, or mail last the link the other voided; a link
  lives one hour, `docs-site/docs/user-guide/auth-and-profile.md:41` and
  `docs-site/docs/release-notes/v2.0.0.md:23` say 24; the same page has a link mailed
  that works, but an administrator's reset voids the mailed one and throws its own away
  (`admin_user_service.py:648-672`), and a mail that the broker refuses leaves the new
  link with nobody and the old one void (`password_reset_service.py:195`, 316-317).
- Sign-in: the guard of the unlink never fires, as `hashed_password` is never null;
  two unlinks at once write two audit rows; two first sign-ins end in an
  IntegrityError (`oauth_service.py:495-507`), and the fall-back after a collision of
  slugs reads an expired row (522-533); `OAuthIdentity` says there is no unlinking.
- Keys: two revocations overwrite `revoked_by` (`api_key_service.py:496-503`), though
  the function calls itself idempotent; the docstring of `list_api_keys` (398-402) has
  a team's keys listed to its admins only, the query and
  `docs-site/docs/user-guide/integrations.md:17` to every member.
- Audit: the export pages by OFFSET while rows arrive, so
  rows come twice and the oldest are lost (`admin_audit_service.py:276-287`); the
  audit row of a created row has no `target_id`, which the database generates.

## 4. Proofs

Every safety invariant and action property of the passing runs is a theorem, for all
values of the constants: any number of scans, projects, workers, users, teams,
requests, keys, tabs, jobs and rows, and any text of a registry. The theorems start
from the components' specifications, or from the two composed ones (below), and from
the named assumptions on the constants, which TLC evaluates in the runs. Most only
say that null values are not ids, that functions have their domains and that bounds
are numbers. Four say more: `GateAssumption`, `ReportsAssumption` and
`CatalogueAssumption`, that requests, rows and transactions are finitely many, since
they are counted or wait for each other; `BackupsAssumption`, that names the
scheduler gives and names an upload gets differ (their prefixes do).

**The compositions.** `ServicesImplementParts` and `TasksImplementParts` prove that a
behaviour of the composed specification is a behaviour of each component: a step of
one leaves the variables of the others alone (`StepOfEach`), and every bound of a run
only takes steps away. Two points are not of that form. `triage` and `gate` share
variables: `GateRests` says that the gate's own stay at their first values when
`triage` is chosen, so that a step of an analyst is a step of `PolicyGate` too. And
`TasksImplementParts` includes the fairness of the clean-up, the notices and the
catalogue, but not that of the breaker: the run's is of `Continue(c)` with the choice
of the breaker as a conjunct, another action with another ENABLED.
`ServicesKeepPromises` and `TasksKeepPromises` draw the conclusion for all properties
of the two runs at once, with no assumption beyond those of the components.
`ServicesTypeCorrect` and `TasksTypeCorrect` are the type conjunctions.

### ScanLifecycleProofs

- `TypeCorrect`: `TypeOK`. Its lemmas type the helpers (`IdleType`,
  `AdvanceType`, `WritesInReport`).
- `OneActive`: `StepWritesOneStatus` shows that a step that makes a scan active
  found it active or the project free; the rest follows from that alone.
- `QueuedFresh`: `FreshInvariant` adds that nothing stirs before the INSERT (no
  message, worker, rows or cancel), and that an execution that found its scan
  queued did not read `running`, so that its UPDATE carries the status;
  `QueuedIsLatestInvariant` that no scan of the project can be triggered while
  one is queued.
- `NoneStranded`: `OwnedInvariant` adds that a task is only ever revoked for a
  cancel that is committed or still holds the row. Without it a message could be
  discarded that nobody else stands for.
- `ExecutedOnceAtATime` and `SuccessIsFinal`: `OnceInvariant` adds that a request
  that has yet to enqueue, or failed to, has no execution; that an execution that
  has yet to write its outcome does not face a scan that succeeded; and that the
  row an admin holds is in flight.
- `CompleteSuccess`, under `OnceAtATime`: `ReportInvariant` says that an execution at
  position `at` of its pipeline has stored the rows of the positions before it, and
  `StoredAtEnd` that these are the whole report at the last position.
- `RefinesBoard`, under `OnceAtATime`: initial states map to initial states and every
  step to a step of the board or a stutter. Six actions write a status without
  looking at it; `RunInvariant` (an execution in the pipeline faces a scan that runs
  or was cancelled) and the invariants above say why each write is a move of the
  board.

### RequestProofs

- Approvals: `ApprovalTypeCorrect`, `OnePerPair` and `InOrder`; `LockedInvariant` says
  that whoever is about to commit holds the row and that the guards still hold;
  `ShownInvariant` that what a client was shown is the row's present or its past.
  `CommitsWhatWasSeen` and `FinalDecision` follow from these.
- Super admins: `AdminTypeCorrect`; `SuperAdminStays`, until a deactivation is overtaken.
  `AdminInv` says that who is about to commit the loss of a super admin holds the
  rows of all active super admins and that another is among them; a second such
  request waits for the first, and a promotion only adds. The property alone is
  not inductive, since it says nothing of requests that have counted already.
- Members: `MemberTypeCorrect`; `LastAdminStaysSafe`. `Counted` says that an admin who
  was counted beside the one to be removed is still one, because his row is locked
  (`LockCounts`, `HeldStands`).
- Triage: `TriageTypeCorrect`; `MovesSeen`. `FindingsInv` is `LockedStands` (what a
  request checked under the lock still stands), `LockedOnce` (a row is locked once) and
  `Unpublished` (only a scan that has succeeded has findings, and one under way, which
  writes without the lock, has none that could be moved).
- Gate: `GateTypeCorrect`: posts that miss each other leave no more comments than there
  are requests, by `CommentsCounted`, which counts the comments and the posts that have
  seen none (`Unaware`) together. `VerdictWasHeld`: `Watched` says that an evaluation
  has noted the verdict its scan has now; `CountedRight` that after the second query the
  verdict which the third will come to, whichever way it comes out, is among those
  noted; `DecidedRight` keeps this to the end.
- Deliveries: `DeliveryTypeCorrect`, `PushesAreScanned`,
  `HooksImplementBoard`. `DeliveryInv` ties each handler to its ledger row and each
  scan to the one delivery that inserted it, and says that a handler past its commit
  is the only one of its delivery; the refinement then goes action by action.

### TaskProofs

- Breaker: `BreakerTypeCorrect`.
- Orphan clean-up: `CleanupTypeCorrect`; `KeyIsLease`, by `LeaseInv` (who is alive
  and was not overtaken has the key); `OrphansOnly` and `ChosenAccounted`, by
  `TargetInv` (what a task has still to do was posted to it or has lost its scan, and
  what it chose is to do, under way, audited or failed; what a list has shown has no
  scan). A scan id is never used again, and a DT project is made for a scan that was
  there first; so what was once an orphan stays one.
- Notifications: `NoticeTypeCorrect`; `SentIsDelivered`. `Reached` says that what a
  task has yet to do is what its attempt wanted less what it reached, so that a task
  with nothing left to do reached all of it; a retry starts from what the user wants
  then. `CopiesCounted`: the rows in the inbox are at most the attempts begun, which
  are the retries, the losses and the one under way (`Allowed`, `Begun`).
- Catalogue: `CatalogueTypeCorrect`; `ReportsAreAllOrNothing`. `OnCourse` says that
  the rows of a transaction and those its remaining statements insert are its report
  together; `Left` that a transaction that has gone left nothing or all, and that
  one the server aborted commits nothing.
- Waiting: `NobodyWaitsForGood`. `OwnersRun`: a row that is being written is written by
  a transaction in progress. Who waits therefore waits for one in progress, and in a
  finite set a function that stays in it has a circle (`CircleInFinite`, by
  cardinality): so one of them waits for nobody, or is in a circle, which the server
  breaks. `TransactionsRunOut`: `ToDo`, what a transaction has still to execute, falls
  with each of its steps. Together they are the argument for `PipelinesEnd`: while a
  pipeline is not done somebody can go on, and each can go on only so often. The last
  step, from "can" to "does", is fairness, whose ENABLED the prover does not know, and
  stays with TLC.

### AccountsProofs

- Keys: `KeyTypeCorrect`; `KeysStayRevoked`. `KeyWritten`: a commit inserts a row where
  there is none, or writes the columns of its own request and no other, whatever it
  has read; the step follows for every pair of requests that overlap.
- Sign-in: `SignInTypeCorrect`; `AccountStaysOneUser`. `SignInInv` numbers the links
  by the unlinkings before them: what a callback knows of a link is the link of now
  or an older one (`Known`, `InHand`), and a callback with an uncommitted link keeps
  others from that account and from that user (`Apart`, the unique indexes).
- Sessions: `SessionTypeCorrect`; `CookieStaysGood` and `SomeLinkWorks`. `FamilyOK`:
  the parent of a row was made before it and is revoked. `Standing` and `Private`: the
  answer to a refresh carries a good row, which no other request knows of. So no step
  revokes the row a browser is about to be given, but those that make it `forfeit`.
  `LinksOK`: nothing supersedes the newest link, as a request that issues one only
  supersedes older ones, and its use settles every link that is not pending. So it is
  good while a mailed link is not settled, and `AMailedLinkWorks` asks who has it.

### RecordsProofs

- Backups: `BackupTypeCorrect`; `WholeIsRestored`. `DirectoriesApart`: no two tasks
  write one directory, and one with a manifest is written by nobody. `UploadsApart`:
  nobody writes under the name an upload waits for after its directory has gone.
  `ReadsWhole`: what a restore reads is what it checked; that the disk spoils nothing
  in between is the model's, which has no action for it.
- Audit: `AuditTypeCorrect`; `TrailGivesTheRow`. `WritesRows`: a request writes what
  its audit row says, and `RequestsApart`: at a time of its own. The columns of two
  writes may interleave; the row is what the last writer of each column wrote, which
  is what the replay takes.
- Export: `ExportsLoseOnlyTheOldest`. `WellRead`: what an export has has no gap, and
  it lacks no row whose place is before the offset. Rows that are added push others
  back and never forward.
- Progress: `ProgressTypeCorrect`; `FedStreamsAreCounted`. `Counts`: a socket that is
  registered is in the bucket, or another handler has it to close.
- `PercentsNeverFall`. `Ordered`: what a tab shows, the frames on the wire of its live
  socket, the greeting of the socket it opens next, and the row follow one another in
  this order, until it is fed by two (`beside`). A closing socket has nothing on its
  wire, so that one opened beside it starts where the tab is.

### ReportsProofs

- `ReportTypeCorrect`; `ExportIsWhole`. `RowsInv`: the rows of a scan are all that it
  found, that without the findings, or nothing. `VisitInv`: each answer an export got
  is right for the scan it is about.
- `ReportsImplementBoard`: the scans of `Reports` implement `ScanBoard`, step by step;
  an execution that starts again on a running scan is a stutter of the board, one that
  goes on after a cancel makes its moves out of `cancelled`. `ScanLifecycle`
  (`RefinesBoard`) and `Deliveries` (`HooksImplementBoard`) implement the same board.
- `ReportsDoAgree` is no matter of steps: two queries give the same count for any
  rows, by lemmas about cardinalities (partitions by rank, images, pages). The first
  attempt failed for a reason: the two pages were said to hold all components, which
  is false of three or more; TLC's instance has two. `AtMostTwo` is what was meant.
- `LookupTypeCorrect`; `LicenceIsEnough`, for texts of any length and number. `PiecesAre` (a
  text is split into the stretches between its connectives), `PiecesArePlain` and
  `PlainTexts` (a piece without a connective comes to the licence of its first word)
  go by induction over the length; `RightIds` says that what cache, pipelines and
  scans hold is what a registry's answer came to.

### NumberLemmas

The library's induction theorems take an operator, which the provers cannot
instantiate. `SetInduction`, `SmallestOfSome` and `LargestOfSome` take a set of
numbers instead, which is as good where the property can be written as one.
`RecursionExists` says of an equation `f = B[f]`, with `B` a function, that it has a
solution if the value at an argument only depends on values at smaller ones; a
recursive function of a model then equals its body, which tlapm does not grant by
itself.

Proved and not in a run: `OneExecution` (`ExecutedOnceAtATime`), `DecidedInOrder`
(`InOrder`), `DecisionIsFinal` (`FinalDecision`), `CopiesHaveCause` (`CopiesCounted`),
`StatementsRunOut` (`TransactionsRunOut`).

Model-checked only: liveness (`EveryScanSettles`, `RecoversWhenUp`, `OpensWhenDown`,
`LettersEnd`, `PipelinesEnd`), which needs ENABLED and leads-to arguments over
fairness that the prover cannot do.

## 5. What is left

In order of importance:

1. `ExportsAreWhole` with deliveries that overlap, which needs `ScanLifecycle` and
   `Reports` in one specification; they share the board, which knows no rows.
2. The poll for DT's findings with its deadline, and the status cache of the
   administration page.
3. A second backend process for `Progress`, where the cap is per process.
4. The wait between requests to one registry, across worker processes.

## 6. Not modelled

- Access checks: decoding a token and comparing roles is done before the first
  statement of a request. Where a module's question depends on a role (`ApiKeys`,
  `Approvals`, `Triage`) it is a guard.
- Disk and health pages, and listings that only read one table: they keep no state
  and make no promise about another's.
- Tools, DT and registries behind HTTP and subprocesses: a call succeeds, fails or
  does not answer. The text they print is data.
- The framework, settings, migrations (but for the trigger of 0013), request and
  response schemas: declarations without behaviour of their own.
- Seeds and scripts (`scripts/`): they fill a database for demonstrations and tests.
- The user interface, apart from the progress hook and the tabs' refresh.
- Deployment, the CI action and policy rules.

The map in `PROJECT.json` covers about a third of the lines of the implementation;
what it leaves is mostly the above, and the wording of errors, logs and responses
inside functions that are modelled. `PROJECT.json` names every component with its
reason.
