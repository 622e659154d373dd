------------------------------- MODULE Backups -------------------------------
(***************************************************************************)
(* Backups and restores (tasks/backup.py, services/backup_service.py,      *)
(* api/v1/admin/backup.py).  A backup is a directory: a dump, an archive   *)
(* of the workspace, and, written last, a manifest with their checksums.   *)
(* A restore is given an uploaded archive, which becomes a manual backup.  *)
(* Tasks are acknowledged late: a lost worker's task runs again.           *)
(***************************************************************************)
EXTENDS Portal, Naturals

CONSTANTS
  AutoNames, ManualNames,  \* auto-<stamp> and manual-<stamp>; each is one second
  Jobs,                    \* backup tasks
  Restores,                \* restore tasks
  MaxLosses                \* workers lost: a bound

ASSUME BackupsAssumption ==
  /\ AutoNames \intersect ManualNames = {} /\ "none" \notin AutoNames \union ManualNames
  /\ MaxLosses \in Nat

VARIABLES
  dir,       \* backups/<name>
  job,       \* each backup task
  restore,   \* each restore, from its upload on
  database,  \* what was loaded into Postgres: "own" as long as nothing was
  files,     \* what the workspace holds
  deleting,  \* names somebody deletes, or has deleted
  losses     \* workers lost so far

backupVars == <<dir, job, restore, database, files, deleting, losses>>

Names == AutoNames \union ManualNames

NoDir == [there |-> FALSE, dump |-> "none", space |-> "none", manifest |-> FALSE]

\* pg_dump opens its file at once.
NewDir == [NoDir EXCEPT !.there = TRUE, !.dump = "torn"]

Job(b, pc) == job' = [job EXCEPT ![b].pc = pc]

Restoring(r, pc) == restore' = [restore EXCEPT ![r].pc = pc]

NoJob == [pc |-> "none", kind |-> "auto", n |-> "none", retries |-> 0]

\* A task that is over; what it did is on the disk.
Over == [NoJob EXCEPT !.pc = "over"]

\* A task ends without success: it is tried once more.
Fails(k) == IF k.retries = 0 THEN [k EXCEPT !.pc = "queued", !.n = "none", !.retries = 1]
                             ELSE Over

BackupInit ==
  /\ dir = [n \in Names |-> NoDir]
  /\ job = [b \in Jobs |-> NoJob]
  /\ restore = [r \in Restores |-> [pc |-> "none", n |-> "none", db |-> "none", space |-> "none"]]
  /\ database = "own"
  /\ files = "own"
  /\ deleting = {}
  /\ losses = 0

-------------------------------------------------------------------------------

\* Pcs of a task that writes into its directory.
Writing == {"dumping", "archiving", "sealing"}

\* Beat's daily backup, or an administrator's.
RequestBackup(b, kind) ==
  /\ job[b].pc = "none"
  /\ job' = [job EXCEPT ![b].pc = "queued", ![b].kind = kind]
  /\ UNCHANGED <<dir, restore, database, files, deleting, losses>>

\* The names of a kind whose second has not come yet.
Unused(kind) ==
  {n \in (IF kind = "auto" THEN AutoNames ELSE ManualNames) : dir[n] = NoDir} \ deleting

\* _allocate_backup_slot: mkdir of a directory that is not there.
AllocateSlot(b, n) ==
  /\ job[b].pc = "queued"
  /\ n \in Unused(job[b].kind)
  /\ dir' = [dir EXCEPT ![n] = NewDir]
  /\ job' = [job EXCEPT ![b].pc = "dumping", ![b].n = n]
  /\ UNCHANGED <<restore, database, files, deleting, losses>>

\* Every name that is tried is taken: the failure is audited and retried.
NoSlot(b) ==
  /\ job[b].pc = "queued"
  /\ Names \ Unused(job[b].kind) # {}
  /\ job' = [job EXCEPT ![b] = Fails(@)]
  /\ UNCHANGED <<dir, restore, database, files, deleting, losses>>

\* What the tools make of a directory: pg_dump that has written the dump;
\* _create_workspace_archive, of which a file is there as soon as tar begins; and
\* _write_manifest, with the checksums of the files.
Dumped(d) == [d EXCEPT !.dump = "whole"]
ArchiveBegun(d) == [d EXCEPT !.space = "torn"]
Sealed(d) == [d EXCEPT !.manifest = TRUE]

\* pg_dump has written the dump, and tar begins the archive of the workspace, if
\* there is one; then that is written as well.
CloseFile(b) ==
  LET n == job[b].n IN
  /\ job[b].pc \in {"dumping", "archiving"}
  /\ dir[n].there
  /\ \/ /\ job[b].pc = "dumping"
        /\ dir' = [dir EXCEPT ![n] = ArchiveBegun(Dumped(@))]
        /\ Job(b, "archiving")
     \/ /\ job[b].pc = "dumping"
        /\ dir' = [dir EXCEPT ![n] = Dumped(@)]
        /\ Job(b, "sealing")
     \/ /\ job[b].pc = "archiving"
        /\ dir' = [dir EXCEPT ![n].space = "whole"]
        /\ Job(b, "sealing")
  /\ UNCHANGED <<restore, database, files, deleting, losses>>

\* pg_dump or tar fails: audited, the directory is removed, and once retried.
BackupFails(b) ==
  /\ job[b].pc \in {"dumping", "archiving"}
  /\ dir' = [dir EXCEPT ![job[b].n] = NoDir]
  /\ deleting' = deleting \union {job[b].n}
  /\ job' = [job EXCEPT ![b] = Fails(@)]
  /\ UNCHANGED <<restore, database, files, losses>>

\* The checksums, the manifest and the audit row.
WriteManifest(b) ==
  /\ job[b].pc = "sealing"
  /\ dir[job[b].n].there
  /\ dir' = [dir EXCEPT ![job[b].n] = Sealed(@)]
  /\ Job(b, "pruning")
  /\ UNCHANGED <<restore, database, files, deleting, losses>>

\* Its directory was deleted under it: an error that is not retried.
SlotGone(b) ==
  /\ job[b].pc \in Writing
  /\ ~dir[job[b].n].there
  /\ job' = [job EXCEPT ![b] = Over]
  /\ UNCHANGED <<dir, restore, database, files, deleting, losses>>

\* prune_auto_backups: the automatic backups, torn ones too, that are a week old.
Prune(b, old) ==
  /\ job[b].pc = "pruning"
  /\ old \subseteq {n \in AutoNames : dir[n].there} 
              \ {job[c].n : c \in {d \in Jobs : job[d].pc \in Writing \union {"pruning"}}}
  /\ dir' = [n \in Names |-> IF n \in old THEN NoDir ELSE dir[n]]
  /\ deleting' = deleting \union old
  /\ job' = [job EXCEPT ![b] = Over]
  /\ UNCHANGED <<restore, database, files, losses>>

\* The worker is lost and the task runs again, in another directory.
LoseBackup(b) ==
  /\ job[b].pc \in Writing \union {"pruning"}
  /\ losses < MaxLosses
  /\ losses' = losses + 1
  /\ job' = [job EXCEPT ![b].pc = "queued", ![b].n = "none"]
  /\ UNCHANGED <<dir, restore, database, files, deleting>>

-------------------------------------------------------------------------------

\* download_backup: the files of the directory, in whatever state tar finds them.
Downloaded(from) == [db |-> dir[from].dump, space |-> dir[from].space,
                     manifest |-> dir[from].manifest]

\* _validate_uploaded_archive: a dump and a manifest, whatever is in them.
Valid(archive) == archive.db # "none" /\ archive.manifest

\* An archive that was downloaded is uploaded.  The name is free when it is looked up.
Upload(r, from, n) ==
  /\ restore[r].pc = "none"
  /\ Valid(Downloaded(from))
  /\ n \in Unused("manual")
  /\ restore' = [restore EXCEPT ![r] =
       [pc |-> "uploaded", n |-> n,
        db |-> Downloaded(from).db, space |-> Downloaded(from).space]]
  /\ UNCHANGED <<dir, job, database, files, deleting, losses>>

\* shutil.move, and the task.  When a backup took the name in the meantime the
\* upload ends up inside that backup's directory.
MoveUpload(r) ==
  LET n == restore[r].n IN
  /\ restore[r].pc = "uploaded"
  /\ dir' = IF dir[n].there THEN dir
            ELSE [dir EXCEPT ![n] = [there |-> TRUE, dump |-> restore[r].db,
                                     space |-> restore[r].space, manifest |-> TRUE]]
  /\ restore' = [restore EXCEPT ![r] = [pc |-> "queued", n |-> n, db |-> "none", space |-> "none"]]
  /\ UNCHANGED <<job, database, files, deleting, losses>>

\* The disk spoils a file of a backup that waits for its restore, and not between the
\* checks and the reading.
Spoil(r) ==
  LET n == restore[r].n IN
  /\ restore[r].pc = "queued"
  /\ ~ \E q \in Restores : restore[q].pc \in {"loading", "extracting"} /\ restore[q].n = n
  /\ \/ dir[n].dump = "whole" /\ dir' = [dir EXCEPT ![n].dump = "torn"]
     \/ dir[n].space = "whole" /\ dir' = [dir EXCEPT ![n].space = "torn"]
  /\ UNCHANGED <<job, restore, database, files, deleting, losses>>

\* delete_backup, by an administrator who may delete manual backups only: rmtree
\* removes the files one after the other, in any order, which shows when a restore
\* reads them.  Nobody deletes a backup in the second of its name.
DeleteFile(n) ==
  /\ n \in ManualNames
  /\ dir[n].there
  /\ ~ \E r \in Restores : restore[r].pc = "uploaded" /\ restore[r].n = n
  /\ deleting' = deleting \union {n}
  /\ \/ dir' = [dir EXCEPT ![n] = NoDir]
     \/ /\ \E r \in Restores : restore[r].n = n
        /\ \/ dir' = [dir EXCEPT ![n].dump = "none"]
           \/ dir' = [dir EXCEPT ![n].space = "none"]
           \/ dir' = [dir EXCEPT ![n].manifest = FALSE]
  /\ UNCHANGED <<job, restore, database, files, losses>>

\* The dump and the manifest are there and the checksums of the files that are
\* there agree: the manifest has those of the whole files.
Sound(n) ==
  /\ dir[n].manifest
  /\ dir[n].dump = "whole"
  /\ dir[n].space \in {"whole", "none"}

\* Wrong on purpose: the files are there, and that is enough.
CheckPresence(r) ==
  /\ restore[r].pc = "queued"
  /\ Restoring(r, IF dir[restore[r].n].dump # "none" /\ dir[restore[r].n].manifest
                  THEN "loading" ELSE "failed")
  /\ UNCHANGED <<dir, job, database, files, deleting, losses>>

\* The checks before the restore.
CheckBackup(r) ==
  /\ restore[r].pc = "queued"
  /\ Restoring(r, IF Sound(restore[r].n) THEN "loading" ELSE "failed")
  /\ UNCHANGED <<dir, job, database, files, deleting, losses>>

\* _run_psql_restore, in a single transaction: the database after psql is given a dump.
Loaded(dump, ok) == IF ok /\ dump # "none" THEN dump ELSE database

\* _extract_workspace_archive: the workspace is wiped before the archive is read.
Unpacked(space, ok) == IF ok THEN space ELSE "wiped"

\* All of the dump is loaded, or nothing.
LoadDump(r, ok) ==
  LET dump == dir[restore[r].n].dump IN
  /\ restore[r].pc = "loading"
  /\ database' = Loaded(dump, ok)
  /\ Restoring(r, IF ok /\ dump # "none" THEN "extracting" ELSE "failed")
  /\ UNCHANGED <<dir, job, files, deleting, losses>>

\* The workspace is wiped and unpacked, when the backup has one.
ExtractWorkspace(r, ok) ==
  LET space == dir[restore[r].n].space IN
  /\ restore[r].pc = "extracting"
  /\ \/ /\ space = "none"
        /\ Restoring(r, "done")
        /\ UNCHANGED files
     \/ /\ space # "none"
        /\ files' = Unpacked(space, ok)
        /\ Restoring(r, IF ok THEN "done" ELSE "failed")
  /\ UNCHANGED <<dir, job, database, deleting, losses>>

\* The worker is lost and the restore runs again from the start.
LoseRestore(r) ==
  /\ restore[r].pc \in {"loading", "extracting"}
  /\ losses < MaxLosses
  /\ losses' = losses + 1
  /\ restore' = [restore EXCEPT ![r] =
       [pc |-> "queued", n |-> @.n, db |-> "none", space |-> "none"]]
  /\ UNCHANGED <<dir, job, database, files, deleting>>

BackupNext ==
  \/ \E b \in Jobs :
       \/ \E kind \in {"auto", "manual"} : RequestBackup(b, kind)
       \/ \E n \in Names : AllocateSlot(b, n)
       \/ NoSlot(b) \/ CloseFile(b)
       \/ BackupFails(b) \/ WriteManifest(b) \/ SlotGone(b) \/ LoseBackup(b)
       \/ \E old \in SUBSET AutoNames : Prune(b, old)
  \/ \E n \in Names : DeleteFile(n)
  \/ \E r \in Restores :
       \/ \E from, n \in Names : Upload(r, from, n)
       \/ MoveUpload(r) \/ Spoil(r) \/ CheckBackup(r) \/ LoseRestore(r)
       \/ \E ok \in BOOLEAN : LoadDump(r, ok) \/ ExtractWorkspace(r, ok)

BackupSpec == BackupInit /\ [][BackupNext]_backupVars

(***************************************************************************)
(* Properties.                                                             *)
(***************************************************************************)

Contents == {"none", "torn", "whole"}

\* The variables stay in their domains.
BackupTypeOK ==
  /\ dir \in [Names -> [there : BOOLEAN, dump : Contents, space : Contents, manifest : BOOLEAN]]
  /\ job \in [Jobs ->
       [pc      : {"none", "queued", "dumping", "archiving", "sealing",
                   "pruning", "over"},
        kind    : {"auto", "manual"},
        n       : Names \union {"none"},
        retries : 0..1]]
  /\ restore \in [Restores ->
       [pc    : {"none", "uploaded", "queued", "loading", "extracting", "done", "failed"},
        n     : Names \union {"none"},
        db    : Contents,
        space : Contents]]
  /\ database \in {"own", "torn", "whole"}
  /\ files \in {"own", "wiped", "torn", "whole"}
  /\ deleting \subseteq Names
  /\ losses \in 0..MaxLosses

\* Neither a dump nor a workspace that is incomplete or spoiled is ever restored,
\* whatever was lost, torn or deleted while it was written or uploaded.
NothingTornIsRestored == database # "torn" /\ files # "torn"
===============================================================================
