---------------------------- MODULE RecordsProofs ----------------------------
(***************************************************************************)
(* Theorems of Backups, AuditTrail and Progress, for any number of jobs,   *)
(* restores, requests, tabs and rows.                                      *)
(*                                                                         *)
(* NothingTornIsRestored: a directory with a manifest is written by        *)
(* nobody, no directory is written by two (DirectoriesApart), no upload    *)
(* waits for a name that is being written and gone (UploadsApart), and so  *)
(* what a restore reads is what it checked (ReadsWhole).                   *)
(*                                                                         *)
(* AuditReplays: it is kept by every commit, since a request writes what   *)
(* its audit row says (WritesRows) at a time of its own (RequestsApart).   *)
(* ExportLosesOnlyTheOldest: what an export has is closed upwards, and     *)
(* lacks no row whose place is before the offset (WellRead); rows that are *)
(* added only push others back.                                            *)
(*                                                                         *)
(* StreamsAreCounted: a registered socket is in the bucket or another      *)
(* handler has it to close (Counts).  PercentNeverFalls: what a tab shows, *)
(* what is on the wire of its socket, the frame this socket is greeted     *)
(* with and the row follow one another in this order (FramesInOrder); the other  *)
(* sockets of the tab are closing and bring no frame (Quiet, OneFeeds).    *)
(***************************************************************************)
EXTENDS Backups, AuditTrail, Progress, NumberLemmas, FiniteSetTheorems, TLAPS

-------------------------------------------------------------------------------
\* Backups and restores.

JobStates == {"none", "queued", "dumping", "archiving", "sealing", "pruning", "over"}

Directories == [there : BOOLEAN, dump : Contents, space : Contents, manifest : BOOLEAN]

BackupJobs ==
  [pc : JobStates, kind : {"auto", "manual"}, n : Names \union {"none"}, retries : 0..1]

RestoreTasks ==
  [pc    : {"none", "uploaded", "queued", "loading", "extracting", "done", "failed"},
   n     : Names \union {"none"}, db : Contents, space : Contents]

\* The tasks that write into a directory, and the restores that read one.
Writes(b, n) == job[b].pc \in Writing /\ job[b].n = n
Uploaded(r, n) == restore[r].pc = "uploaded" /\ restore[r].n = n
Reads(r, n) == restore[r].pc \in {"loading", "extracting"} /\ restore[r].n = n

\* A name that was given to a directory is not given again.
Taken(n) == dir[n].there \/ n \in deleting

\* A directory that is gone has no files; one with a manifest is written by nobody,
\* and no directory is written by two.
DirectoriesApart ==
  \A n \in Names :
    /\ ~dir[n].there => dir[n] = NoDir
    /\ \A b \in Jobs : Writes(b, n) => Taken(n) /\ ~dir[n].manifest
    /\ \A b, c \in Jobs : Writes(b, n) /\ Writes(c, n) => b = c

\* While an upload waits for its name, the name is given to nobody who has lost it.
UploadsApart ==
  \A r \in Restores, n \in Names : Uploaded(r, n) =>
    /\ n \in ManualNames
    /\ \A b \in Jobs : Writes(b, n) => dir[n].there

\* What was checked is neither torn nor written, and no upload takes its place.
ReadsWhole ==
  \A r \in Restores, n \in Names : Reads(r, n) =>
    /\ dir[n].dump # "torn" /\ dir[n].space # "torn"
    /\ Taken(n)
    /\ \A b \in Jobs : ~Writes(b, n)
    /\ \A q \in Restores : Uploaded(q, n) => dir[n].there

BackupInv ==
  /\ BackupTypeOK
  /\ \A b \in Jobs : job[b].pc \in Writing => job[b].n \in Names
  /\ \A r \in Restores : restore[r].pc # "none" => restore[r].n \in Names
  /\ DirectoriesApart /\ UploadsApart /\ ReadsWhole
  /\ NothingTornIsRestored

LEMMA BackupTypes ==
  BackupTypeOK <=>
    /\ dir \in [Names -> Directories] /\ job \in [Jobs -> BackupJobs]
    /\ restore \in [Restores -> RestoreTasks]
    /\ database \in {"own", "torn", "whole"} /\ files \in {"own", "wiped", "torn", "whole"}
    /\ deleting \subseteq Names /\ losses \in 0..MaxLosses
  BY DEF BackupTypeOK, Directories, BackupJobs, RestoreTasks, JobStates

LEMMA BackupTypesNext ==
  ASSUME dir' \in [Names -> Directories], job' \in [Jobs -> BackupJobs],
         restore' \in [Restores -> RestoreTasks],
         database' \in {"own", "torn", "whole"}, files' \in {"own", "wiped", "torn", "whole"},
         deleting' \subseteq Names, losses' \in 0..MaxLosses
  PROVE  BackupTypeOK'
  BY DEF BackupTypeOK, Directories, BackupJobs, RestoreTasks, JobStates

LEMMA NoDirIsEmpty == NoDir.dump = "none" /\ NoDir.space = "none"
  BY DEF NoDir

LEMMA BackupInvInit == BackupInit => BackupInv
  <1> SUFFICES ASSUME BackupInit PROVE BackupInv
    OBVIOUS
  <1>1. NoDir \in Directories /\ NoJob \in BackupJobs /\ ~NoDir.there
    BY DEF NoDir, NoJob, Directories, BackupJobs, JobStates, Contents
  <1>2. [pc |-> "none", n |-> "none", db |-> "none", space |-> "none"] \in RestoreTasks
    BY DEF RestoreTasks, Contents
  <1>3. BackupTypeOK
    BY <1>1, <1>2, BackupTypes, BackupsAssumption DEF BackupInit
  <1>4. \A b \in Jobs : job[b].pc = "none"
    BY DEF BackupInit, NoJob
  <1>5. \A r \in Restores : restore[r].pc = "none"
    BY DEF BackupInit
  <1>6. \A n \in Names : dir[n] = NoDir
    BY DEF BackupInit
  <1>7. /\ \A b \in Jobs : job[b].pc \notin Writing
        /\ \A b \in Jobs, n \in Names : ~Writes(b, n)
        /\ \A r \in Restores, n \in Names : ~Uploaded(r, n) /\ ~Reads(r, n)
    BY <1>4, <1>5 DEF Writes, Uploaded, Reads, Writing
  <1>8. DirectoriesApart /\ UploadsApart /\ ReadsWhole
    BY <1>6, <1>7 DEF DirectoriesApart, UploadsApart, ReadsWhole
  <1>9. NothingTornIsRestored
    BY DEF BackupInit, NothingTornIsRestored
  <1> QED
    BY <1>3, <1>5, <1>7, <1>8, <1>9 DEF BackupInv

\* A step of a backup task that leaves the restores alone.
LEMMA JobMoves ==
  ASSUME BackupInv, NEW b \in Jobs, NEW k \in BackupJobs, job' = [job EXCEPT ![b] = k],
         k.pc \in Writing => k.n \in Names,
         UNCHANGED <<restore, database, files>>,
         dir' \in [Names -> Directories], deleting' \subseteq Names, losses' \in 0..MaxLosses,
         DirectoriesApart', UploadsApart', ReadsWhole'
  PROVE  BackupInv'
  <1>1. /\ job \in [Jobs -> BackupJobs] /\ restore \in [Restores -> RestoreTasks]
        /\ database \in {"own", "torn", "whole"} /\ files \in {"own", "wiped", "torn", "whole"}
    BY BackupTypes DEF BackupInv
  <1>2. job' \in [Jobs -> BackupJobs] /\ \A c \in Jobs : job'[c] = IF c = b THEN k ELSE job[c]
    BY <1>1
  <1>3. BackupTypeOK'
    BY <1>1, <1>2, BackupTypesNext
  <1>4. NothingTornIsRestored'
    BY DEF BackupInv, NothingTornIsRestored
  <1> QED
    BY <1>2, <1>3, <1>4 DEF BackupInv

\* The same of one that leaves the directories alone too and starts no writing.
LEMMA JobRests ==
  ASSUME BackupInv, NEW b \in Jobs, NEW k \in BackupJobs, job' = [job EXCEPT ![b] = k],
         k.pc \in Writing => job[b].pc \in Writing /\ k.n = job[b].n,
         UNCHANGED <<dir, restore, database, files, deleting>>, losses' \in 0..MaxLosses
  PROVE  BackupInv'
  <1>1. job \in [Jobs -> BackupJobs] /\ dir \in [Names -> Directories] /\ deleting \subseteq Names
    BY BackupTypes DEF BackupInv
  <1>2. \A c \in Jobs : job'[c] = IF c = b THEN k ELSE job[c]
    BY <1>1
  <1>3. \A c \in Jobs, n \in Names : Writes(c, n)' => Writes(c, n)
    BY <1>2 DEF Writes
  <1>4. \A r \in Restores, n \in Names :
          (Uploaded(r, n)' <=> Uploaded(r, n)) /\ (Reads(r, n)' <=> Reads(r, n))
    BY DEF Uploaded, Reads
  <1>5. DirectoriesApart'
    BY <1>3 DEF BackupInv, DirectoriesApart, Taken
  <1>6. UploadsApart'
    BY <1>3, <1>4 DEF BackupInv, UploadsApart
  <1>7. ReadsWhole'
    BY <1>3, <1>4 DEF BackupInv, ReadsWhole, Taken
  <1> QED
    BY <1>1, <1>5, <1>6, <1>7, JobMoves DEF BackupInv

\* A task that writes into a directory changes it, or is taken off it, and no other does.
LEMMA WriterMoves ==
  ASSUME BackupInv, NEW b \in Jobs, NEW n \in Names, Writes(b, n),
         NEW k \in BackupJobs, job' = [job EXCEPT ![b] = k],
         k.pc \in Writing => k.n = n,
         NEW d \in Directories, dir' = [dir EXCEPT ![n] = d],
         ~d.there => d = NoDir /\ k.pc \notin Writing,
         d.manifest => k.pc \notin Writing,
         deleting \subseteq deleting', deleting' \subseteq Names,
         UNCHANGED <<restore, database, files, losses>>
  PROVE  BackupInv'
  <1>1. /\ job \in [Jobs -> BackupJobs] /\ dir \in [Names -> Directories]
        /\ losses \in 0..MaxLosses
    BY BackupTypes DEF BackupInv
  <1>2. /\ \A c \in Jobs : job'[c] = IF c = b THEN k ELSE job[c]
        /\ dir' \in [Names -> Directories]
        /\ \A m \in Names : dir'[m] = IF m = n THEN d ELSE dir[m]
    BY <1>1
  <1>3. \A c \in Jobs, m \in Names : Writes(c, m)' =>
          Writes(c, m) /\ (m = n => c = b /\ k.pc \in Writing)
    BY <1>2 DEF Writes, BackupInv, DirectoriesApart
  <1>4. \A r \in Restores, m \in Names :
          (Uploaded(r, m)' <=> Uploaded(r, m)) /\ (Reads(r, m)' <=> Reads(r, m))
    BY DEF Uploaded, Reads
  <1>5. DirectoriesApart'
    BY <1>2, <1>3 DEF BackupInv, DirectoriesApart, Taken
  <1>6. UploadsApart'
    BY <1>2, <1>3, <1>4 DEF BackupInv, UploadsApart
  <1>7. ReadsWhole'
    BY <1>2, <1>3, <1>4 DEF BackupInv, ReadsWhole, Taken
  <1>8. k.pc \in Writing => k.n \in Names
    OBVIOUS
  <1> QED
    BY <1>1, <1>2, <1>5, <1>6, <1>7, <1>8, JobMoves
\* A step that moves no task.
LEMMA RestsKeep ==
  ASSUME BackupInv, UNCHANGED <<job, restore, database, files, losses>>,
         dir' \in [Names -> Directories], deleting' \subseteq Names,
         DirectoriesApart', UploadsApart', ReadsWhole'
  PROVE  BackupInv'
  <1>1. BackupTypeOK'
    BY BackupTypes, BackupTypesNext DEF BackupInv
  <1>2. NothingTornIsRestored'
    BY DEF BackupInv, NothingTornIsRestored
  <1> QED
    BY <1>1, <1>2 DEF BackupInv

\* A step of a restore.
LEMMA RestoreMoves ==
  ASSUME BackupInv, NEW r \in Restores, NEW k \in RestoreTasks,
         restore' = [restore EXCEPT ![r] = k], k.n \in Names,
         UNCHANGED <<job, deleting>>, losses' \in 0..MaxLosses,
         dir' \in [Names -> Directories],
         database' \in {"own", "torn", "whole"}, files' \in {"own", "wiped", "torn", "whole"},
         DirectoriesApart', UploadsApart', ReadsWhole', NothingTornIsRestored'
  PROVE  BackupInv'
  <1>1. /\ job \in [Jobs -> BackupJobs] /\ restore \in [Restores -> RestoreTasks]
        /\ deleting \subseteq Names
    BY BackupTypes DEF BackupInv
  <1>2. /\ restore' \in [Restores -> RestoreTasks]
        /\ \A q \in Restores : restore'[q] = IF q = r THEN k ELSE restore[q]
    BY <1>1
  <1>3. BackupTypeOK'
    BY <1>1, <1>2, BackupTypesNext
  <1> QED
    BY <1>2, <1>3 DEF BackupInv

\* The same of one that was checked, and leaves the directories alone.
LEMMA RestoreRests ==
  ASSUME BackupInv, NEW r \in Restores, NEW k \in RestoreTasks,
         restore' = [restore EXCEPT ![r] = k], k.n = restore[r].n, k.pc # "uploaded",
         restore[r].pc \in {"loading", "extracting"},
         UNCHANGED <<dir, job, deleting>>, losses' \in 0..MaxLosses,
         database' \in {"own", "torn", "whole"}, files' \in {"own", "wiped", "torn", "whole"},
         NothingTornIsRestored'
  PROVE  BackupInv'
  <1>1. restore \in [Restores -> RestoreTasks] /\ dir \in [Names -> Directories]
    BY BackupTypes DEF BackupInv
  <1>2. \A q \in Restores : restore'[q] = IF q = r THEN k ELSE restore[q]
    BY <1>1
  <1>3. /\ \A c \in Jobs, m \in Names : Writes(c, m)' <=> Writes(c, m)
        /\ \A q \in Restores, m \in Names :
             /\ Uploaded(q, m)' => Uploaded(q, m)
             /\ Reads(q, m)' => Reads(q, m)
    BY <1>2 DEF Writes, Uploaded, Reads
  <1>4. DirectoriesApart'
    BY <1>3 DEF BackupInv, DirectoriesApart, Taken
  <1>5. UploadsApart'
    BY <1>3 DEF BackupInv, UploadsApart
  <1>6. ReadsWhole'
    BY <1>3 DEF BackupInv, ReadsWhole, Taken
  <1>7. k.n \in Names
    BY DEF BackupInv
  <1> QED
    BY <1>1, <1>4, <1>5, <1>6, <1>7, RestoreMoves

LEMMA BackupInvStep ==
  ASSUME BackupInv, [BackupNext]_backupVars
  PROVE  BackupInv'
  <1>0. /\ dir \in [Names -> Directories] /\ job \in [Jobs -> BackupJobs]
        /\ restore \in [Restores -> RestoreTasks] /\ losses \in 0..MaxLosses
        /\ deleting \subseteq Names
    BY BackupTypes DEF BackupInv
  <1>000. Over \in BackupJobs /\ Over.pc \notin Writing
    BY DEF BackupJobs, JobStates, Over, NoJob, Writing
  <1>00. ASSUME NEW k \in BackupJobs PROVE Fails(k) \in BackupJobs /\ Fails(k).pc \notin Writing
    <2>1. [k EXCEPT !.pc = "queued", !.n = "none", !.retries = 1] \in BackupJobs
      <3>1. "queued" \in JobStates /\ "none" \in Names \union {"none"} /\ 1 \in 0..1
        BY DEF JobStates
      <3>2. PICK states, names, numbers : /\ states = JobStates /\ names = Names \union {"none"}
                                          /\ numbers = 0..1
        OBVIOUS
      <3>3. BackupJobs = [pc : states, kind : {"auto", "manual"}, n : names, retries : numbers]
        BY <3>2 DEF BackupJobs
      <3> QED
        BY <3>1, <3>2, <3>3
    <2>2. [k EXCEPT !.pc = "queued", !.n = "none", !.retries = 1].pc \notin Writing
      BY DEF BackupJobs, Writing
    <2> QED
      BY <1>000, <2>1, <2>2 DEF Fails
  <1>1. ASSUME NEW b \in Jobs, NEW kind \in {"auto", "manual"}, RequestBackup(b, kind)
        PROVE  BackupInv'
    <2>1. PICK k : k = [job[b] EXCEPT !.pc = "queued", !.kind = kind]
      OBVIOUS
    <2>2. k \in BackupJobs /\ k.pc \notin Writing
      BY <1>0, <2>1 DEF BackupJobs, JobStates, Writing
    <2>3. /\ job' = [job EXCEPT ![b] = k]
          /\ UNCHANGED <<dir, restore, database, files, deleting, losses>>
      BY <1>0, <1>1, <2>1 DEF RequestBackup
    <2> QED
      BY <1>0, <2>2, <2>3, JobRests
  <1>2. ASSUME NEW b \in Jobs, NEW n \in Names, AllocateSlot(b, n)
        PROVE  BackupInv'
    <2>1. PICK k : k = [job[b] EXCEPT !.pc = "dumping", !.n = n]
      OBVIOUS
    <2>2. k \in BackupJobs /\ k.pc \in Writing /\ k.n = n
      BY <1>0, <2>1 DEF BackupJobs, JobStates, Writing
    <2>3. /\ job' = [job EXCEPT ![b] = k] /\ dir' = [dir EXCEPT ![n] = NewDir]
          /\ UNCHANGED <<restore, database, files, deleting, losses>>
          /\ dir[n] = NoDir /\ n \notin deleting
      BY <1>0, <1>2, <2>1 DEF AllocateSlot, Unused
    <2>4. /\ NewDir \in Directories /\ NewDir.there /\ ~NewDir.manifest /\ ~NoDir.there
      BY DEF NewDir, NoDir, Directories, Contents
    <2>5. /\ dir' \in [Names -> Directories]
          /\ \A m \in Names : dir'[m] = IF m = n THEN NewDir ELSE dir[m]
          /\ \A c \in Jobs : job'[c] = IF c = b THEN k ELSE job[c]
      BY <1>0, <2>3, <2>4
    <2>6. \A c \in Jobs : ~Writes(c, n)
      BY <2>3, <2>4 DEF BackupInv, DirectoriesApart, Taken
    <2>7. \A r \in Restores : ~Reads(r, n)
      BY <2>3, <2>4 DEF BackupInv, ReadsWhole, Taken
    <2>8. \A c \in Jobs, m \in Names : Writes(c, m)' => Writes(c, m) \/ (c = b /\ m = n)
      BY <2>2, <2>5 DEF Writes
    <2>9. \A r \in Restores, m \in Names :
            (Uploaded(r, m)' <=> Uploaded(r, m)) /\ (Reads(r, m)' <=> Reads(r, m))
      BY <2>3 DEF Uploaded, Reads
    <2>10. DirectoriesApart'
      BY <2>3, <2>4, <2>5, <2>6, <2>8 DEF BackupInv, DirectoriesApart, Taken
    <2>11. UploadsApart'
      BY <2>4, <2>5, <2>8, <2>9 DEF BackupInv, UploadsApart
    <2>12. ReadsWhole'
      BY <2>3, <2>5, <2>7, <2>8, <2>9 DEF BackupInv, ReadsWhole, Taken
    <2> QED
      BY <1>0, <2>2, <2>3, <2>5, <2>10, <2>11, <2>12, JobMoves
  <1>3. ASSUME NEW b \in Jobs, NoSlot(b)
        PROVE  BackupInv'
    <2>1. PICK k : k = Fails(job[b])
      OBVIOUS
    <2>2. /\ job' = [job EXCEPT ![b] = k]
          /\ UNCHANGED <<dir, restore, database, files, deleting, losses>>
      BY <1>3, <2>1 DEF NoSlot
    <2> QED
      BY <1>0, <1>00, <2>1, <2>2, JobRests
  <1>4. ASSUME NEW b \in Jobs, CloseFile(b)
        PROVE  BackupInv'
    <2>1. PICK n : n = job[b].n
      OBVIOUS
    <2>2. /\ job[b].pc \in {"dumping", "archiving"} /\ dir[n].there
          /\ UNCHANGED <<restore, database, files, deleting, losses>>
      BY <1>4, <2>1 DEF CloseFile
    <2>3. n \in Names /\ Writes(b, n)
      BY <2>1, <2>2 DEF BackupInv, Writes, Writing
    <2>4. ~dir[n].manifest
      BY <2>3 DEF BackupInv, DirectoriesApart
    <2>5. PICK d, pc :
            /\ dir' = [dir EXCEPT ![n] = d] /\ job' = [job EXCEPT ![b].pc = pc]
            /\ pc \in {"archiving", "sealing"}
            /\ d \in Directories /\ d.there /\ ~d.manifest
      <3>1. dir[n] \in Directories
        BY <1>0, <2>3
      <3>2. /\ ArchiveBegun(Dumped(dir[n])) \in Directories
            /\ ArchiveBegun(Dumped(dir[n])).there /\ ~ArchiveBegun(Dumped(dir[n])).manifest
        BY <2>2, <2>4, <3>1 DEF ArchiveBegun, Dumped, Directories, Contents
      <3>3. /\ Dumped(dir[n]) \in Directories /\ Dumped(dir[n]).there /\ ~Dumped(dir[n]).manifest
        BY <2>2, <2>4, <3>1 DEF Dumped, Directories, Contents
      <3>4. PICK e : e = [dir[n] EXCEPT !.space = "whole"]
        OBVIOUS
      <3>5. e \in Directories /\ e.there /\ ~e.manifest
        BY <2>2, <2>4, <3>1, <3>4 DEF Directories, Contents
      <3>6. CASE dir' = [dir EXCEPT ![n] = ArchiveBegun(Dumped(@))] /\ Job(b, "archiving")
        BY <3>2, <3>6 DEF Job
      <3>7. CASE dir' = [dir EXCEPT ![n] = Dumped(@)] /\ Job(b, "sealing")
        BY <3>3, <3>7 DEF Job
      <3>8. CASE dir' = [dir EXCEPT ![n].space = "whole"] /\ Job(b, "sealing")
        <4>1. dir' = [dir EXCEPT ![n] = e]
          BY <1>0, <3>4, <3>8
        <4> QED
          BY <3>5, <3>8, <4>1 DEF Job
      <3> QED
        BY <1>4, <2>1, <3>6, <3>7, <3>8 DEF CloseFile
    <2>6. PICK k : k = [job[b] EXCEPT !.pc = pc]
      OBVIOUS
    <2>7. k \in BackupJobs /\ k.n = n /\ job' = [job EXCEPT ![b] = k]
      BY <1>0, <2>1, <2>5, <2>6 DEF BackupJobs, JobStates
    <2> QED
      BY <1>0, <2>2, <2>3, <2>5, <2>7, WriterMoves
  <1>5. ASSUME NEW b \in Jobs, BackupFails(b)
        PROVE  BackupInv'
    <2>1. PICK n : n = job[b].n
      OBVIOUS
    <2>2. PICK k : k = Fails(job[b])
      OBVIOUS
    <2>3. /\ job[b].pc \in {"dumping", "archiving"}
          /\ dir' = [dir EXCEPT ![n] = NoDir] /\ job' = [job EXCEPT ![b] = k]
          /\ deleting' = deleting \union {n} /\ UNCHANGED <<restore, database, files, losses>>
      BY <1>5, <2>1, <2>2 DEF BackupFails
    <2>4. n \in Names /\ Writes(b, n)
      BY <2>1, <2>3 DEF BackupInv, Writes, Writing
    <2>5. NoDir \in Directories /\ ~NoDir.manifest
      BY DEF NoDir, Directories, Contents
    <2> QED
      BY <1>0, <1>00, <2>2, <2>3, <2>4, <2>5, WriterMoves
  <1>6. ASSUME NEW b \in Jobs, WriteManifest(b)
        PROVE  BackupInv'
    <2>1. PICK n : n = job[b].n
      OBVIOUS
    <2>2. PICK k : k = [job[b] EXCEPT !.pc = "pruning"]
      OBVIOUS
    <2>3. PICK d : d = Sealed(dir[n])
      OBVIOUS
    <2>4. /\ job[b].pc = "sealing" /\ dir[n].there
          /\ dir' = [dir EXCEPT ![n] = d] /\ job' = [job EXCEPT ![b] = k]
          /\ UNCHANGED <<restore, database, files, deleting, losses>>
      BY <1>0, <1>6, <2>1, <2>2, <2>3 DEF WriteManifest, Job
    <2>5. n \in Names /\ Writes(b, n)
      BY <2>1, <2>4 DEF BackupInv, Writes, Writing
    <2>6. k \in BackupJobs /\ k.pc \notin Writing
      BY <1>0, <2>2 DEF BackupJobs, JobStates, Writing
    <2>7. d \in Directories /\ d.there
      BY <1>0, <2>3, <2>4, <2>5 DEF Sealed, Directories
    <2> QED
      BY <1>0, <2>4, <2>5, <2>6, <2>7, WriterMoves
  <1>7. ASSUME NEW b \in Jobs, SlotGone(b)
        PROVE  BackupInv'
    <2>1. /\ job' = [job EXCEPT ![b] = Over]
          /\ UNCHANGED <<dir, restore, database, files, deleting, losses>>
      BY <1>7 DEF SlotGone
    <2> QED
      BY <1>0, <1>000, <2>1, JobRests
  <1>8. ASSUME NEW b \in Jobs, LoseBackup(b)
        PROVE  BackupInv'
    <2>1. PICK k : k = [job[b] EXCEPT !.pc = "queued", !.n = "none"]
      OBVIOUS
    <2>2. k \in BackupJobs /\ k.pc \notin Writing
      BY <1>0, <2>1 DEF BackupJobs, JobStates, Writing
    <2>3. /\ job' = [job EXCEPT ![b] = k] /\ UNCHANGED <<dir, restore, database, files, deleting>>
          /\ losses < MaxLosses /\ losses' = losses + 1
      BY <1>0, <1>8, <2>1 DEF LoseBackup
    <2>4. losses' \in 0..MaxLosses
      BY <1>0, <2>3, BackupsAssumption
    <2> QED
      BY <2>2, <2>3, <2>4, JobRests
  <1>9. ASSUME NEW b \in Jobs, NEW old \in SUBSET AutoNames, Prune(b, old)
        PROVE  BackupInv'
    <2>1. /\ job' = [job EXCEPT ![b] = Over] /\ deleting' = deleting \union old
          /\ dir' = [n \in Names |-> IF n \in old THEN NoDir ELSE dir[n]]
          /\ UNCHANGED <<restore, database, files, losses>>
          /\ \A c \in Jobs : job[c].pc \in Writing => job[c].n \notin old
      BY <1>9 DEF Prune
    <2>2. NoDir \in Directories /\ ~NoDir.there /\ ~NoDir.manifest /\ NoDir.dump # "torn"
          /\ NoDir.space # "torn"
      BY DEF NoDir, Directories, Contents
    <2>3. /\ dir' \in [Names -> Directories] /\ deleting' \subseteq Names
          /\ \A m \in Names : dir'[m] = IF m \in old THEN NoDir ELSE dir[m]
          /\ \A c \in Jobs : job'[c] = IF c = b THEN Over ELSE job[c]
      BY <1>0, <2>1, <2>2 DEF Names
    <2>4. \A c \in Jobs, m \in Names : Writes(c, m)' => Writes(c, m) /\ m \notin old
      BY <1>000, <2>1, <2>3 DEF Writes
    <2>5. \A r \in Restores, m \in Names :
            (Uploaded(r, m)' <=> Uploaded(r, m)) /\ (Reads(r, m)' <=> Reads(r, m))
      BY <2>1 DEF Uploaded, Reads
    <2>6. DirectoriesApart'
      BY <2>1, <2>2, <2>3, <2>4 DEF BackupInv, DirectoriesApart, Taken
    <2>7. UploadsApart'
      BY <2>3, <2>4, <2>5 DEF BackupInv, UploadsApart
    <2>8. ReadsWhole'
      <3>1. \A r \in Restores, m \in Names : Uploaded(r, m) => m \notin old
        BY BackupsAssumption DEF BackupInv, UploadsApart
      <3> QED
        BY <2>1, <2>2, <2>3, <2>4, <2>5, <3>1 DEF BackupInv, ReadsWhole, Taken
    <2> QED
      BY <1>0, <1>000, <2>1, <2>3, <2>6, <2>7, <2>8, JobMoves
  <1>10. ASSUME NEW n \in Names, DeleteFile(n)
         PROVE  BackupInv'
    <2>1. PICK d \in Directories :
            /\ dir' = [dir EXCEPT ![n] = d]
            /\ ~d.there => d = NoDir
            /\ d.dump \in {dir[n].dump, "none"} /\ d.space \in {dir[n].space, "none"}
            /\ d.manifest => dir[n].manifest
      <3>1. dir[n] \in Directories
        BY <1>0
      <3>2. NoDir \in Directories /\ ~NoDir.there /\ NoDir.dump = "none" /\ NoDir.space = "none"
            /\ ~NoDir.manifest
        BY DEF NoDir, Directories, Contents
      <3>3. ASSUME dir' = [dir EXCEPT ![n].dump = "none"] PROVE
              /\ dir' = [dir EXCEPT ![n] = [dir[n] EXCEPT !.dump = "none"]]
              /\ [dir[n] EXCEPT !.dump = "none"] \in Directories
        BY <1>0, <3>1, <3>3 DEF Directories, Contents
      <3>4. ASSUME dir' = [dir EXCEPT ![n].space = "none"] PROVE
              /\ dir' = [dir EXCEPT ![n] = [dir[n] EXCEPT !.space = "none"]]
              /\ [dir[n] EXCEPT !.space = "none"] \in Directories
        BY <1>0, <3>1, <3>4 DEF Directories, Contents
      <3>5. ASSUME dir' = [dir EXCEPT ![n].manifest = FALSE] PROVE
              /\ dir' = [dir EXCEPT ![n] = [dir[n] EXCEPT !.manifest = FALSE]]
              /\ [dir[n] EXCEPT !.manifest = FALSE] \in Directories
        BY <1>0, <3>1, <3>5 DEF Directories, Contents
      <3>6. dir[n].there
        BY <1>10 DEF DeleteFile
      <3>7. CASE dir' = [dir EXCEPT ![n] = NoDir]
        BY <3>2, <3>7
      <3>8. CASE dir' = [dir EXCEPT ![n].dump = "none"]
        BY <3>1, <3>3, <3>6, <3>8 DEF Directories
      <3>9. CASE dir' = [dir EXCEPT ![n].space = "none"]
        BY <3>1, <3>4, <3>6, <3>9 DEF Directories
      <3>10. CASE dir' = [dir EXCEPT ![n].manifest = FALSE]
        BY <3>1, <3>5, <3>6, <3>10 DEF Directories
      <3> QED
        BY <1>10, <3>7, <3>8, <3>9, <3>10 DEF DeleteFile
    <2>2. /\ deleting' = deleting \union {n} /\ UNCHANGED <<job, restore, database, files, losses>>
          /\ \A r \in Restores : ~Uploaded(r, n)
      BY <1>10 DEF DeleteFile, Uploaded
    <2>3. /\ dir' \in [Names -> Directories] /\ deleting' \subseteq Names
          /\ \A m \in Names : dir'[m] = IF m = n THEN d ELSE dir[m]
      BY <1>0, <2>1, <2>2
    <2>4. /\ \A c \in Jobs, m \in Names : Writes(c, m)' <=> Writes(c, m)
          /\ \A r \in Restores, m \in Names :
               (Uploaded(r, m)' <=> Uploaded(r, m)) /\ (Reads(r, m)' <=> Reads(r, m))
      BY <2>2 DEF Writes, Uploaded, Reads
    <2>5. DirectoriesApart'
      BY <2>1, <2>2, <2>3, <2>4 DEF BackupInv, DirectoriesApart, Taken
    <2>6. UploadsApart'
      BY <2>2, <2>3, <2>4 DEF BackupInv, UploadsApart
    <2>7. ReadsWhole'
      BY <2>1, <2>2, <2>3, <2>4 DEF BackupInv, ReadsWhole, Taken
    <2> QED
      BY <2>2, <2>3, <2>5, <2>6, <2>7, RestsKeep
  <1>11. ASSUME NEW r \in Restores, NEW from \in Names, NEW n \in Names, Upload(r, from, n)
         PROVE  BackupInv'
    <2>1. PICK k : k = [pc |-> "uploaded", n |-> n, db |-> Downloaded(from).db,
                        space |-> Downloaded(from).space]
      OBVIOUS
    <2>2. /\ restore' = [restore EXCEPT ![r] = k]
          /\ UNCHANGED <<dir, job, database, files, deleting, losses>>
          /\ dir[n] = NoDir /\ n \notin deleting /\ n \in ManualNames
      BY <1>11, <2>1 DEF Upload, Unused
    <2>3. k \in RestoreTasks /\ k.pc = "uploaded" /\ k.n = n
      BY <1>0, <2>1 DEF RestoreTasks, Downloaded, Directories
    <2>4. ~NoDir.there
      BY DEF NoDir
    <2>5. \A c \in Jobs : ~Writes(c, n)
      BY <2>2, <2>4 DEF BackupInv, DirectoriesApart, Taken
    <2>6. \A q \in Restores : ~Reads(q, n)
      BY <2>2, <2>4 DEF BackupInv, ReadsWhole, Taken
    <2>7. \A q \in Restores : restore'[q] = IF q = r THEN k ELSE restore[q]
      BY <1>0, <2>2
    <2>8. /\ \A c \in Jobs, m \in Names : Writes(c, m)' <=> Writes(c, m)
          /\ \A q \in Restores, m \in Names :
               /\ Uploaded(q, m)' => Uploaded(q, m) \/ m = n
               /\ Reads(q, m)' => Reads(q, m)
      BY <2>2, <2>3, <2>7 DEF Writes, Uploaded, Reads
    <2>9. DirectoriesApart'
      BY <2>2, <2>8 DEF BackupInv, DirectoriesApart, Taken
    <2>10. UploadsApart'
      BY <2>2, <2>5, <2>8 DEF BackupInv, UploadsApart
    <2>11. ReadsWhole'
      BY <2>2, <2>6, <2>8 DEF BackupInv, ReadsWhole, Taken
    <2> QED
      BY <1>0, <2>2, <2>3, <2>9, <2>10, <2>11, RestoreMoves, BackupTypes
         DEF BackupInv, NothingTornIsRestored
  <1>12. ASSUME NEW r \in Restores, MoveUpload(r)
         PROVE  BackupInv'
    <2>1. PICK n : n = restore[r].n
      OBVIOUS
    <2>2. PICK k : k = [pc |-> "queued", n |-> n, db |-> "none", space |-> "none"]
      OBVIOUS
    <2>3. PICK d : d = [there |-> TRUE, dump |-> restore[r].db, space |-> restore[r].space,
                        manifest |-> TRUE]
      OBVIOUS
    <2>4. /\ restore[r].pc = "uploaded" /\ restore' = [restore EXCEPT ![r] = k]
          /\ dir' = IF dir[n].there THEN dir ELSE [dir EXCEPT ![n] = d]
          /\ UNCHANGED <<job, database, files, deleting, losses>>
      BY <1>12, <2>1, <2>2, <2>3 DEF MoveUpload
    <2>5. n \in Names /\ Uploaded(r, n)
      BY <2>1, <2>4 DEF BackupInv, Uploaded
    <2>6. k \in RestoreTasks /\ k.pc = "queued" /\ k.n = n
      BY <2>2, <2>5 DEF RestoreTasks, Contents
    <2>7. d \in Directories /\ d.there
      BY <1>0, <2>3 DEF RestoreTasks, Directories
    <2>8. /\ dir' \in [Names -> Directories]
          /\ \A m \in Names : dir'[m] = IF m = n /\ ~dir[n].there THEN d ELSE dir[m]
          /\ \A q \in Restores : restore'[q] = IF q = r THEN k ELSE restore[q]
      BY <1>0, <2>4, <2>5, <2>7
    <2>9. ~dir[n].there => /\ \A c \in Jobs : ~Writes(c, n)
                           /\ \A q \in Restores : ~Reads(q, n)
      BY <2>5 DEF BackupInv, UploadsApart, ReadsWhole
    <2>10. /\ \A c \in Jobs, m \in Names : Writes(c, m)' <=> Writes(c, m)
           /\ \A q \in Restores, m \in Names :
               /\ Uploaded(q, m)' => Uploaded(q, m)
               /\ Reads(q, m)' => Reads(q, m)
      BY <2>4, <2>6, <2>8 DEF Writes, Uploaded, Reads
    <2>11. DirectoriesApart'
      BY <2>4, <2>7, <2>8, <2>9, <2>10 DEF BackupInv, DirectoriesApart, Taken
    <2>12. UploadsApart'
      BY <2>7, <2>8, <2>10 DEF BackupInv, UploadsApart
    <2>13. ReadsWhole'
      BY <2>4, <2>7, <2>8, <2>9, <2>10 DEF BackupInv, ReadsWhole, Taken
    <2> QED
      BY <1>0, <2>4, <2>5, <2>6, <2>8, <2>11, <2>12, <2>13, RestoreMoves, BackupTypes
         DEF BackupInv, NothingTornIsRestored
  <1>13. ASSUME NEW r \in Restores, Spoil(r)
         PROVE  BackupInv'
    <2>1. PICK n : n = restore[r].n
      OBVIOUS
    <2>2. /\ restore[r].pc = "queued"
          /\ UNCHANGED <<job, restore, database, files, deleting, losses>>
          /\ \A q \in Restores : ~Reads(q, n)
      BY <1>13, <2>1 DEF Spoil, Reads
    <2>3. n \in Names
      BY <2>1, <2>2 DEF BackupInv
    <2>4. PICK d \in Directories :
            /\ dir' = [dir EXCEPT ![n] = d]
            /\ d.there = dir[n].there /\ d.manifest = dir[n].manifest
            /\ dir[n] # NoDir
      <3>1. dir[n] \in Directories
        BY <1>0, <2>3
      <3>2. CASE dir[n].dump = "whole" /\ dir' = [dir EXCEPT ![n].dump = "torn"]
        <4>1. PICK e : e = [dir[n] EXCEPT !.dump = "torn"]
          OBVIOUS
        <4>2. e \in Directories /\ e.there = dir[n].there /\ e.manifest = dir[n].manifest
          BY <3>1, <4>1 DEF Directories, Contents
        <4>3. dir' = [dir EXCEPT ![n] = e]
          BY <1>0, <3>2, <4>1
        <4> QED
          BY <3>2, <4>2, <4>3, NoDirIsEmpty
      <3>3. CASE dir[n].space = "whole" /\ dir' = [dir EXCEPT ![n].space = "torn"]
        <4>1. PICK e : e = [dir[n] EXCEPT !.space = "torn"]
          OBVIOUS
        <4>2. e \in Directories /\ e.there = dir[n].there /\ e.manifest = dir[n].manifest
          BY <3>1, <4>1 DEF Directories, Contents
        <4>3. dir' = [dir EXCEPT ![n] = e]
          BY <1>0, <3>3, <4>1
        <4> QED
          BY <3>3, <4>2, <4>3, NoDirIsEmpty
      <3> QED
        BY <1>13, <2>1, <3>2, <3>3 DEF Spoil
    <2>5. /\ dir' \in [Names -> Directories]
          /\ \A m \in Names : dir'[m] = IF m = n THEN d ELSE dir[m]
      BY <1>0, <2>3, <2>4
    <2>6. /\ \A c \in Jobs, m \in Names : Writes(c, m)' <=> Writes(c, m)
          /\ \A q \in Restores, m \in Names :
               (Uploaded(q, m)' <=> Uploaded(q, m)) /\ (Reads(q, m)' <=> Reads(q, m))
      BY <2>2 DEF Writes, Uploaded, Reads
    <2>7. DirectoriesApart'
      BY <2>2, <2>3, <2>4, <2>5, <2>6 DEF BackupInv, DirectoriesApart, Taken
    <2>8. UploadsApart'
      BY <2>4, <2>5, <2>6 DEF BackupInv, UploadsApart
    <2>9. ReadsWhole'
      BY <2>2, <2>4, <2>5, <2>6 DEF BackupInv, ReadsWhole, Taken
    <2> QED
      BY <1>0, <2>2, <2>5, <2>7, <2>8, <2>9, RestsKeep
  <1>14. ASSUME NEW r \in Restores, CheckBackup(r)
         PROVE  BackupInv'
    <2>1. PICK n : n = restore[r].n
      OBVIOUS
    <2>2. PICK k : k = [restore[r] EXCEPT !.pc = IF Sound(n) THEN "loading" ELSE "failed"]
      OBVIOUS
    <2>3. /\ restore[r].pc = "queued" /\ restore' = [restore EXCEPT ![r] = k]
          /\ UNCHANGED <<dir, job, database, files, deleting, losses>>
      BY <1>0, <1>14, <2>1, <2>2 DEF CheckBackup, Restoring
    <2>4. n \in Names
      BY <2>1, <2>3 DEF BackupInv
    <2>5. /\ k \in RestoreTasks /\ k.n = n /\ k.pc = IF Sound(n) THEN "loading" ELSE "failed"
      BY <1>0, <2>1, <2>2 DEF RestoreTasks
    <2>6. Sound(n) => /\ dir[n].dump # "torn" /\ dir[n].space # "torn"
                      /\ dir[n].there /\ \A c \in Jobs : ~Writes(c, n)
      BY <2>4 DEF Sound, BackupInv, DirectoriesApart, NoDir
    <2>7. \A q \in Restores : restore'[q] = IF q = r THEN k ELSE restore[q]
      BY <1>0, <2>3
    <2>8. /\ \A c \in Jobs, m \in Names : Writes(c, m)' <=> Writes(c, m)
          /\ \A q \in Restores, m \in Names :
               /\ Uploaded(q, m)' => Uploaded(q, m)
               /\ Reads(q, m)' => Reads(q, m) \/ (m = n /\ Sound(n))
      BY <2>3, <2>5, <2>7 DEF Writes, Uploaded, Reads
    <2>9. DirectoriesApart'
      BY <2>3, <2>8 DEF BackupInv, DirectoriesApart, Taken
    <2>10. UploadsApart'
      BY <2>3, <2>8 DEF BackupInv, UploadsApart
    <2>11. ReadsWhole'
      BY <2>3, <2>6, <2>8 DEF BackupInv, ReadsWhole, Taken
    <2> QED
      BY <1>0, <2>3, <2>4, <2>5, <2>9, <2>10, <2>11, RestoreMoves, BackupTypes
         DEF BackupInv, NothingTornIsRestored
  <1>15. ASSUME NEW r \in Restores, LoseRestore(r)
         PROVE  BackupInv'
    <2>1. PICK k : k = [pc |-> "queued", n |-> restore[r].n, db |-> "none", space |-> "none"]
      OBVIOUS
    <2>2. /\ restore[r].pc \in {"loading", "extracting"} /\ restore' = [restore EXCEPT ![r] = k]
          /\ UNCHANGED <<dir, job, database, files, deleting>>
          /\ losses < MaxLosses /\ losses' = losses + 1
      BY <1>15, <2>1 DEF LoseRestore
    <2>3. losses' \in 0..MaxLosses
      BY <1>0, <2>2, BackupsAssumption
    <2>4. k \in RestoreTasks /\ k.n = restore[r].n /\ k.pc = "queued"
      BY <1>0, <2>1 DEF RestoreTasks, Contents
    <2> QED
      BY <2>2, <2>3, <2>4, RestoreRests, BackupTypes DEF BackupInv, NothingTornIsRestored
  <1>16. ASSUME NEW r \in Restores, NEW ok \in BOOLEAN, LoadDump(r, ok)
         PROVE  BackupInv'
    <2>1. PICK n : n = restore[r].n
      OBVIOUS
    <2>2. PICK k : k = [restore[r] EXCEPT !.pc = IF ok /\ dir[n].dump # "none" THEN "extracting"
                                                                               ELSE "failed"]
      OBVIOUS
    <2>3. /\ restore[r].pc = "loading" /\ restore' = [restore EXCEPT ![r] = k]
          /\ UNCHANGED <<dir, job, files, deleting, losses>>
          /\ database' = Loaded(dir[n].dump, ok)
      BY <1>0, <1>16, <2>1, <2>2 DEF LoadDump, Restoring
    <2>4. n \in Names /\ Reads(r, n)
      BY <2>1, <2>3 DEF BackupInv, Reads
    <2>5. k \in RestoreTasks /\ k.n = n /\ k.pc \in {"extracting", "failed"}
      BY <1>0, <2>1, <2>2 DEF RestoreTasks
    <2>6. dir[n].dump \in {"none", "whole"}
      BY <1>0, <2>4 DEF BackupInv, ReadsWhole, Directories, Contents
    <2>7. database' \in {"own", "whole"}
      BY <2>3, <2>6, BackupTypes DEF Loaded, BackupInv, NothingTornIsRestored
    <2> QED
      BY <1>0, <2>1, <2>3, <2>5, <2>7, RestoreRests, BackupTypes
         DEF BackupInv, NothingTornIsRestored
  <1>17. ASSUME NEW r \in Restores, NEW ok \in BOOLEAN, ExtractWorkspace(r, ok)
         PROVE  BackupInv'
    <2>1. PICK n : n = restore[r].n
      OBVIOUS
    <2>2. PICK pc \in {"done", "failed"} :
            /\ restore' = [restore EXCEPT ![r].pc = pc]
            /\ files' \in {files, "wiped", dir[n].space}
            /\ dir[n].space = "none" => files' = files
      BY <1>17, <2>1 DEF ExtractWorkspace, Restoring, Unpacked
    <2>3. PICK k : k = [restore[r] EXCEPT !.pc = pc]
      OBVIOUS
    <2>4. /\ restore[r].pc = "extracting" /\ restore' = [restore EXCEPT ![r] = k]
          /\ UNCHANGED <<dir, job, database, deleting, losses>>
      BY <1>0, <1>17, <2>2, <2>3 DEF ExtractWorkspace
    <2>5. n \in Names /\ Reads(r, n)
      BY <2>1, <2>4 DEF BackupInv, Reads
    <2>6. k \in RestoreTasks /\ k.n = n /\ k.pc \in {"done", "failed"}
      BY <1>0, <2>1, <2>3 DEF RestoreTasks
    <2>7. dir[n].space \in {"none", "whole"}
      BY <1>0, <2>5 DEF BackupInv, ReadsWhole, Directories, Contents
    <2>8. files' \in {"own", "wiped", "whole"}
      BY <2>2, <2>7, BackupTypes DEF BackupInv, NothingTornIsRestored
    <2> QED
      BY <1>0, <2>1, <2>4, <2>6, <2>8, RestoreRests, BackupTypes
         DEF BackupInv, NothingTornIsRestored
  <1>18. ASSUME UNCHANGED backupVars
         PROVE  BackupInv'
    BY <1>18 DEF backupVars, BackupInv, BackupTypeOK, DirectoriesApart, UploadsApart, ReadsWhole,
         Writes, Uploaded, Reads, Taken, NothingTornIsRestored
  <1> QED
    BY <1>1, <1>2, <1>3, <1>4, <1>5, <1>6, <1>7, <1>8, <1>9, <1>10, <1>11, <1>12, <1>13, <1>14,
       <1>15, <1>16, <1>17, <1>18 DEF BackupNext

\* Every variable of the backups stays in its domain.
THEOREM BackupTypeCorrect == BackupSpec => []BackupTypeOK
  <1>1. BackupInv => BackupTypeOK
    BY DEF BackupInv
  <1> QED
    BY <1>1, BackupInvInit, BackupInvStep, PTL DEF BackupSpec

\* Whatever was lost, torn, deleted or pruned while it was written, uploaded or
\* restored, nothing torn reaches the database or the workspace.
THEOREM WholeIsRestored == BackupSpec => []NothingTornIsRestored
  <1>1. BackupInv => NothingTornIsRestored
    BY DEF BackupInv
  <1> QED
    BY <1>1, BackupInvInit, BackupInvStep, PTL DEF BackupSpec

-------------------------------------------------------------------------------
\* The audit log.

\* A request that is under way has a time of its own, which no audit row has yet.
RequestsApart ==
  \A c \in Requests : preq[c] # Idle =>
    /\ preq[c].at <= ticks /\ trail[preq[c].at] = NoEntry
    /\ \A d \in Requests : preq[d] # Idle /\ preq[d].at = preq[c].at => d = c

\* What a request writes: all of a row that is there afterwards, or some columns of
\* one that was there when the request began.
WritesRows ==
  \A c \in Requests : preq[c] # Idle =>
    /\ preq[c].pc = "create" => DOMAIN preq[c].sets = Columns
    /\ preq[c].pc = "update" => There(preq[c].of)
    /\ "archived_at" \in DOMAIN preq[c].sets => preq[c].sets.archived_at # "none"

\* A row that is there has the column that no statement unsets.
RowsAreThere == \A s \in Slugs : There(s) => project[s].archived_at # "none"

\* The audit rows: as many as commits, and none later than now.
Logged == {t \in Times : trail[t] # NoEntry}

LogCounted ==
  /\ commits = Cardinality(Logged) /\ Logged \subseteq 1..ticks
  /\ \A t \in Logged : trail[t].nr <= commits

AuditInv ==
  /\ AuditTypeOK /\ RequestsApart /\ WritesRows /\ RowsAreThere /\ LogCounted
  /\ AuditReplays

LEMMA EntriesAreRows ==
  /\ NoEntry \notin Entries /\ Idle \notin ProjectRequests
  /\ \A d \in Diffs : DOMAIN d \in SUBSET Columns /\ \A f \in DOMAIN d : d[f] \in Values
  BY DEF NoEntry, Entries, Idle, ProjectRequests, Diffs, Actions

LEMMA TimesAreFinite ==
  /\ \A S \in SUBSET Times : IsFiniteSet(S) /\ Cardinality(S) \in 0..MaxWrites
  /\ \A n \in 0..MaxWrites : \A S \in SUBSET (1..n) : IsFiniteSet(S) /\ Cardinality(S) <= n
  <1>1. \A n \in 0..MaxWrites : IsFiniteSet(1..n) /\ Cardinality(1..n) = n
    BY AuditAssumption, FS_Interval
  <1>2. ASSUME NEW n \in 0..MaxWrites, NEW S \in SUBSET (1..n)
        PROVE  IsFiniteSet(S) /\ Cardinality(S) <= n
    <2>1. IsFiniteSet(1..n) /\ Cardinality(1..n) = n
      BY <1>1
    <2>2. IsFiniteSet(S) /\ Cardinality(S) <= Cardinality(1..n)
      BY <2>1, FS_Subset
    <2> QED
      BY <2>1, <2>2
  <1>3. ASSUME NEW S \in SUBSET Times
        PROVE  IsFiniteSet(S) /\ Cardinality(S) \in 0..MaxWrites
    <2>1. MaxWrites \in 0..MaxWrites
      BY AuditAssumption
    <2>2. IsFiniteSet(S) /\ Cardinality(S) <= MaxWrites
      BY <1>2, <2>1 DEF Times
    <2>3. Cardinality(S) \in Nat
      BY <2>2, FS_CardinalityType
    <2> QED
      BY <2>2, <2>3, AuditAssumption
  <1> QED
    BY <1>2, <1>3

LEMMA AuditInvInit == AuditInit => AuditInv
  <1> SUFFICES ASSUME AuditInit PROVE AuditInv
    OBVIOUS
  <1>1. /\ \A s \in Slugs : project[s] = NoProject
        /\ \A t \in Times : trail[t] = NoEntry
        /\ \A c \in Requests : preq[c] = Idle
    BY DEF AuditInit
  <1>2. NoProject \in [Columns -> Values]
    BY DEF NoProject, Values
  <1>3. AuditTypeOK
    BY <1>2, AuditAssumption DEF AuditInit, AuditTypeOK
  <1>4. Logged = {}
    BY <1>1 DEF Logged
  <1>5. LogCounted
    BY <1>4, FS_EmptySet DEF AuditInit, LogCounted
  <1> QED
    BY <1>1, <1>3, <1>5 DEF AuditInv, RequestsApart, WritesRows, RowsAreThere, There, AuditReplays

\* A transaction begins.
LEMMA BeginsKeeps ==
  ASSUME AuditInv, NEW c \in Requests, NEW r, Begins(c, r),
         r.pc \in {"create", "update"}, r.of \in Slugs, r.sets \in Diffs,
         r.pc = "create" => DOMAIN r.sets = Columns,
         r.pc = "update" => There(r.of),
         "archived_at" \in DOMAIN r.sets => r.sets.archived_at # "none"
  PROVE  AuditInv'
  <1>1. /\ ticks \in 0..MaxWrites /\ ticks < MaxWrites /\ ticks' = ticks + 1
        /\ UNCHANGED <<project, trail, commits, export>>
        /\ project \in [Slugs -> [Columns -> Values]]
        /\ preq \in [Requests -> ProjectRequests \union {Idle}]
        /\ commits \in 0..ticks
    BY DEF AuditInv, AuditTypeOK, Begins
  <1>2. PICK k : k = [pc |-> r.pc, at |-> ticks + 1, of |-> r.of, read |-> project[r.of],
                      sets |-> r.sets]
    OBVIOUS
  <1>3. ticks' \in 0..MaxWrites /\ ticks' \in Times /\ commits' \in 0..ticks'
    BY <1>1, AuditAssumption DEF Times
  <1>4. /\ k \in ProjectRequests /\ k.pc = r.pc /\ k.at = ticks' /\ k.of = r.of /\ k.sets = r.sets
    BY <1>1, <1>2, <1>3 DEF ProjectRequests
  <1>5. preq' = [preq EXCEPT ![c] = k]
    BY <1>2 DEF Begins
  <1>6. \A d \in Requests : preq'[d] = IF d = c THEN k ELSE preq[d]
    BY <1>1, <1>5
  <1>7. AuditTypeOK'
    BY <1>1, <1>3, <1>4, <1>5 DEF AuditInv, AuditTypeOK
  <1>8. /\ \A t \in Logged : t <= ticks
        /\ \A d \in Requests : preq[d] # Idle => preq[d].at \in Times /\ preq[d].at <= ticks
    <2>1. \A d \in Requests : preq[d] # Idle => preq[d] \in ProjectRequests
      BY <1>1
    <2> QED
      <3>1. \A d \in Requests : preq[d] # Idle => preq[d].at \in Times /\ preq[d].at <= ticks
        BY <2>1 DEF AuditInv, RequestsApart, ProjectRequests
      <3>2. \A t \in Logged : t <= ticks
        BY <1>1 DEF AuditInv, LogCounted
      <3> QED
        BY <3>1, <3>2
  <1>9. trail[ticks'] = NoEntry
    BY <1>1, <1>3, <1>8 DEF Logged
  <1>10. RequestsApart'
    <2> SUFFICES ASSUME NEW d \in Requests, preq'[d] # Idle
                 PROVE  /\ preq'[d].at <= ticks' /\ trail'[preq'[d].at] = NoEntry
                        /\ \A e \in Requests : preq'[e] # Idle /\ preq'[e].at = preq'[d].at => e = d
      BY DEF RequestsApart
    <2>1. \A e \in Requests : preq'[e] # Idle /\ e # c =>
            preq'[e].at # ticks' /\ preq'[e].at \in Times
                                                  /\ preq'[e].at <= ticks
      BY <1>1, <1>6, <1>8 DEF Times
    <2> QED
      BY <1>1, <1>4, <1>6, <1>9, <2>1 DEF AuditInv, RequestsApart, Times
  <1>11. WritesRows'
    BY <1>1, <1>4, <1>6 DEF AuditInv, WritesRows, There
  <1>12. RowsAreThere'
    BY <1>1 DEF AuditInv, RowsAreThere, There
  <1>13. LogCounted'
    <2>1. Logged' = Logged
      BY <1>1 DEF Logged
    <2> QED
      BY <1>1, <1>8, <2>1 DEF AuditInv, LogCounted
  <1>14. AuditReplays'
    BY <1>1 DEF AuditInv, AuditReplays, There, Naming
  <1> QED
    BY <1>7, <1>10, <1>11, <1>12, <1>13, <1>14 DEF AuditInv

\* A request ends.
LEMMA EndsKeeps ==
  ASSUME AuditInv, NEW c \in Requests, Ends(c), UNCHANGED <<project, trail, ticks, commits, export>>
  PROVE  AuditInv'
  <1>1. preq \in [Requests -> ProjectRequests \union {Idle}]
    BY DEF AuditInv, AuditTypeOK
  <1>2. \A d \in Requests : preq'[d] = IF d = c THEN Idle ELSE preq[d]
    BY <1>1 DEF Ends
  <1>3. AuditTypeOK'
    BY <1>1 DEF AuditInv, AuditTypeOK, Ends
  <1>4. RequestsApart'
    BY <1>2 DEF AuditInv, RequestsApart
  <1>5. WritesRows'
    BY <1>2 DEF AuditInv, WritesRows, There
  <1>6. RowsAreThere' /\ LogCounted' /\ AuditReplays'
    BY DEF AuditInv, RowsAreThere, LogCounted, Logged, AuditReplays, There, Naming
  <1> QED
    BY <1>3, <1>4, <1>5, <1>6 DEF AuditInv

\* A commit: the columns are written, and the audit row says which.
LEMMA CommitKeeps ==
  ASSUME AuditInv, NEW c \in Requests, preq[c] # Idle,
         NEW columns \in SUBSET DOMAIN preq[c].sets, NEW action \in Actions,
         Audits(preq[c], action, columns), Ends(c), UNCHANGED <<ticks, export>>,
         \/ columns = Columns
         \/ There(preq[c].of),
         project' = [project EXCEPT ![preq[c].of] =
                       [f \in Columns |-> IF f \in columns THEN preq[c].sets[f] ELSE @[f]]]
  PROVE  AuditInv'
  <1>1. /\ project \in [Slugs -> [Columns -> Values]]
        /\ trail \in [Times -> Entries \union {NoEntry}]
        /\ ticks \in 0..MaxWrites /\ commits \in 0..ticks
        /\ preq \in [Requests -> ProjectRequests \union {Idle}]
        /\ export \in Exports \union {NoExport}
    BY DEF AuditInv, AuditTypeOK
  <1>2. PICK r : r = preq[c]
    OBVIOUS
  <1>3. /\ r \in ProjectRequests /\ r.at \in Times /\ r.of \in Slugs /\ r.sets \in Diffs
    BY <1>1, <1>2 DEF ProjectRequests
  <1>4. /\ DOMAIN r.sets \in SUBSET Columns /\ columns \in SUBSET Columns
        /\ \A f \in columns : r.sets[f] \in Values
    BY <1>2, <1>3, EntriesAreRows
  <1>5. r.at <= ticks /\ trail[r.at] = NoEntry
    BY <1>2 DEF AuditInv, RequestsApart
  <1>6. PICK d : d = [f \in columns |-> r.sets[f]]
    OBVIOUS
  <1>7. d \in Diffs /\ DOMAIN d = columns /\ \A f \in columns : d[f] = r.sets[f]
    BY <1>4, <1>6 DEF Diffs
  <1>8. PICK e : e = [action |-> action, of |-> r.of, nr |-> commits + 1, diff |-> d]
    OBVIOUS
  <1>9. /\ trail' = [trail EXCEPT ![r.at] = e] /\ commits' = commits + 1
    BY <1>2, <1>6, <1>8 DEF Audits
  <1>10. /\ \A t \in Times : trail'[t] = IF t = r.at THEN e ELSE trail[t]
         /\ \A q \in Requests : preq'[q] = IF q = c THEN Idle ELSE preq[q]
    BY <1>1, <1>3, <1>9 DEF Ends
  <1>11. Logged' = Logged \union {r.at} /\ r.at \notin Logged
    <2>1. e # NoEntry
      BY <1>8 DEF NoEntry
    <2> QED
      BY <1>3, <1>5, <1>10, <2>1 DEF Logged
  <1>12. commits' = Cardinality(Logged') /\ Logged' \subseteq 1..ticks
    <2>1. IsFiniteSet(Logged)
      BY TimesAreFinite DEF Logged
    <2>2. Cardinality(Logged \union {r.at}) = Cardinality(Logged) + 1
      BY <1>11, <2>1, FS_AddElement
    <2>3. r.at \in 1..ticks
      BY <1>1, <1>3, <1>5, AuditAssumption DEF Times
    <2> QED
      BY <1>9, <1>11, <2>2, <2>3 DEF AuditInv, LogCounted
  <1>13. commits' \in 0..ticks' /\ commits' \in Times
    <2>1. Cardinality(Logged') <= ticks
      BY <1>1, <1>12, TimesAreFinite
    <2> QED
      BY <1>1, <1>9, <1>12, <2>1, AuditAssumption DEF Times
  <1>14. e \in Entries /\ e.nr = commits + 1 /\ e.of = r.of /\ e.diff = d
    BY <1>3, <1>7, <1>8, <1>9, <1>13 DEF Entries
  <1>15. PICK p : p = [f \in Columns |-> IF f \in columns THEN r.sets[f] ELSE project[r.of][f]]
    OBVIOUS
  <1>16. /\ p \in [Columns -> Values]
         /\ \A f \in Columns : p[f] = IF f \in columns THEN r.sets[f] ELSE project[r.of][f]
    BY <1>1, <1>3, <1>4, <1>15
  <1>17. /\ project' = [project EXCEPT ![r.of] = p]
         /\ \A s \in Slugs : project'[s] = IF s = r.of THEN p ELSE project[s]
    BY <1>1, <1>2, <1>3, <1>15
  <1>18. AuditTypeOK'
    BY <1>1, <1>9, <1>13, <1>14, <1>16, <1>17 DEF AuditTypeOK, Ends
  <1>19. RequestsApart'
    <2>1. \A q \in Requests : preq'[q] # Idle => /\ q # c /\ preq'[q] = preq[q]
                                                 /\ preq[q].at \in Times
      BY <1>1, <1>10 DEF ProjectRequests
    <2>2. \A q \in Requests : preq'[q] # Idle => preq[q].at # r.at
      BY <1>2, <2>1 DEF AuditInv, RequestsApart
    <2> QED
      BY <1>10, <2>1, <2>2 DEF AuditInv, RequestsApart
  <1>20. "archived_at" \in Columns
    BY DEF Columns
  <1>21. p.archived_at # "none"
    <2>1. CASE "archived_at" \in columns
      BY <1>2, <1>16, <1>20, <2>1 DEF AuditInv, WritesRows
    <2>2. CASE "archived_at" \notin columns
      <3>1. project[r.of].archived_at # "none"
        BY <1>2, <1>3, <1>20, <2>2 DEF AuditInv, RowsAreThere
      <3> QED
        BY <1>16, <1>20, <2>2, <3>1
    <2> QED
      BY <2>1, <2>2
  <1>22. p # NoProject
    BY <1>20, <1>21 DEF NoProject
  <1>23. \A s \in Slugs : There(s) => There(s)'
    BY <1>17, <1>22 DEF There
  <1>24. WritesRows'
    <2> SUFFICES ASSUME NEW q \in Requests, preq'[q] # Idle
                 PROVE  /\ preq'[q].pc = "create" => DOMAIN preq'[q].sets = Columns
                        /\ preq'[q].pc = "update" => There(preq[q].of)'
                        /\ "archived_at" \in DOMAIN preq'[q].sets
                             => preq'[q].sets.archived_at # "none"
      BY DEF WritesRows
    <2>1. preq'[q] = preq[q] /\ preq[q].of \in Slugs
      BY <1>1, <1>10 DEF ProjectRequests
    <2> QED
      BY <1>23, <2>1 DEF AuditInv, WritesRows, There
  <1>25. RowsAreThere'
    BY <1>17, <1>21 DEF AuditInv, RowsAreThere, There
  <1>26. LogCounted'
    <2>1. ASSUME NEW t \in Logged' PROVE trail'[t].nr <= commits'
      <3>1. t \in Times /\ (t # r.at => t \in Logged /\ trail[t] \in Entries)
        BY <1>1, <1>11 DEF Logged
      <3>2. CASE t = r.at
        BY <1>1, <1>9, <1>10, <1>14, <3>1, <3>2
      <3>3. CASE t # r.at
        <4>1. trail[t].nr <= commits /\ trail[t].nr \in Int
          BY <3>1, <3>3 DEF AuditInv, LogCounted, Entries, Times
        <4> QED
          BY <1>1, <1>9, <1>10, <3>1, <3>3, <4>1
      <3> QED
        BY <3>2, <3>3
    <2> QED
      BY <1>12, <2>1 DEF LogCounted
  <1>27. AuditReplays'
    <2> SUFFICES ASSUME NEW s \in Slugs, There(s)', NEW f \in Columns
                 PROVE  \E t \in Naming(s, f)' :
                          /\ trail'[t].diff[f] = project'[s][f]
                          /\ \A u \in Naming(s, f)' : trail'[u].nr <= trail'[t].nr
      BY DEF AuditReplays
    <2>1. \A t \in Naming(s, f)' : t = r.at \/ t \in Naming(s, f)
      BY <1>10 DEF Naming
    <2>2. \A t \in Naming(s, f) : t \in Naming(s, f)' /\ trail'[t] = trail[t] /\ t # r.at
      BY <1>5, <1>10 DEF Naming
    <2>3. CASE s = r.of /\ f \in columns
      <3>1. r.at \in Naming(s, f)'
        BY <1>3, <1>7, <1>10, <1>14, <2>3, EntriesAreRows DEF Naming
      <3>2. trail'[r.at].diff[f] = project'[s][f]
        BY <1>3, <1>7, <1>10, <1>14, <1>16, <1>17, <2>3
      <3>3. \A u \in Naming(s, f)' : trail'[u].nr <= trail'[r.at].nr
        <4>1. \A u \in Naming(s, f)' : u \in Logged'
          BY DEF Naming, Logged
        <4>2. trail'[r.at].nr = commits'
          BY <1>3, <1>9, <1>10, <1>14
        <4> QED
          BY <1>26, <4>1, <4>2 DEF LogCounted
      <3> QED
        BY <3>1, <3>2, <3>3
    <2>4. CASE ~(s = r.of /\ f \in columns)
      <3>1. There(s) /\ project'[s][f] = project[s][f]
        <4>1. CASE s = r.of
          <5>1. f \notin columns /\ columns # Columns
            BY <2>4, <4>1
          <5> QED
            BY <1>2, <1>16, <1>17, <4>1, <5>1
        <4>2. CASE s # r.of
          BY <1>17, <4>2 DEF There
        <4> QED
          BY <4>1, <4>2
      <3>2. r.at \notin Naming(s, f)'
        BY <1>3, <1>7, <1>10, <1>14, <2>4 DEF Naming
      <3>3. Naming(s, f)' = Naming(s, f)
        BY <2>1, <2>2, <3>2
      <3>4. PICK t \in Naming(s, f) :
              /\ trail[t].diff[f] = project[s][f]
              /\ \A u \in Naming(s, f) : trail[u].nr <= trail[t].nr
        BY <3>1 DEF AuditInv, AuditReplays
      <3> QED
        BY <2>2, <3>1, <3>3, <3>4
    <2> QED
      BY <2>3, <2>4
  <1> QED
    BY <1>18, <1>19, <1>24, <1>25, <1>26, <1>27 DEF AuditInv

LEMMA AuditInvStep ==
  ASSUME AuditInv, [AuditNext]_auditVars
  PROVE  AuditInv'
  <1>0. /\ project \in [Slugs -> [Columns -> Values]]
        /\ preq \in [Requests -> ProjectRequests \union {Idle}]
        /\ export \in Exports \union {NoExport}
    BY DEF AuditInv, AuditTypeOK
  <1>1. ASSUME NEW c \in Requests, NEW s \in Slugs, NEW name \in Texts, BeginCreate(c, s, name)
        PROVE  AuditInv'
    <2>1. PICK sets : sets = [f \in Columns |-> IF f = "name" THEN name ELSE "null"]
      OBVIOUS
    <2>2. /\ sets \in [Columns -> Values] /\ DOMAIN sets = Columns
          /\ sets.archived_at = "null"
      BY <2>1 DEF Values, Columns
    <2>3. sets \in Diffs
      BY <2>2 DEF Diffs
    <2>4. PICK r : r = [pc |-> "create", of |-> s, sets |-> sets]
      OBVIOUS
    <2>5. Begins(c, r)
      BY <1>1, <2>1, <2>4 DEF BeginCreate
    <2> QED
      BY <2>2, <2>3, <2>4, <2>5, BeginsKeeps
  <1>2. ASSUME NEW c \in Requests, NEW s \in Slugs, NEW f \in SUBSET Patched,
               NEW sets \in [f -> Texts], BeginUpdate(c, s, sets)
        PROVE  AuditInv'
    <2>1. f \in SUBSET Columns /\ "archived_at" \notin f
      BY DEF Patched, Columns
    <2>2. sets \in [f -> Values] /\ DOMAIN sets = f
      BY DEF Values
    <2>3. sets \in Diffs
      BY <2>1, <2>2 DEF Diffs
    <2>4. PICK r : r = [pc |-> "update", of |-> s, sets |-> sets]
      OBVIOUS
    <2>5. Begins(c, r) /\ There(s)
      BY <1>2, <2>4 DEF BeginUpdate
    <2> QED
      BY <2>1, <2>2, <2>3, <2>4, <2>5, BeginsKeeps
  <1>3. ASSUME NEW c \in Requests, NEW s \in Slugs, BeginArchive(c, s)
        PROVE  AuditInv'
    <2>1. PICK sets : sets = [f \in {"archived_at"} |-> "now"]
      OBVIOUS
    <2>2. {"archived_at"} \in SUBSET Columns /\ sets \in [{"archived_at"} -> Values]
          /\ sets.archived_at = "now"
      BY <2>1 DEF Values, Columns
    <2>3. sets \in Diffs
      BY <2>2 DEF Diffs
    <2>4. PICK r : r = [pc |-> "update", of |-> s, sets |-> sets]
      OBVIOUS
    <2>5. Begins(c, r) /\ There(s)
      BY <1>3, <2>1, <2>4 DEF BeginArchive
    <2> QED
      BY <2>2, <2>3, <2>4, <2>5, BeginsKeeps
  <1>4. ASSUME NEW c \in Requests, CommitCreate(c)
        PROVE  AuditInv'
    <2>1. CASE There(preq[c].of)
      BY <1>4, <2>1, EndsKeeps DEF CommitCreate
    <2>2. CASE ~There(preq[c].of)
      <3>1. PICK r : r = preq[c]
        OBVIOUS
      <3>2. /\ r.pc = "create" /\ project' = [project EXCEPT ![r.of] = r.sets]
            /\ Audits(r, "create", Columns) /\ Ends(c) /\ UNCHANGED <<ticks, export>>
        BY <1>4, <2>2, <3>1 DEF CommitCreate
      <3>3. r # Idle
        BY <3>2 DEF Idle
      <3>4. r \in ProjectRequests /\ DOMAIN r.sets = Columns
        BY <1>0, <3>1, <3>2, <3>3 DEF AuditInv, WritesRows
      <3>5. r.of \in Slugs /\ r.sets \in Diffs
        BY <3>4 DEF ProjectRequests
      <3>6. r.sets \in [Columns -> Values]
        BY <3>4, <3>5 DEF Diffs
      <3>7. r.sets = [f \in Columns |-> IF f \in Columns THEN r.sets[f] ELSE project[r.of][f]]
        BY <3>6
      <3>8. project' = [project EXCEPT ![r.of] =
                          [f \in Columns |-> IF f \in Columns THEN r.sets[f] ELSE @[f]]]
        BY <1>0, <3>2, <3>5, <3>7
      <3> QED
        BY <3>1, <3>2, <3>3, <3>4, <3>8, CommitKeeps DEF Actions
    <2> QED
      BY <2>1, <2>2
  <1>5. ASSUME NEW c \in Requests, CommitUpdate(c)
        PROVE  AuditInv'
    <2>1. PICK r : r = preq[c]
      OBVIOUS
    <2>2. PICK columns : columns = Changed(r)
      OBVIOUS
    <2>3. /\ r.pc = "update" /\ Audits(r, "update", columns) /\ Ends(c)
          /\ UNCHANGED <<ticks, export>>
          /\ project' = [project EXCEPT ![r.of] =
                           [f \in Columns |-> IF f \in columns THEN r.sets[f] ELSE @[f]]]
      BY <1>5, <2>1, <2>2 DEF CommitUpdate
    <2>4. r # Idle
      BY <2>3 DEF Idle
    <2>5. There(r.of)
      BY <2>1, <2>3, <2>4 DEF AuditInv, WritesRows
    <2>6. columns \in SUBSET DOMAIN r.sets
      BY <2>2 DEF Changed
    <2> QED
      BY <2>1, <2>3, <2>4, <2>5, <2>6, CommitKeeps DEF Actions
  <1>6. ASSUME NEW c \in Requests, EndProjectReq(c)
        PROVE  AuditInv'
    BY <1>6, EndsKeeps DEF EndProjectReq
  <1>7. ASSUME UNCHANGED <<project, trail, ticks, commits, preq>>,
               export' \in Exports \union {NoExport}
        PROVE  AuditInv'
    BY <1>7 DEF AuditInv, AuditTypeOK, RequestsApart, WritesRows, RowsAreThere, LogCounted, Logged,
         AuditReplays, There, Naming
  <1>8. ASSUME NEW filter \in {Actions, {"update"}}, BeginExport(filter)
        PROVE  AuditInv'
    <2>1. filter \in SUBSET Actions
      BY DEF Actions
    <2>2. Matches(filter) \in SUBSET Times /\ Cardinality(Matches(filter)) \in 0..MaxWrites
      BY TimesAreFinite DEF Matches
    <2> QED
      BY <1>7, <1>8, <2>1, <2>2 DEF BeginExport, Exports
  <1>9. ASSUME ReadChunk
        PROVE  AuditInv'
    <2>1. PICK chunk : chunk = Page(Matches(export.filter), export.offset)
      OBVIOUS
    <2>2. /\ export.pc = "read" /\ UNCHANGED <<project, trail, ticks, commits, preq>>
          /\ \/ export' = [export EXCEPT !.pc = "done"]
             \/ export' = [export EXCEPT !.got = @ \union chunk, !.offset = @ + Cardinality(chunk)]
      BY <1>9, <2>1 DEF ReadChunk
    <2>3. export \in Exports
      BY <1>0, <2>2 DEF NoExport
    <2>4. chunk \in SUBSET Times /\ Cardinality(chunk) \in Nat
      <3>1. chunk \in SUBSET Times
        BY <2>1 DEF Page, Matches
      <3>2. Cardinality(chunk) \in 0..MaxWrites
        BY <3>1, TimesAreFinite
      <3> QED
        BY <3>1, <3>2
    <2>5. export' \in Exports
      <3>1. [export EXCEPT !.pc = "done"] \in Exports
        BY <2>3 DEF Exports
      <3>2. PICK n \in Nat : n = Cardinality(chunk)
        BY <2>4
      <3>3. PICK got : got = export.got \union chunk
        OBVIOUS
      <3>4. export.offset \in Nat /\ got \in SUBSET Times
        BY <2>3, <2>4, <3>3 DEF Exports
      <3>5. export.offset + n \in Nat
        BY <3>4
      <3>6. [export EXCEPT !.got = got, !.offset = export.offset + n] \in Exports
        BY <2>3, <3>4, <3>5 DEF Exports
      <3>7. [export EXCEPT !.got = @ \union chunk, !.offset = @ + Cardinality(chunk)] \in Exports
        BY <3>2, <3>3, <3>6
      <3> QED
        BY <2>2, <3>1, <3>7
    <2>6. UNCHANGED <<project, trail, ticks, commits, preq>>
      BY <2>2
    <2> QED
      BY <1>7, <2>5, <2>6
  <1>10. ASSUME EndExport
         PROVE  AuditInv'
    BY <1>7, <1>10 DEF EndExport
  <1>11. ASSUME UNCHANGED auditVars
         PROVE  AuditInv'
    BY <1>0, <1>7, <1>11 DEF auditVars
  <1> QED
    BY <1>1, <1>2, <1>3, <1>4, <1>5, <1>6, <1>8, <1>9, <1>10, <1>11
       DEF AuditNext, Creating, Changing

\* The rows of projects, the audit rows, the requests and the export stay in their
\* domains.
THEOREM AuditTypeCorrect == AuditSpec => []AuditTypeOK
  <1>1. AuditInv => AuditTypeOK
    BY DEF AuditInv
  <1> QED
    BY <1>1, AuditInvInit, AuditInvStep, PTL DEF AuditSpec

\* The audit rows of a project, in the order of their commits, give its row: however
\* many requests overlap, none overwrites a column without saying so.
THEOREM TrailGivesTheRow == AuditSpec => []AuditReplays
  <1>1. AuditInv => AuditReplays
    BY DEF AuditInv
  <1> QED
    BY <1>1, AuditInvInit, AuditInvStep, PTL DEF AuditSpec

\* The place of a row in the order of an export: how many rows are later than it.
Place(rows, t) == Cardinality({u \in rows : u > t})

\* An export has the rows there were whose places are before the offset, and of those
\* rows all that are later than one it has.
WellRead(e, rows) ==
  /\ e.had \subseteq rows /\ e.total = Cardinality(e.had)
  /\ \A t \in e.had : Place(rows, t) < e.offset => t \in e.got
  /\ \A t \in e.had, u \in e.got : t > u => t \in e.got
  /\ e.pc = "done" => Cardinality(e.had \ e.got) <= Cardinality(rows \ e.had)

LEMMA TimesAreNumbers == Times \subseteq Nat
  BY AuditAssumption DEF Times

\* Places are numbers, which grow with the rows and with the age of a row.
LEMMA Places ==
  ASSUME NEW R \in SUBSET Times
  PROVE  /\ \A t \in Times : Place(R, t) \in Nat
         /\ \A S \in SUBSET Times : R \subseteq S => \A t \in Times : Place(R, t) <= Place(S, t)
         /\ \A t \in Times, u \in R : t < u => Place(R, u) < Place(R, t)
  <1>1. \A t \in Times : /\ {u \in R : u > t} \in SUBSET Times
                         /\ IsFiniteSet({u \in R : u > t}) /\ Place(R, t) \in Nat
    <2> SUFFICES ASSUME NEW t \in Times
                 PROVE  /\ {u \in R : u > t} \in SUBSET Times
                        /\ IsFiniteSet({u \in R : u > t}) /\ Place(R, t) \in Nat
      OBVIOUS
    <2>1. {u \in R : u > t} \in SUBSET Times
      OBVIOUS
    <2>2. IsFiniteSet({u \in R : u > t})
      BY <2>1, TimesAreFinite
    <2> QED
      BY <2>1, <2>2, FS_CardinalityType DEF Place
  <1>2. ASSUME NEW S \in SUBSET Times, R \subseteq S, NEW t \in Times
        PROVE  Place(R, t) <= Place(S, t)
    <2>1. {u \in S : u > t} \in SUBSET Times /\ {u \in R : u > t} \subseteq {u \in S : u > t}
      BY <1>2
    <2>2. IsFiniteSet({u \in S : u > t})
      BY <2>1, TimesAreFinite
    <2> QED
      BY <2>1, <2>2, FS_Subset DEF Place
  <1>3. ASSUME NEW t \in Times, NEW u \in R, t < u
        PROVE  Place(R, u) < Place(R, t)
    <2>1. {v \in R : v > u} \union {u} \subseteq {v \in R : v > t} /\ u \notin {v \in R : v > u}
      <3>1. \A v \in R : v \in Nat
        BY TimesAreNumbers
      <3>2. t \in Nat /\ u \in Nat
        BY TimesAreNumbers
      <3>3. ASSUME NEW v \in {w \in R : w > u} PROVE v \in {w \in R : w > t}
        <4>1. v \in R /\ v > u /\ v \in Nat
          BY <3>1
        <4>2. v > t
          BY <1>3, <3>2, <4>1
        <4> QED
          BY <4>1, <4>2
      <3>4. u \in {w \in R : w > t}
        BY <1>3, <3>2
      <3>5. u \notin {w \in R : w > u}
        BY <3>2
      <3> QED
        BY <3>3, <3>4, <3>5
    <2>2. Cardinality({v \in R : v > u} \union {u}) = Cardinality({v \in R : v > u}) + 1
      BY <1>1, <2>1, FS_AddElement
    <2>3. Cardinality({v \in R : v > u} \union {u}) <= Cardinality({v \in R : v > t})
      BY <1>1, <2>1, FS_Subset
    <2>4. Place(R, u) \in Nat /\ Place(R, t) \in Nat
      BY <1>1
    <2> QED
      BY <2>2, <2>3, <2>4 DEF Place
  <1> QED
    BY <1>1, <1>2, <1>3

LEMMA PagesAreShort ==
  ASSUME NEW R \in SUBSET Times, NEW offset \in Nat
  PROVE  /\ Page(R, offset) \in SUBSET R
         /\ \A t \in R : t \in Page(R, offset) <=>
              offset <= Place(R, t) /\ Place(R, t) < offset + Chunk
         /\ Cardinality(Page(R, offset)) \in 0..Chunk
  <1> DEFINE P == Page(R, offset)
  <1>1. /\ P \in SUBSET R
        /\ \A t \in R : t \in P <=> offset <= Place(R, t) /\ Place(R, t) < offset + Chunk
    <2>1. \A t \in R : t \in P <=> Place(R, t) \in offset .. (offset + Chunk - 1)
      BY DEF Page, Place
    <2>2. \A t \in R : Place(R, t) \in Nat
      BY Places
    <2>3. P \in SUBSET R
      BY DEF Page
    <2> HIDE DEF P
    <2> QED
      BY <2>1, <2>2, <2>3, AuditAssumption
  <1>2. P \in SUBSET Times /\ P \in SUBSET Nat /\ IsFiniteSet(P) /\ Cardinality(P) \in Nat
    <2>1. P \in SUBSET Times
      BY <1>1
    <2>2. IsFiniteSet(P)
      BY <2>1, TimesAreFinite
    <2> QED
      BY <2>1, <2>2, FS_CardinalityType DEF Times
  <1>3. CASE P = {}
    BY <1>1, <1>3, FS_EmptySet, AuditAssumption
  <1>4. CASE P # {}
    <2> HIDE DEF P
    <2>1. PICK m \in P : \A k \in P : m <= k
      BY <1>2, <1>4, SmallestOfSome
    <2>2. PICK M \in P : \A k \in P : k <= M
      BY <1>2, <1>4, LargestOfSome
    <2> DEFINE Later(t) == {u \in R : u > t}
    <2>3. /\ IsFiniteSet(Later(m)) /\ IsFiniteSet(Later(M))
          /\ Later(m) \intersect Later(M) = Later(M)
      <3>1. Later(m) \in SUBSET Times /\ Later(M) \in SUBSET Times
        OBVIOUS
      <3>2. Later(M) \subseteq Later(m)
        <4>1. m \in Nat /\ M \in Nat /\ m <= M /\ \A u \in R : u \in Nat
          BY <1>2, <2>1, <2>2, TimesAreNumbers
        <4> QED
          BY <4>1
      <3> QED
        BY <3>1, <3>2, TimesAreFinite
    <2>4. /\ IsFiniteSet(Later(m) \ Later(M))
          /\ Cardinality(Later(m) \ Later(M)) = Cardinality(Later(m)) - Cardinality(Later(M))
      <3> HIDE DEF Later
      <3> QED
        BY <2>3, FS_Difference
    <2>5. P \ {m} \subseteq Later(m) \ Later(M)
      BY <1>1, <1>2, <2>1, <2>2
    <2>6. Cardinality(P \ {m}) = Cardinality(P) - 1
      BY <1>2, <2>1, FS_RemoveElement
    <2>7. Cardinality(P \ {m}) <= Cardinality(Later(m) \ Later(M))
      <3> HIDE DEF Later
      <3> QED
        BY <2>4, <2>5, FS_Subset
    <2>8. /\ Cardinality(Later(m)) \in Nat /\ Cardinality(Later(M)) \in Nat
          /\ Cardinality(Later(m)) < offset + Chunk /\ offset <= Cardinality(Later(M))
      BY <1>1, <1>2, Places DEF Place
    <2> HIDE DEF Later
    <2>9. Cardinality(P) - 1 <= Cardinality(Later(m)) - Cardinality(Later(M))
      BY <2>4, <2>6, <2>7
    <2>10. Cardinality(P) <= Chunk
      BY <1>2, <2>8, <2>9, AuditAssumption
    <2> QED
      BY <1>1, <1>2, <2>10, AuditAssumption DEF P
  <1> QED
    BY <1>3, <1>4

\* A page with nothing on it is after the last row.
LEMMA EmptyPageIsLast ==
  ASSUME NEW R \in SUBSET Times, NEW offset \in Nat, Page(R, offset) = {}
  PROVE  \A t \in R : Place(R, t) < offset
  <1> DEFINE B == {t \in R : offset <= Place(R, t)}
  <1>0. \A t \in R : Place(R, t) \in Nat
    BY Places
  <1> SUFFICES ASSUME B # {} PROVE FALSE
    BY <1>0
  <1>1. B \in SUBSET Times /\ B \in SUBSET Nat
    BY TimesAreNumbers
  <1>2. IsFiniteSet(B)
    BY <1>1, TimesAreFinite
  <1>3. PICK m \in B : \A k \in B : k <= m
    <2> HIDE DEF B
    <2> QED
      BY <1>1, <1>2, LargestOfSome
  <1> DEFINE A == {u \in R : u > m}
  <1>4. m \in R /\ offset <= Place(R, m) /\ Place(R, m) = Cardinality(A) /\ Place(R, m) \in Nat
    BY Places DEF Place
  <1>5. Place(R, m) > offset
    BY <1>4, PagesAreShort, AuditAssumption
  <1>6. A # {} /\ A \in SUBSET Nat
    <2>1. Cardinality(A) # 0
      BY <1>4, <1>5
    <2>2. A \in SUBSET Nat
      BY TimesAreNumbers
    <2> QED
      BY <2>1, <2>2, FS_EmptySet
  <1>7. PICK v \in A : \A k \in A : v <= k
    <2> HIDE DEF A
    <2> QED
      BY <1>6, SmallestOfSome
  <1>8. v \in R /\ v > m /\ v \in Nat /\ m \in Nat
    BY <1>1, <1>6
  <1>9. Place(R, v) < offset /\ Place(R, v) \in Nat
    <2>1. v \notin B
      BY <1>3, <1>8
    <2> QED
      BY <1>0, <1>8, <2>1
  <1>10. A = {u \in R : u > v} \union {v} /\ v \notin {u \in R : u > v}
    <2>1. \A u \in R : u \in Nat
      BY TimesAreNumbers
    <2>2. ASSUME NEW x \in A PROVE x = v \/ x \in {u \in R : u > v}
      <3>1. x \in R /\ x \in Nat /\ v <= x
        BY <1>7, <2>1
      <3> QED
        BY <1>8, <3>1
    <2>3. ASSUME NEW x \in {u \in R : u > v} PROVE x \in A
      <3>1. x \in R /\ x \in Nat /\ x > v
        BY <2>1
      <3>2. x > m
        BY <1>8, <3>1
      <3> QED
        BY <3>1, <3>2
    <2>4. v \in A /\ v \notin {u \in R : u > v}
      BY <1>7, <1>8
    <2> HIDE DEF A
    <2> QED
      BY <2>2, <2>3, <2>4
  <1>11. IsFiniteSet({u \in R : u > v})
    <2>1. {u \in R : u > v} \in SUBSET Times
      OBVIOUS
    <2> QED
      BY <2>1, TimesAreFinite
  <1>12. Cardinality(A) = Place(R, v) + 1
    BY <1>10, <1>11, FS_AddElement DEF Place
  <1> QED
    BY <1>4, <1>5, <1>9, <1>12

\* Rows that are added leave an export as well read as it was.
LEMMA MoreRowsKeep ==
  ASSUME NEW e \in Exports, NEW R \in SUBSET Times, NEW S \in SUBSET Times, R \subseteq S,
         WellRead(e, R)
  PROVE  WellRead(e, S)
  <1>1. e.had \subseteq R /\ e.had \in SUBSET Times /\ e.offset \in Nat
    BY DEF WellRead, Exports
  <1>2. ASSUME NEW t \in e.had, Place(S, t) < e.offset PROVE t \in e.got
    <2>1. Place(R, t) <= Place(S, t) /\ Place(R, t) \in Nat /\ Place(S, t) \in Nat
      BY <1>1, Places
    <2>2. Place(R, t) < e.offset
      BY <1>1, <1>2, <2>1
    <2> QED
      BY <2>2 DEF WellRead
  <1>3. Cardinality(R \ e.had) <= Cardinality(S \ e.had)
    <2>1. S \ e.had \in SUBSET Times /\ R \ e.had \in SUBSET (S \ e.had)
      OBVIOUS
    <2>2. IsFiniteSet(S \ e.had)
      BY <2>1, TimesAreFinite
    <2> QED
      BY <2>1, <2>2, FS_Subset
  <1>4. e.pc = "done" => Cardinality(e.had \ e.got) <= Cardinality(S \ e.had)
    <2>1. /\ R \ e.had \in SUBSET Times /\ S \ e.had \in SUBSET Times
          /\ e.had \ e.got \in SUBSET Times
      BY <1>1
    <2>2. /\ Cardinality(R \ e.had) \in Int /\ Cardinality(S \ e.had) \in Int
          /\ Cardinality(e.had \ e.got) \in Int
      BY <2>1, TimesAreFinite
    <2> QED
      BY <1>3, <2>2 DEF WellRead
  <1> QED
    BY <1>1, <1>2, <1>4 DEF WellRead

\* An export that ends has missed no more rows than were added.
LEMMA EndIsWellRead ==
  ASSUME NEW e \in Exports, NEW R \in SUBSET Times, WellRead(e, R),
         e.offset >= e.total \/ Page(R, e.offset) = {}
  PROVE  Cardinality(e.had \ e.got) <= Cardinality(R \ e.had)
  <1> DEFINE missing == e.had \ e.got
  <1>1. /\ e.had \subseteq R /\ e.had \in SUBSET Times /\ e.offset \in Nat
        /\ missing \in SUBSET Times /\ missing \subseteq e.had
        /\ e.had \ missing \in SUBSET Times /\ R \ e.had \in SUBSET Times
    BY DEF WellRead, Exports
  <1>2. /\ IsFiniteSet(e.had) /\ IsFiniteSet(missing) /\ IsFiniteSet(e.had \ missing)
        /\ IsFiniteSet(R \ e.had) /\ Cardinality(R \ e.had) \in Nat
        /\ Cardinality(missing) \in Nat /\ Cardinality(e.had) \in Nat
    <2>1. \A S \in SUBSET Times : IsFiniteSet(S) /\ Cardinality(S) \in Nat
      BY TimesAreFinite, FS_CardinalityType
    <2> HIDE DEF missing
    <2> QED
      BY <1>1, <2>1
  <1>3. CASE missing = {}
    BY <1>2, <1>3, FS_EmptySet
  <1>4. CASE missing # {}
    <2>1. PICK m \in missing : \A k \in missing : k <= m
      <3>1. missing \in SUBSET Nat
        BY <1>1, TimesAreNumbers
      <3> HIDE DEF missing
      <3> QED
        BY <1>2, <1>4, <3>1, LargestOfSome
    <2> DEFINE A == {u \in R : u > m}
    <2>2. m \in e.had /\ m \in R /\ m \in Nat /\ Place(R, m) \in Nat /\ Place(R, m) = Cardinality(A)
      BY <1>1, <2>1, TimesAreNumbers, Places DEF Place
    <2>3. e.offset <= Place(R, m)
      BY <1>1, <2>1, <2>2 DEF WellRead
    <2>4. e.offset >= Cardinality(e.had)
      BY <2>2, <2>3, <1>1, EmptyPageIsLast DEF WellRead
    <2>5. A \subseteq (e.had \ missing) \union (R \ e.had)
      <3>1. ASSUME NEW u \in A, u \in missing PROVE FALSE
        <4>1. u \in Nat /\ u > m /\ u <= m
          BY <2>1, <3>1, TimesAreNumbers
        <4> QED
          BY <2>2, <4>1
      <3> QED
        BY <3>1
    <2> HIDE DEF A, missing
    <2>6. Cardinality(e.had \ missing) = Cardinality(e.had) - Cardinality(missing)
      <3>1. e.had \intersect missing = missing
        BY <1>1
      <3> QED
        BY <1>2, <3>1, FS_Difference
    <2> DEFINE rest == e.had \ missing
               new == R \ e.had
    <2>7. rest \intersect new = {} /\ Cardinality({}) = 0
      BY FS_EmptySet
    <2> HIDE DEF rest, new
    <2>8. /\ IsFiniteSet(rest \union new)
          /\ Cardinality(rest \union new) = Cardinality(rest) + Cardinality(new) - 0
      <3>1. IsFiniteSet(rest) /\ IsFiniteSet(new)
        BY <1>2 DEF rest, new
      <3> QED
        BY <2>7, <3>1, FS_Union
    <2>9. Cardinality(A) <= Cardinality(rest \union new)
      BY <2>5, <2>8, FS_Subset DEF rest, new
    <2> QED
      BY <1>1, <1>2, <2>2, <2>3, <2>4, <2>6, <2>8, <2>9 DEF rest, new, missing
  <1> QED
    BY <1>3, <1>4

\* A chunk is added to an export.
LEMMA ChunkIsWellRead ==
  ASSUME NEW e \in Exports, NEW R \in SUBSET Times, WellRead(e, R), e.pc = "read"
  PROVE  WellRead([e EXCEPT !.got = @ \union Page(R, e.offset),
                            !.offset = @ + Cardinality(Page(R, e.offset))], R)
  <1>1. /\ e.had \subseteq R /\ e.had \in SUBSET Times /\ e.offset \in Nat /\ e.got \in SUBSET Times
    BY DEF WellRead, Exports
  <1>2. PICK P : P = Page(R, e.offset)
    OBVIOUS
  <1>3. PICK n : n = Cardinality(P)
    OBVIOUS
  <1>4. /\ P \in SUBSET R /\ n \in 0..Chunk
        /\ \A t \in R : t \in P <=> e.offset <= Place(R, t) /\ Place(R, t) < e.offset + Chunk
    BY <1>1, <1>2, <1>3, PagesAreShort
  <1>5. \A t \in R : Place(R, t) \in Nat
    BY Places
  <1>6. PICK f : f = [e EXCEPT !.got = @ \union P, !.offset = @ + n]
    OBVIOUS
  <1>7. /\ f.had = e.had /\ f.total = e.total /\ f.pc = "read"
        /\ f.got = e.got \union P /\ f.offset = e.offset + n
    BY <1>6 DEF Exports
  <1>8. ASSUME NEW t \in e.had, Place(R, t) < e.offset + Chunk PROVE t \in f.got
    <2>1. CASE Place(R, t) < e.offset
      BY <1>7, <2>1 DEF WellRead
    <2>2. CASE e.offset <= Place(R, t)
      BY <1>1, <1>4, <1>7, <1>8, <2>2
    <2> QED
      BY <1>1, <1>5, <2>1, <2>2
  <1>9. ASSUME NEW t \in e.had, Place(R, t) < f.offset PROVE t \in f.got
    BY <1>1, <1>4, <1>5, <1>7, <1>8, <1>9, AuditAssumption
  <1>10. ASSUME NEW t \in e.had, NEW u \in f.got, t > u PROVE t \in f.got
    <2>1. CASE u \in e.got
      BY <1>7, <1>10, <2>1 DEF WellRead
    <2>2. CASE u \in P
      <3>1. u \in R /\ u \in Times /\ t \in Times /\ t \in R /\ u < t
        <4>1. t \in Nat /\ u \in Nat
          BY <1>1, <1>4, <2>2, TimesAreNumbers
        <4> QED
          BY <1>1, <1>4, <1>10, <2>2, <4>1
      <3>2. Place(R, t) < Place(R, u)
        BY <3>1, Places
      <3>3. Place(R, t) < e.offset + Chunk
        BY <1>1, <1>4, <1>5, <2>2, <3>1, <3>2, AuditAssumption
      <3> QED
        BY <1>8, <3>3
    <2> QED
      BY <1>7, <2>1, <2>2
  <1>11. WellRead(f, R)
    BY <1>7, <1>9, <1>10 DEF WellRead
  <1> QED
    BY <1>2, <1>3, <1>6, <1>11

ExportInv == export # NoExport => WellRead(export, Matches(export.filter))

LEMMA ExportInvStep ==
  ASSUME AuditTypeOK, RequestsApart, ExportInv, [AuditNext]_auditVars
  PROVE  ExportInv'
  <1>0. /\ export \in Exports \union {NoExport} /\ NoExport \notin Exports
        /\ preq \in [Requests -> ProjectRequests \union {Idle}]
        /\ trail \in [Times -> Entries \union {NoEntry}]
    BY DEF AuditTypeOK, Exports, NoExport
  <1>1. \A filter : Matches(filter) \in SUBSET Times
    BY DEF Matches
  <1>2. ASSUME UNCHANGED export,
               \A t \in Times : trail[t] # NoEntry => trail'[t] = trail[t]
        PROVE  ExportInv'
    <2> SUFFICES ASSUME export # NoExport PROVE WellRead(export, Matches(export.filter)')
      BY <1>2 DEF ExportInv
    <2>1. export \in Exports /\ export.filter \in SUBSET Actions
      BY <1>0 DEF Exports
    <2>2. Matches(export.filter) \subseteq Matches(export.filter)'
      BY <1>2, <2>1 DEF Matches, NoEntry, Actions
    <2>3. Matches(export.filter)' \in SUBSET Times
      BY DEF Matches
    <2> QED
      BY <1>1, <2>1, <2>2, <2>3, MoreRowsKeep DEF ExportInv
  <1>3. ASSUME UNCHANGED <<trail, export>> PROVE ExportInv'
    BY <1>2, <1>3
  <1>4. ASSUME NEW c \in Requests, NEW action, NEW columns, Audits(preq[c], action, columns),
               UNCHANGED export, preq[c] # Idle
        PROVE  ExportInv'
    <2>1. trail[preq[c].at] = NoEntry
      BY <1>4 DEF RequestsApart
    <2>2. \A t \in Times : t # preq[c].at => trail'[t] = trail[t]
      BY <1>0, <1>4 DEF Audits
    <2> QED
      BY <1>2, <1>4, <2>1, <2>2
  <1>5. ASSUME NEW c \in Requests, CommitCreate(c) PROVE ExportInv'
    <2>1. preq[c] # Idle
      BY <1>5 DEF CommitCreate, Idle
    <2> QED
      BY <1>3, <1>4, <1>5, <2>1 DEF CommitCreate
  <1>6. ASSUME NEW c \in Requests, CommitUpdate(c) PROVE ExportInv'
    <2>1. preq[c] # Idle
      BY <1>6 DEF CommitUpdate, Idle
    <2> QED
      BY <1>4, <1>6, <2>1 DEF CommitUpdate
  <1>7. ASSUME NEW filter \in {Actions, {"update"}}, BeginExport(filter) PROVE ExportInv'
    <2>1. PICK e : e = [pc |-> "read", filter |-> filter, had |-> Matches(filter),
                        total |-> Cardinality(Matches(filter)), got |-> {}, offset |-> 0]
      OBVIOUS
    <2>2. export' = e /\ UNCHANGED trail
      BY <1>7, <2>1 DEF BeginExport
    <2>3. Matches(e.filter)' = Matches(filter)
      BY <2>1, <2>2 DEF Matches
    <2>4. \A t \in Matches(filter) : Place(Matches(filter), t) \in Nat
      BY <1>1, Places
    <2>5. WellRead(e, Matches(filter))
      BY <2>1, <2>4 DEF WellRead
    <2> QED
      BY <2>2, <2>3, <2>5 DEF ExportInv
  <1>8. ASSUME ReadChunk PROVE ExportInv'
    <2>1. PICK R : R = Matches(export.filter)
      OBVIOUS
    <2>2. /\ export.pc = "read" /\ UNCHANGED trail
          /\ export' = IF export.offset >= export.total \/ Page(R, export.offset) = {}
                       THEN [export EXCEPT !.pc = "done"]
                       ELSE [export EXCEPT !.got = @ \union Page(R, export.offset),
                                           !.offset = @ + Cardinality(Page(R, export.offset))]
      BY <1>8, <2>1 DEF ReadChunk
    <2>3. export \in Exports /\ R \in SUBSET Times /\ WellRead(export, R)
      BY <1>0, <1>1, <2>1, <2>2 DEF NoExport, ExportInv
    <2>4. export'.filter = export.filter /\ Matches(export.filter)' = R
      <3>1. export'.filter = export.filter
        BY <2>2, <2>3 DEF Exports
      <3> QED
        BY <2>1, <2>2, <3>1 DEF Matches
    <2>5. WellRead(export', R)
      <3>1. CASE export.offset >= export.total \/ Page(R, export.offset) = {}
        <4>1. PICK f : f = [export EXCEPT !.pc = "done"]
          OBVIOUS
        <4>2. /\ f.had = export.had /\ f.total = export.total /\ f.got = export.got
              /\ f.offset = export.offset
          BY <2>3, <4>1 DEF Exports
        <4>3. Cardinality(export.had \ export.got) <= Cardinality(R \ export.had)
          BY <2>3, <3>1, EndIsWellRead
        <4> QED
          BY <2>2, <2>3, <3>1, <4>1, <4>2, <4>3 DEF WellRead
      <3>2. CASE ~(export.offset >= export.total \/ Page(R, export.offset) = {})
        <4>1. PICK f : f = [export EXCEPT !.got = @ \union Page(R, export.offset),
                                          !.offset = @ + Cardinality(Page(R, export.offset))]
          OBVIOUS
        <4>2. export' = f
          BY <2>2, <3>2, <4>1
        <4>3. WellRead(f, R)
          BY <2>2, <2>3, <4>1, ChunkIsWellRead
        <4> QED
          BY <4>2, <4>3
      <3> QED
        BY <3>1, <3>2
    <2> QED
      BY <2>4, <2>5 DEF ExportInv
  <1>9. ASSUME EndExport PROVE ExportInv'
    BY <1>9 DEF EndExport, ExportInv
  <1> QED
    BY <1>3, <1>5, <1>6, <1>7, <1>8, <1>9
       DEF AuditNext, Creating, Changing, BeginCreate, BeginUpdate, BeginArchive, Begins,
           EndProjectReq, auditVars

\* Whatever is committed while it runs, an export leaves no gap between the rows that it
\* has, and misses no more of the rows it counted than were added meanwhile.
THEOREM ExportsLoseOnlyTheOldest == AuditSpec => []ExportLosesOnlyTheOldest
  <1>1. AuditInit => ExportInv
    BY DEF AuditInit, ExportInv
  <1>2. AuditInv /\ ExportInv /\ [AuditNext]_auditVars => ExportInv'
    BY ExportInvStep DEF AuditInv
  <1>3. AuditInv /\ ExportInv => ExportLosesOnlyTheOldest
    <2> SUFFICES ASSUME AuditInv, ExportInv, export # NoExport
                 PROVE  ExportLosesOnlyTheOldest
      BY DEF ExportLosesOnlyTheOldest
    <2>1. WellRead(export, Matches(export.filter)) /\ export \in Exports
      BY DEF AuditInv, AuditTypeOK, ExportInv
    <2>2. ASSUME NEW t \in export.had \ export.got, NEW u \in export.got PROVE t < u
      <3>1. t \in Nat /\ u \in Nat /\ t # u
        BY <2>1, TimesAreNumbers DEF Exports
      <3> QED
        BY <2>1, <3>1 DEF WellRead
    <2> QED
      BY <2>1, <2>2 DEF ExportLosesOnlyTheOldest, WellRead
  <1> QED
    BY <1>1, <1>2, <1>3, AuditInvInit, AuditInvStep, PTL DEF AuditSpec

-------------------------------------------------------------------------------
\* Progress.

RunRows == [run : 1..MaxRuns, at : 0..Stages, status : {"running", "succeeded", "failed"}]
ConnRows == [pc : {"none", "accepted", "read", "registered"}, frame : SUBSET Frames,
            victim : SUBSET Sockets, greeted : BOOLEAN, subscribed : BOOLEAN]
Phases == {"none", "live", "leaving", "failing"}
HookFields == [ref : SUBSET Sockets, timers : Nat, armed : BOOLEAN, last : SUBSET Frames,
               over : BOOLEAN, beside : BOOLEAN]

\* A hook that has the handle of a timeout waits for one.
Hooks == {h \in HookFields : h.armed => h.timers > 0}
Sendable == Frames \union {Newer}

\* What a handler has done so far; one that is greeted was registered first.
InSteps(k) ==
  /\ k.greeted => k.pc = "registered"
  /\ k.subscribed => k.greeted
  /\ k.pc \in {"read", "registered"} /\ ~k.greeted => k.frame # {}

InBucket(q, t) == \E i \in 1..Len(q) : q[i] = t

\* A registered socket is counted until another handler has it to close.
Counts ==
  /\ Len(bucket) <= Cap
  /\ \A t \in Sockets : conn[t].pc = "registered" =>
       InBucket(bucket, t) \/ \E u \in Sockets : t \in conn[u].victim

StreamInv ==
  ProgressTypeOK /\ tab \in [Tabs -> Hooks] /\ (\A t \in Sockets : InSteps(conn[t])) /\ Counts

LEMMA ProgressTypes ==
  ProgressTypeOK <=>
    /\ row \in RunRows /\ news \subseteq Frames /\ bucket \in Seq(Sockets)
    /\ conn \in [Sockets -> ConnRows] /\ wire \in [Sockets -> Seq(Sendable)]
    /\ sock \in [Sockets -> Phases] /\ tab \in [Tabs -> HookFields]
  BY DEF ProgressTypeOK, RunRows, ConnRows, Phases, HookFields, Sendable

LEMMA ProgressTypesNext ==
  ASSUME row' \in RunRows, news' \subseteq Frames, bucket' \in Seq(Sockets),
         conn' \in [Sockets -> ConnRows], wire' \in [Sockets -> Seq(Sendable)],
         sock' \in [Sockets -> Phases], tab' \in [Tabs -> Hooks]
  PROVE  ProgressTypeOK'
  BY DEF ProgressTypeOK, RunRows, ConnRows, Phases, Hooks, HookFields, Sendable

\* The places of one sequence put after another.
LEMMA JoinedSeq ==
  ASSUME NEW T, NEW a \in Seq(T), NEW b \in Seq(T)
  PROVE  /\ a \o b \in Seq(T) /\ Len(a \o b) = Len(a) + Len(b)
         /\ \A j \in 1..Len(a) : (a \o b)[j] = a[j]
         /\ \A j \in 1..Len(b) : (a \o b)[Len(a) + j] = b[j]
  OBVIOUS

LEMMA WithoutOne ==
  ASSUME NEW q \in Seq(Sockets), NEW t
  PROVE  /\ Without(q, t) \in Seq(Sockets) /\ Len(Without(q, t)) <= Len(q)
         /\ \A u : u # t /\ InBucket(q, u) => InBucket(Without(q, t), u)
  <1>1. CASE ~InBucket(q, t)
    BY <1>1 DEF Without, InBucket
  <1>2. CASE InBucket(q, t)
    <2> DEFINE S == {i \in 1..Len(q) : q[i] = t}
    <2>1. S \in SUBSET Nat /\ S # {}
      BY <1>2 DEF InBucket
    <2>2. \E i \in S : \A k \in S : i <= k
      <3> HIDE DEF S
      <3> QED
        BY <2>1, SmallestOfSome
    <2>3. \E i \in 1..Len(q) : q[i] = t /\ \A j \in 1..(i - 1) : q[j] # t
      <3>1. PICK i \in S : \A k \in S : i <= k
        BY <2>2
      <3> QED
        BY <3>1
    <2>4. PICK i \in 1..Len(q) :
            /\ q[i] = t /\ Without(q, t) = SubSeq(q, 1, i - 1) \o SubSeq(q, i + 1, Len(q))
      <3>1. PICK i : i = CHOOSE k \in 1..Len(q) : q[k] = t /\ \A j \in 1..(k - 1) : q[j] # t
        OBVIOUS
      <3>2. i \in 1..Len(q) /\ q[i] = t
        BY <2>3, <3>1
      <3>3. Without(q, t) = SubSeq(q, 1, i - 1) \o SubSeq(q, i + 1, Len(q))
        BY <1>2, <3>1 DEF Without, InBucket
      <3> QED
        BY <3>2, <3>3
    <2> DEFINE a == SubSeq(q, 1, i - 1)
               b == SubSeq(q, i + 1, Len(q))
    <2>5. /\ a \in Seq(Sockets) /\ Len(a) = i - 1 /\ \A j \in 1..(i - 1) : a[j] = q[j]
      OBVIOUS
    <2>6. /\ b \in Seq(Sockets) /\ Len(b) = Len(q) - i /\ \A j \in 1..(Len(q) - i) : b[j] = q[i + j]
      <3>1. i + 1 \in 1..(Len(q) + 1) /\ Len(q) \in Nat
        OBVIOUS
      <3> QED
        BY <3>1
    <2> HIDE DEF a, b
    <2>7. /\ a \o b \in Seq(Sockets) /\ Len(a \o b) = Len(q) - 1
          /\ \A j \in 1..(i - 1) : (a \o b)[j] = q[j]
          /\ \A j \in 1..(Len(q) - i) : (a \o b)[i - 1 + j] = q[i + j]
      <3>1. a \in Seq(Sockets) /\ b \in Seq(Sockets)
        BY <2>5, <2>6
      <3> HIDE DEF S
      <3>2. /\ a \o b \in Seq(Sockets) /\ Len(a \o b) = Len(a) + Len(b)
            /\ \A j \in 1..Len(a) : (a \o b)[j] = a[j]
            /\ \A j \in 1..Len(b) : (a \o b)[Len(a) + j] = b[j]
        BY <3>1, JoinedSeq
      <3>3. Len(q) \in Nat /\ i \in 1..Len(q)
        OBVIOUS
      <3> DEFINE c == a \o b
      <3> HIDE DEF c
      <3>4. /\ Len(c) = Len(a) + Len(b)
            /\ \A j \in 1..Len(a) : c[j] = a[j]
            /\ \A j \in 1..Len(b) : c[Len(a) + j] = b[j]
        BY <3>2, Zenon DEF c
      <3>5. /\ Len(c) = Len(q) - 1
            /\ \A j \in 1..(i - 1) : c[j] = q[j]
            /\ \A j \in 1..(Len(q) - i) : c[i - 1 + j] = q[i + j]
        BY <2>5, <2>6, <3>3, <3>4
      <3> QED
        BY <3>2, <3>5, Zenon DEF c
    <2>8. ASSUME NEW u, u # t, InBucket(q, u) PROVE InBucket(a \o b, u)
      <3>1. PICK j \in 1..Len(q) : q[j] = u
        BY <2>8 DEF InBucket
      <3>2. j < i \/ j > i
        BY <2>4, <2>8, <3>1
      <3>3. CASE j < i
        <4>1. j \in 1..(i - 1) /\ j \in 1..(Len(q) - 1)
          BY <3>3
        <4> QED
          BY <2>7, <3>1, <4>1 DEF InBucket
      <3>4. CASE j > i
        <4>1. j - i \in 1..(Len(q) - i) /\ j - 1 \in 1..(Len(q) - 1) /\ i + (j - i) = j
              /\ i - 1 + (j - i) = j - 1
          BY <3>4
        <4>2. (a \o b)[j - 1] = q[j]
          BY <2>7, <4>1
        <4> QED
          BY <2>7, <3>1, <4>1, <4>2 DEF InBucket
      <3> QED
        BY <3>2, <3>3, <3>4
    <2>9. Without(q, t) = a \o b
      BY <2>4 DEF a, b
    <2>10. Len(q) \in Nat
      OBVIOUS
    <2> QED
      BY <2>7, <2>8, <2>9, <2>10
  <1> QED
    BY <1>1, <1>2

LEMMA NewerIsNoFrame == Newer \notin Frames /\ Newer \in Sendable /\ Newer.run = 0 /\ Newer.at = 0
  BY DEF Newer, Frames, Sendable

LEMMA ReleasedSocket ==
  ASSUME NEW t \in Sockets, conn[t] \in ConnRows
  PROVE  /\ Released(t) \in ConnRows /\ Released(t).victim = conn[t].victim
         /\ Released(t).pc = "none" /\ ~Released(t).greeted /\ ~Released(t).subscribed
         /\ Released(t).frame = {}
  BY DEF Released, NoConn, ConnRows

LEMMA StreamInvInit == ProgressInit => StreamInv
  <1> SUFFICES ASSUME ProgressInit PROVE StreamInv
    OBVIOUS
  <1>1. NoConn \in ConnRows /\ NoConn.pc = "none" /\ ~NoConn.greeted /\ ~NoConn.subscribed
    BY DEF NoConn, ConnRows
  <1>2. NewHook \in Hooks
    BY DEF NewHook, Hooks, HookFields
  <1>3. [run |-> 1, at |-> 0, status |-> "running"] \in RunRows
    BY ProgressAssumption DEF RunRows
  <1>4. ProgressTypeOK /\ tab \in [Tabs -> Hooks]
    BY <1>1, <1>2, <1>3, ProgressTypes DEF ProgressInit, Phases, Hooks
  <1>5. \A t \in Sockets : conn[t] = NoConn
    BY DEF ProgressInit
  <1>6. bucket = <<>> /\ Len(bucket) = 0
    BY DEF ProgressInit
  <1> QED
    BY <1>1, <1>4, <1>5, <1>6, ProgressAssumption DEF StreamInv, InSteps, Counts

\* A step of one handler, which leaves the bucket alone.
LEMMA SocketMoves ==
  ASSUME StreamInv, NEW t \in Sockets, NEW k \in ConnRows, conn' = [conn EXCEPT ![t] = k],
         InSteps(k), k.victim = conn[t].victim,
         k.pc = "registered" => conn[t].pc = "registered",
         UNCHANGED bucket, row' \in RunRows, news' \subseteq Frames,
         wire' \in [Sockets -> Seq(Sendable)],
         sock' \in [Sockets -> Phases], tab' \in [Tabs -> Hooks]
  PROVE  StreamInv'
  <1>1. conn \in [Sockets -> ConnRows] /\ bucket \in Seq(Sockets)
    BY ProgressTypes DEF StreamInv
  <1>2. /\ conn' \in [Sockets -> ConnRows]
        /\ \A u \in Sockets : conn'[u] = IF u = t THEN k ELSE conn[u]
    BY <1>1
  <1>3. ProgressTypeOK'
    BY <1>1, <1>2, ProgressTypesNext
  <1>4. Counts'
    <2>1. \A u \in Sockets : /\ conn'[u].victim = conn[u].victim
                             /\ conn'[u].pc = "registered" => conn[u].pc = "registered"
      BY <1>2
    <2>2. Counts
      BY DEF StreamInv
    <2>3. ASSUME NEW u \in Sockets, conn'[u].pc = "registered"
          PROVE  InBucket(bucket, u) \/ \E w \in Sockets : u \in conn'[w].victim
      BY <2>1, <2>2, <2>3 DEF Counts
    <2> QED
      BY <2>2, <2>3 DEF Counts
  <1> QED
    BY <1>2, <1>3, <1>4 DEF StreamInv

\* A step that leaves the handlers and the bucket alone.
LEMMA HandlersRest ==
  ASSUME StreamInv, UNCHANGED <<bucket, conn>>, row' \in RunRows, news' \subseteq Frames,
         wire' \in [Sockets -> Seq(Sendable)],
         sock' \in [Sockets -> Phases], tab' \in [Tabs -> Hooks]
  PROVE  StreamInv'
  <1>1. ProgressTypeOK'
    BY ProgressTypes, ProgressTypesNext DEF StreamInv
  <1> QED
    BY <1>1 DEF StreamInv, Counts

\* A socket is closed and its handler unregisters it.
LEMMA HangUpKeeps ==
  ASSUME StreamInv, NEW t \in Sockets, HangUp(t), row' \in RunRows, news' \subseteq Frames,
         wire' \in [Sockets -> Seq(Sendable)],
         sock' \in [Sockets -> Phases], tab' \in [Tabs -> Hooks]
  PROVE  StreamInv'
  <1>1. conn \in [Sockets -> ConnRows] /\ bucket \in Seq(Sockets)
    BY ProgressTypes DEF StreamInv
  <1> DEFINE k(u) == [(IF u = t THEN Released(t) ELSE conn[u]) EXCEPT
                        !.victim = conn[u].victim \ {t}]
  <1>2. ASSUME NEW u \in Sockets
        PROVE  /\ k(u) \in ConnRows /\ k(u).victim = conn[u].victim \ {t}
               /\ InSteps(k(u))
               /\ k(u).pc = "registered" => u # t /\ conn[u].pc = "registered"
    <2>1. PICK j : j = IF u = t THEN Released(t) ELSE conn[u]
      OBVIOUS
    <2>2. /\ j \in ConnRows /\ InSteps(j) /\ (u = t => j.pc = "none")
          /\ (u # t => j = conn[u])
      BY <1>1, <2>1, ReleasedSocket DEF StreamInv, InSteps
    <2>3. PICK v \in SUBSET Sockets : v = conn[u].victim \ {t}
      BY <1>1 DEF ConnRows
    <2>4. k(u) = [j EXCEPT !.victim = v]
      BY <2>1, <2>3
    <2> HIDE DEF k
    <2>5. /\ k(u) \in ConnRows /\ k(u).victim = v /\ k(u).pc = j.pc /\ k(u).frame = j.frame
          /\ k(u).greeted = j.greeted /\ k(u).subscribed = j.subscribed
      BY <2>2, <2>4 DEF ConnRows
    <2> QED
      BY <2>2, <2>3, <2>5 DEF InSteps
  <1>3. conn' = [u \in Sockets |-> k(u)]
    BY DEF HangUp
  <1> HIDE DEF k
  <1>4. conn' \in [Sockets -> ConnRows] /\ \A u \in Sockets : conn'[u] = k(u)
    BY <1>2, <1>3
  <1>5. bucket' \in Seq(Sockets) /\ Len(bucket') <= Len(bucket)
        /\ \A u : u # t /\ InBucket(bucket, u) => InBucket(bucket', u)
    BY <1>1, WithoutOne DEF HangUp
  <1>6. ProgressTypeOK'
    BY <1>4, <1>5, ProgressTypesNext
  <1>7. Counts'
    <2>1. Len(bucket) \in Nat /\ Len(bucket') \in Nat /\ Len(bucket') <= Cap
      BY <1>1, <1>5, ProgressAssumption DEF StreamInv, Counts
    <2>2. ASSUME NEW u \in Sockets, conn'[u].pc = "registered"
          PROVE  InBucket(bucket', u) \/ \E w \in Sockets : u \in conn'[w].victim
      <3>1. u # t /\ conn[u].pc = "registered"
        BY <1>2, <1>4, <2>2
      <3>2. CASE InBucket(bucket, u)
        BY <1>5, <3>1, <3>2
      <3>3. CASE \E w \in Sockets : u \in conn[w].victim
        BY <1>2, <1>4, <3>1, <3>3
      <3> QED
        BY <3>1, <3>2, <3>3 DEF StreamInv, Counts
    <2> QED
      BY <2>1, <2>2 DEF Counts
  <1> QED
    BY <1>2, <1>4, <1>6, <1>7 DEF StreamInv

\* One timeout less.
LEMMA LessOneIs ==
  ASSUME NEW h \in Hooks, h.timers > 0
  PROVE  LessOne(h) \in Hooks /\ LessOne(h).last = h.last
  <1>1. PICK n \in Nat : n = h.timers - 1
    BY DEF Hooks, HookFields
  <1>2. LessOne(h) = [h EXCEPT !.timers = n, !.armed = FALSE]
    BY <1>1 DEF LessOne
  <1> QED
    BY <1>2 DEF Hooks, HookFields

\* What opening a socket changes.
LEMMA OpeningIs ==
  ASSUME StreamInv, NEW s \in Sockets, Reconnect(s) \/ BecomeVisible(s)
  PROVE  \E k \in ConnRows, j \in Hooks :
           /\ k = [Released(s) EXCEPT !.pc = "accepted"] /\ conn' = [conn EXCEPT ![s] = k]
           /\ tab' = [tab EXCEPT ![s[1]] = j] /\ j.last = tab[s[1]].last
           /\ j.beside = (\E r \in Sockets : r[1] = s[1] /\ sock[r] = "live")
           /\ sock[s] = "none" /\ sock' = [sock EXCEPT ![s] = "live"]
           /\ UNCHANGED <<row, news, bucket, wire>>
           /\ InSteps(k) /\ k.victim = conn[s].victim /\ k.pc = "accepted"
  <1>0. conn[s] \in ConnRows /\ tab[s[1]] \in Hooks
    BY ProgressTypes DEF StreamInv, Sockets
  <1>1. PICK h \in Hooks : Opens(s, h) /\ h.last = tab[s[1]].last
    <2>1. CASE Reconnect(s)
      <3>1. PICK h \in Hooks : h = LessOne(tab[s[1]]) /\ h.last = tab[s[1]].last
        BY <1>0, <2>1, LessOneIs DEF Reconnect
      <3> QED
        BY <2>1, <3>1 DEF Reconnect
    <2>2. CASE BecomeVisible(s)
      <3>1. CASE tab[s[1]].armed
        <4>1. PICK h \in Hooks : h = LessOne(tab[s[1]]) /\ h.last = tab[s[1]].last
          BY <1>0, <3>1, LessOneIs DEF Hooks
        <4> QED
          BY <2>2, <3>1, <4>1 DEF BecomeVisible
      <3>2. CASE ~tab[s[1]].armed
        BY <1>0, <2>2, <3>2 DEF BecomeVisible
      <3> QED
        BY <3>1, <3>2
    <2> QED
      BY <2>1, <2>2
  <1>2. PICK b \in BOOLEAN : b = (\E r \in Sockets : r[1] = s[1] /\ sock[r] = "live")
    OBVIOUS
  <1>3. PICK ref \in SUBSET Sockets : ref = {s}
    OBVIOUS
  <1>4. PICK j : j = [h EXCEPT !.ref = ref, !.beside = b]
    OBVIOUS
  <1>5. j \in Hooks /\ j.last = h.last /\ j.beside = b
    BY <1>4 DEF Hooks, HookFields
  <1>6. PICK r \in ConnRows :
          /\ r = Released(s) /\ r.victim = conn[s].victim
          /\ ~r.greeted /\ ~r.subscribed /\ r.frame = {}
    BY <1>0, ReleasedSocket
  <1>7. PICK k : k = [r EXCEPT !.pc = "accepted"]
    OBVIOUS
  <1>8. /\ k \in ConnRows /\ k.victim = r.victim /\ k.pc = "accepted"
        /\ k.frame = r.frame /\ k.greeted = r.greeted /\ k.subscribed = r.subscribed
    BY <1>7 DEF ConnRows
  <1>9. InSteps(k)
    BY <1>6, <1>8 DEF InSteps
  <1>10. /\ conn' = [conn EXCEPT ![s] = k] /\ tab' = [tab EXCEPT ![s[1]] = j]
         /\ sock[s] = "none" /\ sock' = [sock EXCEPT ![s] = "live"]
         /\ UNCHANGED <<row, news, bucket, wire>>
    BY <1>1, <1>2, <1>3, <1>4, <1>6, <1>7 DEF Opens
  <1> QED
    BY <1>1, <1>2, <1>5, <1>6, <1>7, <1>8, <1>9, <1>10

\* What onclose changes of the hook.
LEMMA ClosingIs ==
  ASSUME tab \in [Tabs -> Hooks], NEW s \in Sockets, NEW again \in BOOLEAN, Closes(s, again)
  PROVE  \E j \in Hooks :
           /\ tab' = [tab EXCEPT ![s[1]] = j]
           /\ j.last = tab[s[1]].last /\ j.beside = tab[s[1]].beside
  <1>0. tab[s[1]] \in Hooks
    BY DEF Sockets
  <1>1. PICK none \in SUBSET Sockets : none = {}
    OBVIOUS
  <1>2. PICK h : h = [tab[s[1]] EXCEPT !.ref = none]
    OBVIOUS
  <1>3. h \in Hooks /\ h.last = tab[s[1]].last /\ h.beside = tab[s[1]].beside
    BY <1>0, <1>2 DEF Hooks, HookFields
  <1>4. PICK n \in Nat : n = h.timers + 1
    BY <1>3 DEF Hooks, HookFields
  <1>5. PICK w : w = [h EXCEPT !.timers = n, !.armed = TRUE]
    OBVIOUS
  <1>6. n > 0
    BY <1>3, <1>4 DEF Hooks, HookFields
  <1>7. w \in Hooks /\ w.last = h.last /\ w.beside = h.beside
    BY <1>3, <1>5, <1>6 DEF Hooks, HookFields
  <1>8. tab' = [tab EXCEPT ![s[1]] = IF again /\ ~h.over THEN w ELSE h]
    BY <1>1, <1>2, <1>4, <1>5 DEF Closes
  <1>9. CASE again /\ ~h.over
    BY <1>3, <1>7, <1>8, <1>9
  <1>10. CASE ~(again /\ ~h.over)
    BY <1>3, <1>8, <1>10
  <1> QED
    BY <1>9, <1>10

\* What a frame that is received changes.
LEMMA ReceivingIs ==
  ASSUME tab \in [Tabs -> Hooks], wire \in [Sockets -> Seq(Sendable)],
         NEW s \in Sockets, ReceiveFrame(s)
  PROVE  \E f \in Frames, j \in Hooks :
           /\ f = Head(wire[s]) /\ wire[s] # <<>> /\ f # Newer
           /\ tab' = [tab EXCEPT ![s[1]] = j]
           /\ j.last = {f} /\ j.beside = tab[s[1]].beside
           /\ wire' = [wire EXCEPT ![s] = IF Ended(f) THEN <<>> ELSE Tail(wire[s])]
           /\ sock' = [sock EXCEPT ![s] = IF Ended(f) THEN "leaving" ELSE sock[s]]
           /\ IF Ended(f) THEN HangUp(s) ELSE UNCHANGED <<conn, bucket>>
           /\ UNCHANGED <<row, news>>
  <1>0. tab[s[1]] \in Hooks /\ s[1] \in Tabs
    BY DEF Sockets
  <1>1. PICK f : f = Head(wire[s])
    OBVIOUS
  <1>2. wire[s] \in Seq(Sendable) /\ wire[s] # <<>> /\ f # Newer
    BY <1>1 DEF ReceiveFrame
  <1>3. f \in Frames
    BY <1>1, <1>2 DEF Sendable
  <1>4. PICK over \in BOOLEAN : over = (tab[s[1]].over \/ Ended(f))
    OBVIOUS
  <1>5. PICK shown \in SUBSET Frames : shown = {f}
    BY <1>3
  <1>6. PICK j : j = [tab[s[1]] EXCEPT !.last = shown, !.over = over]
    OBVIOUS
  <1>7. j \in Hooks /\ j.last = shown /\ j.beside = tab[s[1]].beside
    BY <1>0, <1>6 DEF Hooks, HookFields
  <1>8. tab' = [tab EXCEPT ![s[1]] = j]
    <2>1. tab' = [tab EXCEPT ![s[1]].last = {f}, ![s[1]].over = @ \/ Ended(f)]
      BY <1>1 DEF ReceiveFrame
    <2> QED
      BY <1>0, <1>4, <1>5, <1>6, <2>1
  <1>9. /\ wire' = [wire EXCEPT ![s] = IF Ended(f) THEN <<>> ELSE Tail(wire[s])]
        /\ sock' = [sock EXCEPT ![s] = IF Ended(f) THEN "leaving" ELSE sock[s]]
        /\ IF Ended(f) THEN HangUp(s) ELSE UNCHANGED <<conn, bucket>>
        /\ UNCHANGED <<row, news>>
    BY <1>1 DEF ReceiveFrame
  <1> QED
    BY <1>1, <1>2, <1>3, <1>5, <1>7, <1>8, <1>9

LEMMA StreamInvStep ==
  ASSUME StreamInv, [ProgressNext]_progressVars
  PROVE  StreamInv'
  <1>0. /\ row \in RunRows /\ news \subseteq Frames /\ bucket \in Seq(Sockets)
        /\ conn \in [Sockets -> ConnRows] /\ wire \in [Sockets -> Seq(Sendable)]
        /\ sock \in [Sockets -> Phases] /\ tab \in [Tabs -> Hooks]
    BY ProgressTypes DEF StreamInv
  <1>00. /\ row.run \in 1..MaxRuns /\ row.at \in 0..Stages
         /\ \A end \in {"no", "succeeded", "failed"} : Frame(row.at, end) \in Frames
    BY <1>0 DEF RunRows, Frame, Frames
  <1>1. ASSUME SetStage PROVE StreamInv'
    <2>1. /\ row' = [row EXCEPT !.at = @ + 1] /\ news' = {Frame(row.at + 1, "no")}
          /\ UNCHANGED <<bucket, conn, wire, sock, tab>> /\ row.at < Stages
      BY <1>1 DEF SetStage
    <2>2. row.at + 1 \in 0..Stages
      BY <1>00, <2>1, ProgressAssumption
    <2>3. row' \in RunRows
      BY <1>0, <2>1, <2>2 DEF RunRows
    <2>4. news' \subseteq Frames
      BY <1>00, <2>1, <2>2 DEF Frame, Frames
    <2> QED
      BY <1>0, <2>1, <2>3, <2>4, HandlersRest
  <1>2. ASSUME Succeed PROVE StreamInv'
    <2>1. /\ row' = [row EXCEPT !.status = "succeeded"] /\ news' = {Frame(Stages, "succeeded")}
          /\ UNCHANGED <<bucket, conn, wire, sock, tab>> /\ row.at = Stages
      BY <1>2 DEF Succeed
    <2>2. row' \in RunRows /\ news' \subseteq Frames
      BY <1>0, <1>00, <2>1 DEF RunRows
    <2> QED
      BY <1>0, <2>1, <2>2, HandlersRest
  <1>3. ASSUME Fail PROVE StreamInv'
    <2>1. /\ row' = [row EXCEPT !.status = "failed"] /\ news' = {Frame(row.at, "failed")}
          /\ UNCHANGED <<bucket, conn, wire, sock, tab>>
      BY <1>3 DEF Fail
    <2>2. row' \in RunRows /\ news' \subseteq Frames
      BY <1>0, <1>00, <2>1 DEF RunRows
    <2> QED
      BY <1>0, <2>1, <2>2, HandlersRest
  <1>4. ASSUME NEW sent \in BOOLEAN, Publish(sent) PROVE StreamInv'
    <2>1. PICK f : f = CHOOSE k \in news : TRUE
      OBVIOUS
    <2>2. /\ news # {} /\ news' = {} /\ UNCHANGED <<row, bucket, conn, sock, tab>>
          /\ wire' = [t \in Sockets |->
                       IF sent /\ conn[t].subscribed THEN wire[t] \o <<f>> ELSE wire[t]]
      BY <1>4, <2>1 DEF Publish
    <2>3. f \in Sendable
      BY <1>0, <2>1, <2>2 DEF Sendable
    <2>4. \A t \in Sockets : wire[t] \in Seq(Sendable) /\ wire[t] \o <<f>> \in Seq(Sendable)
      BY <1>0, <2>3
    <2>5. wire' \in [Sockets -> Seq(Sendable)]
      BY <2>2, <2>4
    <2> QED
      BY <1>0, <2>2, <2>5, HandlersRest
  <1>5. ASSUME RunAgain PROVE StreamInv'
    <2>1. /\ row' = [run |-> row.run + 1, at |-> 0, status |-> "running"] /\ row.run < MaxRuns
          /\ UNCHANGED <<news, bucket, conn, wire, sock, tab>>
      BY <1>5 DEF RunAgain
    <2>2. row.run + 1 \in 1..MaxRuns /\ 0 \in 0..Stages
      BY <1>00, <2>1, ProgressAssumption
    <2>3. row' \in RunRows
      BY <2>1, <2>2 DEF RunRows
    <2> QED
      BY <1>0, <2>1, <2>3, HandlersRest
  <1>6. ASSUME NEW t \in Sockets, ReadRow(t) PROVE StreamInv'
    <2>1. PICK f \in Frames : f = Frame(row.at, "no")
      BY <1>00
    <2>2. PICK k : k = [conn[t] EXCEPT !.pc = "read", !.frame = {f}]
      OBVIOUS
    <2>3. /\ conn[t].pc = "accepted" /\ conn' = [conn EXCEPT ![t] = k]
          /\ UNCHANGED <<row, news, bucket, wire, sock, tab>>
      BY <1>0, <1>6, <2>1, <2>2 DEF ReadRow
    <2>4. k \in ConnRows /\ InSteps(k) /\ k.victim = conn[t].victim /\ k.pc = "read"
      BY <1>0, <2>2, <2>3 DEF ConnRows, StreamInv, InSteps
    <2> QED
      BY <1>0, <2>3, <2>4, SocketMoves
  <1>7. ASSUME NEW t \in Sockets, Register(t) PROVE StreamInv'
    <2>1. PICK queue : queue = Append(bucket, t)
      OBVIOUS
    <2>2. /\ queue \in Seq(Sockets) /\ Len(queue) = Len(bucket) + 1 /\ queue[Len(queue)] = t
          /\ \A i \in 1..Len(bucket) : queue[i] = bucket[i]
          /\ Len(bucket) \in Nat /\ Len(bucket) <= Cap
      BY <1>0, <2>1 DEF StreamInv, Counts
    <2>3. PICK v : v = IF Len(queue) > Cap THEN conn[t].victim \union {Head(queue)}
                                            ELSE conn[t].victim
      OBVIOUS
    <2>4. PICK k : k = [conn[t] EXCEPT !.pc = "registered", !.victim = v]
      OBVIOUS
    <2>5. /\ conn[t].pc = "read" /\ conn' = [conn EXCEPT ![t] = k]
          /\ bucket' = (IF Len(queue) > Cap THEN Tail(queue) ELSE queue)
          /\ UNCHANGED <<row, news, wire, sock, tab>>
      BY <1>0, <1>7, <2>1, <2>3, <2>4 DEF Register
    <2>6. Head(queue) \in Sockets /\ Tail(queue) \in Seq(Sockets) /\ Head(queue) = queue[1]
          /\ Len(Tail(queue)) = Len(queue) - 1
          /\ \A i \in 1..Len(Tail(queue)) : Tail(queue)[i] = queue[i + 1]
      BY <2>2
    <2>7. v \in SUBSET Sockets /\ conn[t].victim \subseteq v /\ (Len(queue) > Cap => queue[1] \in v)
      BY <1>0, <2>3, <2>6 DEF ConnRows
    <2>8. k \in ConnRows /\ InSteps(k) /\ k.victim = v
      BY <1>0, <2>4, <2>5, <2>7 DEF ConnRows, StreamInv, InSteps
    <2>9. /\ conn' \in [Sockets -> ConnRows]
          /\ \A u \in Sockets : conn'[u] = IF u = t THEN k ELSE conn[u]
      BY <1>0, <2>5, <2>8
    <2>10. bucket' \in Seq(Sockets) /\ Len(bucket') <= Cap
      BY <2>2, <2>5, <2>6, ProgressAssumption
    <2>11. ASSUME NEW u \in Sockets, InBucket(queue, u)
           PROVE  InBucket(bucket', u) \/ u \in v
      <3>1. PICK i \in 1..Len(queue) : queue[i] = u
        BY <2>11 DEF InBucket
      <3>2. CASE Len(queue) > Cap /\ i = 1
        BY <2>7, <3>1, <3>2
      <3>3. CASE Len(queue) > Cap /\ i # 1
        <4>1. i - 1 \in 1..Len(Tail(queue)) /\ Tail(queue)[i - 1] = u
          BY <2>2, <2>6, <3>1, <3>3
        <4> QED
          BY <2>5, <3>3, <4>1 DEF InBucket
      <3>4. CASE ~(Len(queue) > Cap)
        BY <2>5, <3>1, <3>4 DEF InBucket
      <3> QED
        BY <3>2, <3>3, <3>4
    <2>12. Counts'
      <3> SUFFICES ASSUME NEW u \in Sockets, conn'[u].pc = "registered"
                   PROVE  InBucket(bucket', u) \/ \E w \in Sockets : u \in conn'[w].victim
        BY <2>10 DEF Counts
      <3>1. conn'[t].victim = v /\ \A w \in Sockets : conn[w].victim \subseteq conn'[w].victim
        BY <2>7, <2>8, <2>9
      <3>2. CASE u = t
        <4>1. InBucket(queue, t)
          BY <2>2 DEF InBucket
        <4> QED
          BY <2>11, <3>1, <3>2, <4>1
      <3>3. CASE u # t
        <4>1. conn[u].pc = "registered"
          BY <2>9, <3>3
        <4>2. CASE InBucket(bucket, u)
          <5>1. InBucket(queue, u)
            <6>1. PICK i \in 1..Len(bucket) : bucket[i] = u
              BY <4>2 DEF InBucket
            <6>2. i \in 1..Len(queue) /\ queue[i] = u
              BY <2>2, <6>1
            <6> QED
              BY <6>2 DEF InBucket
          <5> QED
            BY <2>11, <3>1, <5>1
        <4>3. CASE \E w \in Sockets : u \in conn[w].victim
          BY <3>1, <4>3
        <4> QED
          BY <4>1, <4>2, <4>3 DEF StreamInv, Counts
      <3> QED
        BY <3>2, <3>3
    <2>13. ProgressTypeOK'
      BY <1>0, <2>5, <2>9, <2>10, ProgressTypesNext
    <2> QED
      BY <1>0, <2>5, <2>8, <2>9, <2>12, <2>13 DEF StreamInv
  <1>8. ASSUME NEW t \in Sockets, CloseEvicted(t) PROVE StreamInv'
    <2>1. PICK closed \in SUBSET Sockets : closed = conn[t].victim
      BY <1>0 DEF ConnRows
    <2>2. PICK k : k = [conn[t] EXCEPT !.victim = {}]
      OBVIOUS
    <2>3. k \in ConnRows /\ InSteps(k) /\ k.victim = {} /\ k.pc = conn[t].pc
      <3>1. PICK none \in SUBSET Sockets : none = {}
        OBVIOUS
      <3>2. k = [conn[t] EXCEPT !.victim = none]
        BY <2>2, <3>1
      <3>3. conn[t] \in ConnRows /\ InSteps(conn[t])
        BY <1>0 DEF StreamInv
      <3>4. /\ k \in ConnRows /\ k.victim = none /\ k.pc = conn[t].pc
            /\ k.frame = conn[t].frame /\ k.greeted = conn[t].greeted
            /\ k.subscribed = conn[t].subscribed
        BY <3>2, <3>3 DEF ConnRows
      <3> QED
        BY <3>1, <3>3, <3>4 DEF InSteps
    <2>4. \A v \in Sockets :
            conn'[v] = IF v \in closed THEN Released(v) ELSE IF v = t THEN k ELSE conn[v]
      BY <1>8, <2>1, <2>2 DEF CloseEvicted
    <2>5. \A v \in Sockets :
            /\ Released(v) \in ConnRows /\ InSteps(Released(v)) /\ Released(v).pc = "none"
            /\ Released(v).victim = conn[v].victim
      BY <1>0, ReleasedSocket DEF InSteps
    <2>6. conn' \in [Sockets -> ConnRows] /\ \A v \in Sockets : InSteps(conn'[v])
      <3> DEFINE j(v) == IF v \in closed THEN Released(v) ELSE IF v = t THEN k ELSE conn[v]
      <3>1. conn' = [v \in Sockets |-> j(v)]
        BY <1>8, <2>1, <2>2 DEF CloseEvicted
      <3>2. \A v \in Sockets : j(v) \in ConnRows /\ InSteps(j(v))
        BY <1>0, <2>3, <2>5 DEF StreamInv
      <3> HIDE DEF j
      <3> QED
        BY <3>1, <3>2
    <2>7. UNCHANGED <<row, news, bucket, sock, tab>>
      BY <1>8 DEF CloseEvicted
    <2>8. wire' \in [Sockets -> Seq(Sendable)]
      <3>1. \A v \in Sockets : wire[v] \in Seq(Sendable) /\ Append(wire[v], Newer) \in Seq(Sendable)
        BY <1>0, NewerIsNoFrame
      <3> QED
        BY <1>8, <3>1 DEF CloseEvicted
    <2>9. Counts'
      <3>1. ASSUME NEW u \in Sockets, conn'[u].pc = "registered"
            PROVE  InBucket(bucket, u) \/ \E w \in Sockets : u \in conn'[w].victim
        <4>1. u \notin closed /\ conn[u].pc = "registered"
          BY <2>3, <2>4, <2>5, <3>1
        <4>2. ASSUME NEW w \in Sockets, u \in conn[w].victim PROVE u \in conn'[w].victim
          BY <2>1, <2>4, <2>5, <4>1, <4>2
        <4> QED
          BY <4>1, <4>2 DEF StreamInv, Counts
      <3> QED
        BY <2>7, <3>1 DEF StreamInv, Counts
    <2>10. ProgressTypeOK'
      BY <1>0, <2>6, <2>7, <2>8, ProgressTypesNext
    <2> QED
      BY <1>0, <2>6, <2>7, <2>9, <2>10 DEF StreamInv
  <1>9. ASSUME NEW t \in Sockets, Greet(t) PROVE StreamInv'
    <2>1. PICK f : f = CHOOSE k \in conn[t].frame : TRUE
      OBVIOUS
    <2>0. PICK none \in SUBSET Frames : none = {}
      OBVIOUS
    <2>2. PICK k : k = [conn[t] EXCEPT !.greeted = TRUE, !.frame = none]
      OBVIOUS
    <2>3. /\ conn[t].pc = "registered" /\ conn' = [conn EXCEPT ![t] = k] /\ ~conn[t].greeted
          /\ wire' = [wire EXCEPT ![t] = wire[t] \o <<f>>]
          /\ UNCHANGED <<row, news, bucket, sock, tab>>
      <3>1. conn' = [conn EXCEPT ![t].greeted = TRUE, ![t].frame = none]
        BY <1>9, <2>0 DEF Greet
      <3>2. conn' = [conn EXCEPT ![t] = k]
        BY <1>0, <2>2, <3>1
      <3>3. /\ conn[t].pc = "registered" /\ ~conn[t].greeted
            /\ UNCHANGED <<row, news, bucket, sock, tab>>
        BY <1>9 DEF Greet
      <3>4. wire' = [wire EXCEPT ![t] = wire[t] \o <<f>>]
        BY <1>9, <2>1 DEF Greet
      <3> QED
        BY <3>2, <3>3, <3>4, Zenon
    <2>4. k \in ConnRows /\ InSteps(k) /\ k.victim = conn[t].victim
      <3>1. conn[t] \in ConnRows
        BY <1>0
      <3>2. /\ k \in ConnRows /\ k.victim = conn[t].victim /\ k.pc = conn[t].pc /\ k.greeted
        BY <2>2, <3>1 DEF ConnRows
      <3> QED
        BY <2>3, <3>2 DEF InSteps
    <2>5. f \in Sendable
      <3>1. conn[t].frame # {} /\ conn[t].frame \subseteq Frames
        BY <1>0, <2>3 DEF StreamInv, InSteps, ConnRows
      <3> QED
        BY <2>1, <3>1 DEF Sendable
    <2>6. wire' \in [Sockets -> Seq(Sendable)]
      <3>1. wire[t] \o <<f>> \in Seq(Sendable)
        BY <1>0, <2>5
      <3> QED
        BY <1>0, <2>3, <3>1
    <2> QED
      BY <1>0, <2>3, <2>4, <2>6, SocketMoves
  <1>10. ASSUME NEW t \in Sockets, Subscribe(t) PROVE StreamInv'
    <2>1. PICK k : k = [conn[t] EXCEPT !.subscribed = TRUE]
      OBVIOUS
    <2>2. /\ conn[t].pc = "registered" /\ conn[t].greeted /\ conn' = [conn EXCEPT ![t] = k]
          /\ UNCHANGED <<row, news, bucket, wire, sock, tab>>
      BY <1>0, <1>10, <2>1 DEF Subscribe
    <2>3. k \in ConnRows /\ InSteps(k) /\ k.victim = conn[t].victim
      BY <1>0, <2>1, <2>2 DEF ConnRows, StreamInv, InSteps
    <2> QED
      BY <1>0, <2>2, <2>3, SocketMoves
  <1>11. ASSUME NEW s \in Sockets, Reconnect(s) \/ BecomeVisible(s) PROVE StreamInv'
    <2>1. PICK k \in ConnRows, h \in Hooks :
            /\ k = [Released(s) EXCEPT !.pc = "accepted"] /\ conn' = [conn EXCEPT ![s] = k]
            /\ tab' = [tab EXCEPT ![s[1]] = h] /\ h.last = tab[s[1]].last
            /\ h.beside = (\E r \in Sockets : r[1] = s[1] /\ sock[r] = "live")
            /\ sock[s] = "none" /\ sock' = [sock EXCEPT ![s] = "live"]
            /\ UNCHANGED <<row, news, bucket, wire>>
            /\ InSteps(k) /\ k.victim = conn[s].victim /\ k.pc = "accepted"
      BY <1>11, OpeningIs, Zenon
    <2>2. sock' \in [Sockets -> Phases] /\ tab' \in [Tabs -> Hooks]
      BY <1>0, <2>1 DEF Phases
    <2> QED
      BY <1>0, <2>1, <2>2, SocketMoves
  <1>12. ASSUME NEW s \in Sockets, ReceiveFrame(s) PROVE StreamInv'
    <2>1. PICK f \in Frames, j \in Hooks :
            /\ wire[s] # <<>> /\ tab' = [tab EXCEPT ![s[1]] = j]
            /\ wire' = [wire EXCEPT ![s] = IF Ended(f) THEN <<>> ELSE Tail(wire[s])]
            /\ sock' = [sock EXCEPT ![s] = IF Ended(f) THEN "leaving" ELSE sock[s]]
            /\ IF Ended(f) THEN HangUp(s) ELSE UNCHANGED <<conn, bucket>>
            /\ UNCHANGED <<row, news>>
      BY <1>0, <1>12, ReceivingIs
    <2>2. Tail(wire[s]) \in Seq(Sendable) /\ <<>> \in Seq(Sendable)
      BY <1>0, <2>1
    <2>3. /\ tab' \in [Tabs -> Hooks] /\ wire' \in [Sockets -> Seq(Sendable)]
          /\ sock' \in [Sockets -> Phases]
      BY <1>0, <2>1, <2>2 DEF Phases
    <2> QED
      BY <1>0, <2>1, <2>3, HangUpKeeps, HandlersRest
  <1>13. ASSUME NEW s \in Sockets, NEW how \in {"leaving", "failing"}, BeginClose(s, how)
         PROVE  StreamInv'
    <2>1. /\ sock' = [sock EXCEPT ![s] = how] /\ wire' = [wire EXCEPT ![s] = <<>>]
          /\ HangUp(s) /\ UNCHANGED <<row, news, tab>>
      BY <1>13 DEF BeginClose
    <2>2. wire' \in [Sockets -> Seq(Sendable)] /\ sock' \in [Sockets -> Phases]
      BY <1>0, <2>1 DEF Phases
    <2> QED
      BY <1>0, <2>1, <2>2, HangUpKeeps
  <1>14. ASSUME NEW s \in Sockets, NEW again \in BOOLEAN, OnClose(s, again) \/ Break(s, again)
         PROVE  StreamInv'
    <2>1. Closes(s, again) /\ UNCHANGED <<row, news>> /\ sock' = [sock EXCEPT ![s] = "none"]
      BY <1>14 DEF OnClose, Break, Closes
    <2>2. PICK j \in Hooks : tab' = [tab EXCEPT ![s[1]] = j]
      BY <1>0, <2>1, ClosingIs
    <2>3. tab' \in [Tabs -> Hooks] /\ sock' \in [Sockets -> Phases]
      BY <1>0, <2>1, <2>2 DEF Phases
    <2>4. CASE OnClose(s, again)
      BY <1>0, <2>1, <2>3, <2>4, HandlersRest DEF OnClose
    <2>5. CASE Break(s, again)
      <3>1. wire' \in [Sockets -> Seq(Sendable)] /\ HangUp(s)
        BY <1>0, <2>5 DEF Break
      <3> QED
        BY <1>0, <2>1, <2>3, <3>1, HangUpKeeps
    <2> QED
      BY <1>14, <2>4, <2>5
  <1>15. ASSUME UNCHANGED progressVars PROVE StreamInv'
    BY <1>0, <1>15, HandlersRest DEF progressVars
  <1> QED
    BY <1>1, <1>2, <1>3, <1>4, <1>5, <1>6, <1>7, <1>8, <1>9, <1>10, <1>11, <1>12,
       <1>13, <1>14, <1>15
       DEF ProgressNext, ReceiveNewer, EndHandler

\* The row of the scan, the sockets, the frames on the wire and the tabs stay in their
\* domains.
THEOREM ProgressTypeCorrect == ProgressSpec => []ProgressTypeOK
  <1>1. StreamInv => ProgressTypeOK
    BY DEF StreamInv
  <1> QED
    BY <1>1, StreamInvInit, StreamInvStep, PTL DEF ProgressSpec

\* A socket that is fed is counted or about to be closed, and no more than the cap are
\* counted, however many tabs open, close and reconnect at the same time, with however many
\* sockets each.
THEOREM FedStreamsAreCounted == ProgressSpec => []StreamsAreCounted
  <1>1. StreamInv => StreamsAreCounted
    BY DEF StreamInv, Counts, InSteps, InBucket, StreamsAreCounted
  <1> QED
    BY <1>1, StreamInvInit, StreamInvStep, PTL DEF ProgressSpec

-------------------------------------------------------------------------------
\* Progress: the order of the frames of a tab.  Every frame, when it is made, says what
\* the row says, and the row only moves on.  While a tab is fed by one socket, what that
\* has still to bring comes after what the tab shows, and its first frame, until it is
\* sent, after all the rest; the others bring nothing more.  Of a tab that is fed by two
\* this is known of each of them, and that the row is ahead of what it shows.

Before(f, g) == f.run < g.run \/ (f.run = g.run /\ f.at <= g.at)

\* l: what a tab shows; w: what it is about to receive; r: the row; first: the frames
\* that are made and not yet sent.
Ordered(l, w, r, first) ==
  /\ \A f, g \in l : f = g
  /\ \A f \in l : Before(f, r)
  /\ \A i \in 1..Len(w) : Before(w[i], r)
  /\ \A i \in 1..Len(w) : w[i] # Newer => \A f \in l : Before(f, w[i])
  /\ \A i, j \in 1..Len(w) : i < j /\ w[j] # Newer => Before(w[i], w[j])
  /\ \A g \in first : /\ Before(g, r)
                      /\ \A f \in l : Before(f, g)
                      /\ \A i \in 1..Len(w) : Before(w[i], g)

Unsent(k) == IF k.pc \in {"read", "registered"} /\ ~k.greeted THEN k.frame ELSE {}

\* What the frames of a socket come after, among the frames that are shown.
ShownBefore(s) == IF tab[s[1]].beside THEN {} ELSE tab[s[1]].last

FramesInOrder(s) == Ordered(ShownBefore(s), wire[s], row, Unsent(conn[s]))

ShownInOrder(t) == Ordered(tab[t].last, <<>>, row, {})

\* Nothing comes from a socket that is closing or closed, but the code that closes it.
Quiet(s) ==
  sock[s] # "live" => conn[s].pc = "none" /\ \A i \in 1..Len(wire[s]) : wire[s][i] = Newer

\* A tab that is not fed by two has one socket at most that lives.
OneFeeds(s) ==
  ~tab[s[1]].beside =>
    \A r \in Sockets : r[1] = s[1] /\ sock[r] = "live" /\ sock[s] = "live" => r = s

OrderInv ==
  /\ StreamInv
  /\ \A f \in news : f.run = row.run /\ f.at = row.at
  /\ \A s \in Sockets : FramesInOrder(s) /\ Quiet(s) /\ OneFeeds(s)
  /\ \A t \in Tabs : ShownInOrder(t)

LEMMA SentHaveNumbers ==
  /\ \A f \in Sendable : f.run \in Nat /\ f.at \in Nat
  /\ \A f \in Frames : f \in Sendable /\ f # Newer
  /\ \A r \in RunRows : r.run \in Nat \ {0} /\ r.at \in Nat
  <1>1. \A f \in Frames : f.run \in Nat /\ f.at \in Nat
    BY ProgressAssumption DEF Frames
  <1>2. \A r \in RunRows : r.run \in Nat \ {0} /\ r.at \in Nat
    BY ProgressAssumption DEF RunRows
  <1> QED
    BY <1>1, <1>2, NewerIsNoFrame DEF Sendable

LEMMA OrderedFewer ==
  ASSUME NEW l, NEW w, NEW r, NEW first, NEW fewer \in SUBSET first, Ordered(l, w, r, first)
  PROVE  Ordered(l, w, r, fewer)
  BY DEF Ordered

LEMMA OrderedLater ==
  ASSUME NEW l \in SUBSET Frames, NEW w \in Seq(Sendable), NEW r \in RunRows, NEW s \in RunRows,
         NEW first \in SUBSET Frames, Ordered(l, w, r, first), Before(r, s)
  PROVE  Ordered(l, w, s, first)
  <1>1. ASSUME NEW f \in Sendable, Before(f, r) PROVE Before(f, s)
    BY <1>1, SentHaveNumbers DEF Before
  <1>2. \A i \in 1..Len(w) : w[i] \in Sendable
    OBVIOUS
  <1>3. \A f \in l \union first : f \in Sendable
    BY SentHaveNumbers
  <1> QED
    BY <1>1, <1>2, <1>3 DEF Ordered

\* A frame that comes after everything.
LEMMA OrderedAppend ==
  ASSUME NEW l \in SUBSET Frames, NEW w \in Seq(Sendable), NEW r, NEW first, NEW x \in Sendable,
         Ordered(l, w, r, first), Before(x, r),
         \A f \in l : Before(f, x), \A i \in 1..Len(w) : Before(w[i], x)
  PROVE  Ordered(l, Append(w, x), r, {})
  <1>1. PICK v : v = Append(w, x)
    OBVIOUS
  <1>2. /\ Len(v) = Len(w) + 1 /\ Len(w) \in Nat /\ v[Len(w) + 1] = x
        /\ \A i \in 1..Len(w) : v[i] = w[i]
    BY <1>1
  <1>3. \A i \in 1..Len(v) : i \in 1..Len(w) \/ i = Len(w) + 1
    BY <1>2
  <1>4. \A i, j \in 1..Len(v) : i < j => i \in 1..Len(w)
    BY <1>2
  <1>5. \A i \in 1..Len(v) : Before(v[i], r) /\ (v[i] # Newer => \A f \in l : Before(f, v[i]))
    BY <1>2, <1>3 DEF Ordered
  <1>6. \A i, j \in 1..Len(v) : i < j /\ v[j] # Newer => Before(v[i], v[j])
    BY <1>2, <1>3, <1>4 DEF Ordered
  <1>7. (\A f, g \in l : f = g) /\ \A f \in l : Before(f, r)
    BY DEF Ordered
  <1> QED
    BY <1>1, <1>5, <1>6, <1>7 DEF Ordered

\* The closing code is no frame.
LEMMA OrderedNewer ==
  ASSUME NEW l \in SUBSET Frames, NEW w \in Seq(Sendable), NEW r \in RunRows,
         NEW first \in SUBSET Frames, Ordered(l, w, r, first)
  PROVE  Ordered(l, Append(w, Newer), r, first)
  <1>1. PICK v : v = Append(w, Newer)
    OBVIOUS
  <1>2. /\ Len(v) = Len(w) + 1 /\ Len(w) \in Nat /\ v[Len(w) + 1] = Newer
        /\ \A i \in 1..Len(w) : v[i] = w[i]
    BY <1>1, NewerIsNoFrame
  <1>3. \A i \in 1..Len(v) : i \in 1..Len(w) \/ i = Len(w) + 1
    BY <1>2
  <1>4. Before(Newer, r) /\ \A g \in first : Before(Newer, g)
    <2>1. Newer.run = 0 /\ r.run \in Nat \ {0}
      BY NewerIsNoFrame, SentHaveNumbers
    <2>2. \A g \in first : g.run \in Nat \ {0}
      BY ProgressAssumption DEF Frames
    <2> QED
      BY <2>1, <2>2 DEF Before
  <1>5. \A i, j \in 1..Len(v) : i < j => i \in 1..Len(w)
    BY <1>2
  <1>6. \A i \in 1..Len(v) : /\ Before(v[i], r) /\ \A g \in first : Before(v[i], g)
                             /\ v[i] # Newer => \A f \in l : Before(f, v[i])
    BY <1>2, <1>3, <1>4 DEF Ordered
  <1>7. \A i, j \in 1..Len(v) : i < j /\ v[j] # Newer => Before(v[i], v[j])
    BY <1>2, <1>3, <1>5 DEF Ordered
  <1>8. /\ (\A f, g \in l : f = g) /\ \A f \in l : Before(f, r)
        /\ \A g \in first : Before(g, r) /\ \A f \in l : Before(f, g)
    BY DEF Ordered
  <1> QED
    BY <1>1, <1>6, <1>7, <1>8 DEF Ordered

\* One that shows nothing.
LEMMA OrderedLess ==
  ASSUME NEW l, NEW w, NEW r, NEW first, Ordered(l, w, r, first)
  PROVE  Ordered({}, w, r, first)
  BY DEF Ordered

\* One that brings nothing but the code that closes it.
LEMMA OrderedQuiet ==
  ASSUME NEW l, NEW v \in Seq(Sendable), NEW r \in RunRows, Ordered(l, <<>>, r, {}),
         \A i \in 1..Len(v) : v[i] = Newer
  PROVE  Ordered(l, v, r, {})
  <1>1. Before(Newer, r)
    <2>1. Newer.run = 0 /\ r.run \in Nat \ {0}
      BY NewerIsNoFrame, SentHaveNumbers
    <2> QED
      BY <2>1 DEF Before
  <1>2. (\A f, g \in l : f = g) /\ \A f \in l : Before(f, r)
    BY DEF Ordered
  <1> QED
    BY <1>1, <1>2 DEF Ordered

LEMMA OrderedEmpty ==
  ASSUME NEW l, NEW w, NEW r, NEW first, Ordered(l, w, r, first)
  PROVE  Ordered(l, <<>>, r, {})
  <1>1. (\A f, g \in l : f = g) /\ \A f \in l : Before(f, r)
    BY DEF Ordered
  <1>2. \A i \in 1..Len(<<>>) : FALSE
    OBVIOUS
  <1> QED
    BY <1>1, <1>2 DEF Ordered

\* The tab shows the first of the frames that it was sent.
LEMMA OrderedTail ==
  ASSUME NEW l \in SUBSET Frames, NEW w \in Seq(Sendable), NEW r, NEW first,
         Ordered(l, w, r, first), w # <<>>, Head(w) # Newer
  PROVE  /\ Ordered({Head(w)}, Tail(w), r, first)
         /\ \A f \in l : Before(f, Head(w))
  <1>1. PICK v : v = Tail(w)
    OBVIOUS
  <1>2. PICK x : x = Head(w)
    OBVIOUS
  <1>3. /\ x = w[1] /\ Len(w) \in Nat /\ 1 \in 1..Len(w) /\ Len(v) = Len(w) - 1
        /\ \A i \in 1..Len(v) : v[i] = w[i + 1]
    BY <1>1, <1>2
  <1>4. \A i \in 1..Len(v) : i \in Nat /\ i + 1 \in 1..Len(w) /\ 1 < i + 1
    BY <1>3
  <1>5. \A i, j \in 1..Len(v) : i < j => i + 1 < j + 1
    OBVIOUS
  <1>6. Before(x, r) /\ \A f \in l : Before(f, x)
    BY <1>2, <1>3 DEF Ordered
  <1>7. \A i \in 1..Len(v) : Before(v[i], r) /\ (v[i] # Newer => Before(x, v[i]))
    BY <1>3, <1>4 DEF Ordered
  <1>8. \A i, j \in 1..Len(v) : i < j /\ v[j] # Newer => Before(v[i], v[j])
    BY <1>3, <1>4, <1>5 DEF Ordered
  <1>9. \A g \in first : Before(g, r) /\ Before(x, g) /\ \A i \in 1..Len(v) : Before(v[i], g)
    BY <1>3, <1>4 DEF Ordered
  <1>10. Ordered({x}, v, r, first)
    BY <1>6, <1>7, <1>8, <1>9 DEF Ordered
  <1> QED
    BY <1>1, <1>2, <1>6, <1>10

\* A frame that says what the row says comes after everything.
LEMMA OrderedNow ==
  ASSUME NEW l \in SUBSET Frames, NEW w \in Seq(Sendable), NEW r \in RunRows, NEW first,
         NEW g \in Frames, Ordered(l, w, r, first), g.run = r.run, g.at = r.at
  PROVE  /\ Ordered(l, w, r, {g}) /\ Before(g, r)
         /\ \A f \in l : Before(f, g)
         /\ \A i \in 1..Len(w) : Before(w[i], g)
  <1>1. Before(g, r) /\ \A f : Before(f, r) => Before(f, g)
    BY SentHaveNumbers DEF Before
  <1>2. /\ \A f \in l : Before(f, g)
        /\ \A i \in 1..Len(w) : Before(w[i], g)
    BY <1>1 DEF Ordered
  <1> QED
    BY <1>1, <1>2 DEF Ordered

LEMMA OrderInvInit == ProgressInit => OrderInv
  <1> SUFFICES ASSUME ProgressInit PROVE OrderInv
    OBVIOUS
  <1>1. /\ news = {} /\ \A t \in Tabs : tab[t].last = {}
        /\ \A s \in Sockets : wire[s] = <<>> /\ conn[s] = NoConn /\ sock[s] = "none"
    BY DEF ProgressInit, NewHook
  <1>2. Unsent(NoConn) = {} /\ NoConn.pc = "none"
    BY DEF Unsent, NoConn
  <1>3. Ordered({}, <<>>, row, {}) /\ \A i \in 1..Len(<<>>) : FALSE
    BY DEF Ordered
  <1>4. ASSUME NEW s \in Sockets PROVE FramesInOrder(s) /\ Quiet(s) /\ OneFeeds(s)
    <2>1. s[1] \in Tabs
      BY DEF Sockets
    <2>2. ShownBefore(s) = {}
      BY <1>1, <2>1 DEF ShownBefore
    <2> QED
      BY <1>1, <1>2, <1>3, <2>2 DEF FramesInOrder, Quiet, OneFeeds
  <1>5. \A t \in Tabs : ShownInOrder(t)
    BY <1>1, <1>3 DEF ShownInOrder
  <1> QED
    BY <1>1, <1>4, <1>5, StreamInvInit DEF OrderInv

\* A handler that ends has nothing left to send.
LEMMA NothingUnsent ==
  ASSUME NEW s
  PROVE  Unsent(Released(s)) = {} /\ Unsent([Released(s) EXCEPT !.pc = "accepted"]) = {}
  BY DEF Unsent, Released, NoConn

LEMMA HangUpUnsent ==
  ASSUME NEW s \in Sockets, HangUp(s), conn \in [Sockets -> ConnRows], NEW u \in Sockets
  PROVE  /\ Unsent(conn'[u]) = (IF u = s THEN {} ELSE Unsent(conn[u]))
         /\ conn'[u].pc = (IF u = s THEN "none" ELSE conn[u].pc)
  <1>1. PICK v \in SUBSET Sockets : v = conn[u].victim \ {s}
    BY DEF ConnRows
  <1>2. PICK j : j = IF u = s THEN Released(s) ELSE conn[u]
    OBVIOUS
  <1>3. conn'[u] = [j EXCEPT !.victim = v]
    BY <1>1, <1>2 DEF HangUp
  <1>4. /\ j \in ConnRows /\ Unsent(j) = IF u = s THEN {} ELSE Unsent(conn[u])
        /\ j.pc = IF u = s THEN "none" ELSE conn[u].pc
    BY <1>2, ReleasedSocket, NothingUnsent
  <1>5. /\ conn'[u].pc = j.pc /\ conn'[u].greeted = j.greeted /\ conn'[u].frame = j.frame
    BY <1>3, <1>4 DEF ConnRows
  <1> QED
    BY <1>4, <1>5 DEF Unsent

\* What is known of the types.
LEMMA OrderTypes ==
  ASSUME OrderInv
  PROVE  /\ row \in RunRows /\ news \subseteq Frames /\ bucket \in Seq(Sockets)
         /\ conn \in [Sockets -> ConnRows] /\ wire \in [Sockets -> Seq(Sendable)]
         /\ sock \in [Sockets -> Phases] /\ tab \in [Tabs -> Hooks]
         /\ \A t \in Tabs : tab[t].last \in SUBSET Frames
         /\ \A s \in Sockets : /\ s[1] \in Tabs /\ ShownBefore(s) \in SUBSET Frames
                               /\ Unsent(conn[s]) \in SUBSET Frames
  <1>1. /\ row \in RunRows /\ news \subseteq Frames /\ bucket \in Seq(Sockets)
        /\ conn \in [Sockets -> ConnRows] /\ wire \in [Sockets -> Seq(Sendable)]
        /\ sock \in [Sockets -> Phases] /\ tab \in [Tabs -> Hooks]
    BY ProgressTypes DEF OrderInv, StreamInv
  <1>2. \A t \in Tabs : tab[t].last \in SUBSET Frames
    BY <1>1 DEF Hooks, HookFields
  <1>3. ASSUME NEW s \in Sockets
        PROVE  /\ s[1] \in Tabs
               /\ ShownBefore(s) \in SUBSET Frames
               /\ Unsent(conn[s]) \in SUBSET Frames
    <2>1. s[1] \in Tabs /\ conn[s] \in ConnRows
      BY <1>1 DEF Sockets
    <2> QED
      BY <1>2, <2>1 DEF ShownBefore, Unsent, ConnRows
  <1> QED
    BY <1>1, <1>2, <1>3

\* The row moves on, and nothing is sent.
LEMMA RowMovesOn ==
  ASSUME OrderInv, UNCHANGED <<conn, wire, sock, tab>>, row' \in RunRows, Before(row, row')
  PROVE  /\ \A s \in Sockets : FramesInOrder(s)' /\ Quiet(s)' /\ OneFeeds(s)'
         /\ \A t \in Tabs : ShownInOrder(t)'
  <1>1. PICK r \in RunRows : r = row' /\ Before(row, r)
    OBVIOUS
  <1>2. ASSUME NEW s \in Sockets PROVE FramesInOrder(s)' /\ Quiet(s)' /\ OneFeeds(s)'
    <2>1. Ordered(ShownBefore(s), wire[s], row, Unsent(conn[s]))
      BY DEF OrderInv, FramesInOrder
    <2>2. Ordered(ShownBefore(s), wire[s], r, Unsent(conn[s]))
      BY <1>1, <2>1, OrderTypes, OrderedLater
    <2>3. ShownBefore(s)' = ShownBefore(s)
      BY DEF ShownBefore
    <2>4. Quiet(s) /\ OneFeeds(s)
      BY DEF OrderInv
    <2> QED
      BY <1>1, <2>2, <2>3, <2>4 DEF FramesInOrder, Quiet, OneFeeds
  <1>3. ASSUME NEW t \in Tabs PROVE ShownInOrder(t)'
    <2>1. Ordered(tab[t].last, <<>>, row, {}) /\ <<>> \in Seq(Sendable)
      BY DEF OrderInv, ShownInOrder
    <2>2. Ordered(tab[t].last, <<>>, r, {})
      BY <1>1, <2>1, OrderTypes, OrderedLater
    <2> QED
      BY <1>1, <2>2 DEF ShownInOrder
  <1> QED
    BY <1>2, <1>3

\* The hooks show what they did, no socket comes to life, and what closes has nothing
\* more to bring.
LEMMA SocketsMove ==
  ASSUME OrderInv, row' = row,
         \A t \in Tabs : tab'[t].last = tab[t].last /\ tab'[t].beside = tab[t].beside,
         \A s \in Sockets :
           /\ sock'[s] = "live" => sock[s] = "live"
           /\ Ordered(ShownBefore(s), wire'[s], row, Unsent(conn'[s]))
           /\ sock'[s] # "live" =>
                conn'[s].pc = "none" /\ \A i \in 1..Len(wire'[s]) : wire'[s][i] = Newer
  PROVE  /\ \A s \in Sockets : FramesInOrder(s)' /\ Quiet(s)' /\ OneFeeds(s)'
         /\ \A t \in Tabs : ShownInOrder(t)'
  <1>1. ASSUME NEW s \in Sockets PROVE FramesInOrder(s)' /\ Quiet(s)' /\ OneFeeds(s)'
    <2>1. s[1] \in Tabs /\ OneFeeds(s)
      BY OrderTypes DEF OrderInv
    <2>2. ShownBefore(s)' = ShownBefore(s)
      BY <2>1 DEF ShownBefore
    <2> QED
      BY <2>1, <2>2 DEF FramesInOrder, Quiet, OneFeeds
  <1>2. \A t \in Tabs : ShownInOrder(t)'
    BY DEF OrderInv, ShownInOrder
  <1> QED
    BY <1>1, <1>2

\* One handler moves.
LEMMA OneHandlerMoves ==
  ASSUME OrderInv, NEW s \in Sockets, NEW k, NEW w, UNCHANGED <<row, sock, tab>>,
         conn' = [conn EXCEPT ![s] = k], wire' = [wire EXCEPT ![s] = w],
         Ordered(ShownBefore(s), w, row, Unsent(k)), conn[s].pc # "none"
  PROVE  /\ \A u \in Sockets : FramesInOrder(u)' /\ Quiet(u)' /\ OneFeeds(u)'
         /\ \A t \in Tabs : ShownInOrder(t)'
  <1>1. sock[s] = "live"
    BY DEF OrderInv, Quiet
  <1>2. ASSUME NEW u \in Sockets
        PROVE  /\ Ordered(ShownBefore(u), wire'[u], row, Unsent(conn'[u]))
               /\ sock[u] # "live" =>
                    conn'[u].pc = "none" /\ \A i \in 1..Len(wire'[u]) : wire'[u][i] = Newer
    <2>1. CASE u = s
      BY <1>1, <2>1, OrderTypes
    <2>2. CASE u # s
      <3>1. conn'[u] = conn[u] /\ wire'[u] = wire[u]
        BY <2>2, OrderTypes
      <3> QED
        BY <3>1 DEF OrderInv, FramesInOrder, Quiet
    <2> QED
      BY <2>1, <2>2
  <1> QED
    BY <1>2, SocketsMove

\* A socket ends, and its handler with it.
LEMMA SocketEnds ==
  ASSUME OrderInv, NEW s \in Sockets, NEW how \in {"none", "leaving", "failing"}, HangUp(s),
         sock' = [sock EXCEPT ![s] = how], wire' = [wire EXCEPT ![s] = <<>>], row' = row,
         \A t \in Tabs : tab'[t].last = tab[t].last /\ tab'[t].beside = tab[t].beside
  PROVE  /\ \A u \in Sockets : FramesInOrder(u)' /\ Quiet(u)' /\ OneFeeds(u)'
         /\ \A t \in Tabs : ShownInOrder(t)'
  <1>1. ASSUME NEW u \in Sockets
        PROVE  /\ sock'[u] = "live" => sock[u] = "live"
               /\ Ordered(ShownBefore(u), wire'[u], row, Unsent(conn'[u]))
               /\ sock'[u] # "live" =>
                    conn'[u].pc = "none" /\ \A i \in 1..Len(wire'[u]) : wire'[u][i] = Newer
    <2>1. /\ Unsent(conn'[u]) = (IF u = s THEN {} ELSE Unsent(conn[u]))
          /\ conn'[u].pc = (IF u = s THEN "none" ELSE conn[u].pc)
      BY OrderTypes, HangUpUnsent
    <2>2. Ordered(ShownBefore(u), wire[u], row, Unsent(conn[u])) /\ Quiet(u)
      BY DEF OrderInv, FramesInOrder
    <2>3. CASE u = s
      <3>1. sock'[u] # "live" /\ wire'[u] = <<>> /\ \A i \in 1..Len(<<>>) : FALSE
        BY <2>3, OrderTypes
      <3>2. Ordered(ShownBefore(u), <<>>, row, {})
        BY <2>2, OrderedEmpty
      <3> QED
        BY <2>1, <2>3, <3>1, <3>2
    <2>4. CASE u # s
      <3>1. sock'[u] = sock[u] /\ wire'[u] = wire[u]
        BY <2>4, OrderTypes
      <3> QED
        BY <2>1, <2>2, <2>4, <3>1 DEF Quiet
    <2> QED
      BY <2>3, <2>4
  <1> QED
    BY <1>1, SocketsMove

\* A socket is opened: beside one that lives nothing is known of the two together, else
\* all the others of the tab have nothing more to bring.
LEMMA SocketOpens ==
  ASSUME OrderInv, NEW s \in Sockets, Reconnect(s) \/ BecomeVisible(s)
  PROVE  /\ \A u \in Sockets : FramesInOrder(u)' /\ Quiet(u)' /\ OneFeeds(u)'
         /\ \A t \in Tabs : ShownInOrder(t)'
         /\ news' = news /\ row' = row
  <1>0. /\ conn \in [Sockets -> ConnRows] /\ tab \in [Tabs -> Hooks] /\ s[1] \in Tabs
        /\ sock \in [Sockets -> Phases] /\ row \in RunRows
        /\ \A u \in Sockets : u[1] \in Tabs /\ wire[u] \in Seq(Sendable)
    BY OrderTypes
  <1>1. PICK k \in ConnRows, j \in Hooks :
          /\ k = [Released(s) EXCEPT !.pc = "accepted"] /\ conn' = [conn EXCEPT ![s] = k]
          /\ tab' = [tab EXCEPT ![s[1]] = j] /\ j.last = tab[s[1]].last
          /\ j.beside = (\E r \in Sockets : r[1] = s[1] /\ sock[r] = "live")
          /\ sock[s] = "none" /\ sock' = [sock EXCEPT ![s] = "live"]
          /\ UNCHANGED <<row, news, bucket, wire>>
          /\ InSteps(k) /\ k.victim = conn[s].victim /\ k.pc = "accepted"
    BY OpeningIs, Zenon DEF OrderInv
  <1>2. /\ Unsent(k) = {}
        /\ \A u \in Sockets : /\ conn'[u] = IF u = s THEN k ELSE conn[u]
                              /\ sock'[u] = IF u = s THEN "live" ELSE sock[u]
    BY <1>0, <1>1, NothingUnsent
  <1>3. \A t \in Tabs : tab'[t] = IF t = s[1] THEN j ELSE tab[t]
    BY <1>0, <1>1
  <1>4. \A t \in Tabs : ShownInOrder(t)'
    BY <1>1, <1>3 DEF OrderInv, ShownInOrder
  <1>5. ASSUME NEW u \in Sockets PROVE FramesInOrder(u)' /\ Quiet(u)' /\ OneFeeds(u)'
    <2>1. Ordered(ShownBefore(u), wire[u], row, Unsent(conn[u])) /\ Quiet(u) /\ OneFeeds(u)
      BY DEF OrderInv, FramesInOrder
    <2>2. Quiet(u)'
      BY <1>1, <1>2, <2>1 DEF Quiet
    <2>3. OneFeeds(u)'
      <3>1. CASE u[1] = s[1]
        BY <1>0, <1>1, <1>2, <1>3, <3>1 DEF OneFeeds
      <3>2. CASE u[1] # s[1]
        BY <1>0, <1>2, <1>3, <2>1, <3>2 DEF OneFeeds
      <3> QED
        BY <3>1, <3>2
    <2>4. Unsent(conn'[u]) \subseteq Unsent(conn[u])
      BY <1>2
    <2>5. Ordered(ShownBefore(u), wire[u], row, Unsent(conn'[u]))
      BY <2>1, <2>4, OrderedFewer
    <2>6. CASE u[1] # s[1]
      <3>1. ShownBefore(u)' = ShownBefore(u)
        BY <1>0, <1>3, <2>6 DEF ShownBefore
      <3> QED
        BY <1>1, <2>2, <2>3, <2>5, <3>1 DEF FramesInOrder
    <2>7. CASE u[1] = s[1] /\ j.beside
      <3>1. ShownBefore(u)' = {}
        BY <1>0, <1>3, <2>7 DEF ShownBefore
      <3>2. Ordered({}, wire[u], row, Unsent(conn'[u]))
        BY <2>5, OrderedLess
      <3> QED
        BY <1>1, <2>2, <2>3, <3>1, <3>2 DEF FramesInOrder
    <2>8. CASE u[1] = s[1] /\ ~j.beside
      <3>1. ShownBefore(u)' = tab[s[1]].last
        BY <1>0, <1>1, <1>3, <2>8 DEF ShownBefore
      <3>2. sock[u] # "live"
        BY <1>1, <2>8
      <3>3. conn[u].pc = "none" /\ \A i \in 1..Len(wire[u]) : wire[u][i] = Newer
        BY <2>1, <3>2 DEF Quiet
      <3>4. Unsent(conn'[u]) = {}
        BY <1>2, <3>3 DEF Unsent
      <3>5. Ordered(tab[s[1]].last, <<>>, row, {})
        BY <1>0 DEF OrderInv, ShownInOrder
      <3>6. Ordered(tab[s[1]].last, wire[u], row, {})
        BY <1>0, <3>3, <3>5, OrderedQuiet
      <3> QED
        BY <1>1, <2>2, <2>3, <3>1, <3>4, <3>6 DEF FramesInOrder
    <2> QED
      BY <2>6, <2>7, <2>8
  <1> QED
    BY <1>1, <1>4, <1>5

\* A frame is shown: the socket that brought it lives, and the others of its tab have
\* nothing more to bring, unless the tab is fed by two.
LEMMA FrameIsShown ==
  ASSUME OrderInv, NEW s \in Sockets, ReceiveFrame(s)
  PROVE  /\ \A u \in Sockets : FramesInOrder(u)' /\ Quiet(u)' /\ OneFeeds(u)'
         /\ \A t \in Tabs : ShownInOrder(t)'
         /\ news' = news /\ row' = row
  <1>0. /\ conn \in [Sockets -> ConnRows] /\ tab \in [Tabs -> Hooks] /\ s[1] \in Tabs
        /\ sock \in [Sockets -> Phases] /\ row \in RunRows
        /\ wire \in [Sockets -> Seq(Sendable)]
        /\ \A u \in Sockets : /\ u[1] \in Tabs /\ wire[u] \in Seq(Sendable)
                              /\ ShownBefore(u) \in SUBSET Frames
    BY OrderTypes
  <1>1. PICK f \in Frames, j \in Hooks :
          /\ f = Head(wire[s]) /\ wire[s] # <<>> /\ f # Newer
          /\ tab' = [tab EXCEPT ![s[1]] = j]
          /\ j.last = {f} /\ j.beside = tab[s[1]].beside
          /\ wire' = [wire EXCEPT ![s] = IF Ended(f) THEN <<>> ELSE Tail(wire[s])]
          /\ sock' = [sock EXCEPT ![s] = IF Ended(f) THEN "leaving" ELSE sock[s]]
          /\ IF Ended(f) THEN HangUp(s) ELSE UNCHANGED <<conn, bucket>>
          /\ UNCHANGED <<row, news>>
    BY <1>0, ReceivingIs, Zenon
  <1>2. /\ \A t \in Tabs : tab'[t] = IF t = s[1] THEN j ELSE tab[t]
        /\ \A u \in Sockets : u # s => wire'[u] = wire[u] /\ sock'[u] = sock[u]
        /\ Ended(f) => wire'[s] = <<>> /\ sock'[s] = "leaving"
        /\ ~Ended(f) => wire'[s] = Tail(wire[s]) /\ sock'[s] = sock[s]
    BY <1>0, <1>1
  <1>3. \A u \in Sockets :
          /\ Unsent(conn'[u]) = (IF u = s /\ Ended(f) THEN {} ELSE Unsent(conn[u]))
          /\ conn'[u].pc = (IF u = s /\ Ended(f) THEN "none" ELSE conn[u].pc)
    <2>1. CASE Ended(f)
      BY <1>0, <1>1, <2>1, HangUpUnsent
    <2>2. CASE ~Ended(f)
      BY <1>1, <2>2
    <2> QED
      BY <2>1, <2>2
  <1>4. sock[s] = "live"
    <2>1. 1 \in 1..Len(wire[s]) /\ wire[s][1] = f
      BY <1>0, <1>1
    <2> QED
      BY <1>1, <2>1 DEF OrderInv, Quiet
  <1>5. Ordered({f}, Tail(wire[s]), row, Unsent(conn[s]))
    BY <1>0, <1>1, OrderedTail DEF OrderInv, FramesInOrder
  <1>6. Ordered({f}, <<>>, row, {})
    BY <1>5, OrderedEmpty
  <1>7. Ordered({f}, wire'[s], row, Unsent(conn'[s]))
    BY <1>2, <1>3, <1>5, <1>6
  <1>8. ASSUME NEW t \in Tabs PROVE ShownInOrder(t)'
    <2>1. CASE t = s[1]
      <3>1. row' = row /\ tab'[t].last = {f}
        BY <1>0, <1>1, <1>2, <2>1
      <3> QED
        BY <1>6, <3>1 DEF ShownInOrder
    <2>2. CASE t # s[1]
      BY <1>1, <1>2, <2>2 DEF OrderInv, ShownInOrder
    <2> QED
      BY <2>1, <2>2
  <1>9. ASSUME NEW u \in Sockets PROVE FramesInOrder(u)' /\ Quiet(u)' /\ OneFeeds(u)'
    <2>1. Ordered(ShownBefore(u), wire[u], row, Unsent(conn[u])) /\ Quiet(u) /\ OneFeeds(u)
      BY DEF OrderInv, FramesInOrder
    <2>2. Quiet(u)'
      <3>1. \A i \in 1..Len(<<>>) : FALSE
        OBVIOUS
      <3>2. CASE u = s
        BY <1>2, <1>3, <1>4, <3>1, <3>2 DEF Quiet
      <3>3. CASE u # s
        BY <1>2, <1>3, <2>1, <3>3 DEF Quiet
      <3> QED
        BY <3>2, <3>3
    <2>3. OneFeeds(u)'
      <3>1. \A r \in Sockets : sock'[r] = "live" => sock[r] = "live"
        BY <1>2, <1>4
      <3>2. tab'[u[1]].beside = tab[u[1]].beside
        BY <1>0, <1>1, <1>2
      <3> QED
        BY <2>1, <3>1, <3>2 DEF OneFeeds
    <2>4. CASE u[1] # s[1]
      <3>1. ShownBefore(u)' = ShownBefore(u)
        BY <1>0, <1>2, <2>4 DEF ShownBefore
      <3>2. u # s
        BY <2>4
      <3> QED
        BY <1>1, <1>2, <1>3, <2>1, <2>2, <2>3, <3>1, <3>2 DEF FramesInOrder
    <2>5. CASE u = s
      <3>1. ShownBefore(u)' = IF j.beside THEN {} ELSE {f}
        BY <1>0, <1>1, <1>2, <2>5 DEF ShownBefore
      <3>2. Ordered({}, wire'[s], row, Unsent(conn'[s]))
        BY <1>7, OrderedLess
      <3> QED
        BY <1>1, <1>7, <2>2, <2>3, <2>5, <3>1, <3>2 DEF FramesInOrder
    <2>6. CASE u # s /\ u[1] = s[1] /\ j.beside
      <3>1. ShownBefore(u)' = {}
        BY <1>0, <1>2, <2>6 DEF ShownBefore
      <3>2. Ordered({}, wire[u], row, Unsent(conn[u]))
        BY <2>1, OrderedLess
      <3> QED
        BY <1>1, <1>2, <1>3, <2>2, <2>3, <2>6, <3>1, <3>2 DEF FramesInOrder
    <2>7. CASE u # s /\ u[1] = s[1] /\ ~j.beside
      <3>1. ShownBefore(u)' = {f}
        BY <1>0, <1>1, <1>2, <2>7 DEF ShownBefore
      <3>2. sock[u] # "live"
        BY <1>1, <1>4, <2>1, <2>7 DEF OneFeeds
      <3>3. conn[u].pc = "none" /\ \A i \in 1..Len(wire[u]) : wire[u][i] = Newer
        BY <2>1, <3>2 DEF Quiet
      <3>4. Unsent(conn'[u]) = {} /\ wire'[u] = wire[u]
        BY <1>2, <1>3, <2>7, <3>3 DEF Unsent
      <3>5. Ordered({f}, wire[u], row, {})
        BY <1>0, <1>6, <3>3, OrderedQuiet
      <3> QED
        BY <1>1, <2>2, <2>3, <3>1, <3>4, <3>5 DEF FramesInOrder
    <2> QED
      BY <2>4, <2>5, <2>6, <2>7
  <1> QED
    BY <1>1, <1>8, <1>9

LEMMA ProgressTypesOfNext == ProgressTypeOK' => row' \in RunRows
  BY DEF ProgressTypeOK, RunRows

LEMMA OrderInvStep ==
  ASSUME OrderInv, [ProgressNext]_progressVars
  PROVE  OrderInv'
  <1>a. /\ row \in RunRows /\ news \subseteq Frames /\ bucket \in Seq(Sockets)
        /\ conn \in [Sockets -> ConnRows] /\ wire \in [Sockets -> Seq(Sendable)]
        /\ sock \in [Sockets -> Phases] /\ tab \in [Tabs -> Hooks]
    BY OrderTypes
  <1>b. \A s \in Sockets : /\ s[1] \in Tabs /\ conn[s] \in ConnRows /\ wire[s] \in Seq(Sendable)
                           /\ ShownBefore(s) \in SUBSET Frames /\ Unsent(conn[s]) \in SUBSET Frames
                           /\ Ordered(ShownBefore(s), wire[s], row, Unsent(conn[s])) /\ Quiet(s)
    BY <1>a, OrderTypes DEF OrderInv, FramesInOrder
  <1>c. row.run \in Nat /\ row.at \in Nat
    BY <1>a, SentHaveNumbers
  <1>d. StreamInv' /\ row' \in RunRows
    BY StreamInvStep, ProgressTypesOfNext DEF OrderInv, StreamInv
  <1> SUFFICES /\ \A f \in news' : f.run = row'.run /\ f.at = row'.at
               /\ \A s \in Sockets : FramesInOrder(s)' /\ Quiet(s)' /\ OneFeeds(s)'
               /\ \A t \in Tabs : ShownInOrder(t)'
    BY <1>d DEF OrderInv
  <1>1. CASE SetStage
    <2>1. /\ row' = [row EXCEPT !.at = row.at + 1] /\ news' = {Frame(row.at + 1, "no")}
          /\ UNCHANGED <<conn, wire, sock, tab>>
      BY <1>1 DEF SetStage
    <2>2. row'.run = row.run /\ row'.at = row.at + 1
      BY <1>a, <2>1 DEF RunRows
    <2>3. Before(row, row')
      BY <1>c, <2>2 DEF Before
    <2> QED
      BY <1>d, <2>1, <2>2, <2>3, RowMovesOn DEF Frame
  <1>2. CASE Succeed \/ Fail
    <2>1. PICK status \in {"succeeded", "failed"} :
            /\ row' = [row EXCEPT !.status = status] /\ news' = {Frame(row.at, status)}
            /\ UNCHANGED <<conn, wire, sock, tab>>
      BY <1>2 DEF Succeed, Fail
    <2>2. row'.run = row.run /\ row'.at = row.at
      BY <1>a, <2>1 DEF RunRows
    <2>3. Before(row, row')
      BY <1>c, <2>2 DEF Before
    <2> QED
      BY <1>d, <2>1, <2>2, <2>3, RowMovesOn DEF Frame
  <1>3. CASE RunAgain
    <2>1. /\ row' = [run |-> row.run + 1, at |-> 0, status |-> "running"] /\ news' = {}
          /\ UNCHANGED <<conn, wire, sock, tab>>
      BY <1>3 DEF RunAgain
    <2>2. Before(row, row')
      BY <1>c, <2>1 DEF Before
    <2> QED
      BY <1>d, <2>1, <2>2, RowMovesOn
  <1>e. ASSUME row' = row, news' = news \/ news' = {}
        PROVE  \A f \in news' : f.run = row'.run /\ f.at = row'.at
    BY <1>e DEF OrderInv
  <1>4. ASSUME NEW sent \in BOOLEAN, Publish(sent)
        PROVE  /\ news' = {} /\ row' = row
               /\ \A s \in Sockets : FramesInOrder(s)' /\ Quiet(s)' /\ OneFeeds(s)'
               /\ \A t \in Tabs : ShownInOrder(t)'
    <2>1. PICK f : f = CHOOSE k \in news : TRUE
      OBVIOUS
    <2>2. /\ news # {} /\ news' = {} /\ UNCHANGED <<row, conn, sock, tab>>
          /\ wire' = [s \in Sockets |->
                       IF sent /\ conn[s].subscribed THEN wire[s] \o <<f>> ELSE wire[s]]
      BY <1>4, <2>1 DEF Publish
    <2>3. f \in Frames /\ f \in Sendable /\ f.run = row.run /\ f.at = row.at
      BY <1>a, <2>1, <2>2 DEF Sendable, OrderInv
    <2>4. ASSUME NEW s \in Sockets
          PROVE  /\ Ordered(ShownBefore(s), wire'[s], row, Unsent(conn[s]))
                 /\ sock[s] # "live" =>
                      conn[s].pc = "none" /\ \A i \in 1..Len(wire'[s]) : wire'[s][i] = Newer
      <3>1. CASE sent /\ conn[s].subscribed
        <4>1. wire'[s] = Append(wire[s], f)
          BY <1>b, <2>2, <2>3, <3>1
        <4>2. Unsent(conn[s]) = {} /\ conn[s].pc # "none"
          BY <3>1 DEF OrderInv, StreamInv, InSteps, Unsent
        <4>3. /\ Before(f, row) /\ \A g \in ShownBefore(s) : Before(g, f)
              /\ \A i \in 1..Len(wire[s]) : Before(wire[s][i], f)
          BY <1>a, <1>b, <2>3, OrderedNow
        <4>4. Ordered(ShownBefore(s), Append(wire[s], f), row, {})
          BY <1>a, <1>b, <2>3, <4>3, OrderedAppend
        <4> QED
          BY <1>b, <4>1, <4>2, <4>4 DEF Quiet
      <3>2. CASE ~(sent /\ conn[s].subscribed)
        BY <1>b, <2>2, <3>2 DEF Quiet
      <3> QED
        BY <3>1, <3>2
    <2> QED
      BY <2>2, <2>4, SocketsMove
  <1>5. ASSUME NEW s \in Sockets, ReadRow(s)
        PROVE  /\ news' = news /\ row' = row
               /\ \A u \in Sockets : FramesInOrder(u)' /\ Quiet(u)' /\ OneFeeds(u)'
               /\ \A t \in Tabs : ShownInOrder(t)'
    <2>1. PICK g : g = Frame(row.at, "no")
      OBVIOUS
    <2>2. g \in Frames /\ g.run = row.run /\ g.at = row.at
      BY <1>a, <2>1 DEF Frame, Frames, RunRows
    <2>3. PICK k : k = [conn[s] EXCEPT !.pc = "read", !.frame = {g}]
      OBVIOUS
    <2>4. /\ conn' = [conn EXCEPT ![s] = k] /\ UNCHANGED <<row, news, wire, sock, tab>>
          /\ conn[s].pc = "accepted"
      BY <1>a, <1>5, <2>1, <2>3 DEF ReadRow
    <2>5. Unsent(k) \subseteq {g}
      BY <1>b, <2>3 DEF ConnRows, Unsent
    <2>6. Ordered(ShownBefore(s), wire[s], row, {g})
      BY <1>a, <1>b, <2>2, OrderedNow
    <2>7. Ordered(ShownBefore(s), wire[s], row, Unsent(k))
      BY <2>5, <2>6, OrderedFewer
    <2>8. wire' = [wire EXCEPT ![s] = wire[s]]
      BY <1>a, <2>4
    <2> QED
      BY <2>4, <2>7, <2>8, OneHandlerMoves
  <1>6. ASSUME NEW s \in Sockets, Register(s)
        PROVE  /\ news' = news /\ row' = row
               /\ \A u \in Sockets : FramesInOrder(u)' /\ Quiet(u)' /\ OneFeeds(u)'
               /\ \A t \in Tabs : ShownInOrder(t)'
    <2>1. PICK v : v = IF Len(Append(bucket, s)) > Cap
                       THEN conn[s].victim \union {Head(Append(bucket, s))} ELSE conn[s].victim
      OBVIOUS
    <2>2. PICK k : k = [conn[s] EXCEPT !.pc = "registered", !.victim = v]
      OBVIOUS
    <2>3. /\ conn[s].pc = "read" /\ conn' = [conn EXCEPT ![s] = k]
          /\ UNCHANGED <<row, news, wire, sock, tab>>
      BY <1>a, <1>6, <2>1, <2>2 DEF Register
    <2>4. Unsent(k) = Unsent(conn[s])
      BY <1>b, <2>2, <2>3 DEF ConnRows, Unsent
    <2>5. wire' = [wire EXCEPT ![s] = wire[s]]
      BY <1>a, <2>3
    <2> QED
      BY <1>b, <2>3, <2>4, <2>5, OneHandlerMoves
  <1>7. ASSUME NEW s \in Sockets, CloseEvicted(s)
        PROVE  /\ news' = news /\ row' = row
               /\ \A u \in Sockets : FramesInOrder(u)' /\ Quiet(u)' /\ OneFeeds(u)'
               /\ \A t \in Tabs : ShownInOrder(t)'
    <2>1. PICK closed : closed = conn[s].victim
      OBVIOUS
    <2>2. PICK k : k = [conn[s] EXCEPT !.victim = {}]
      OBVIOUS
    <2>3. \A u \in Sockets :
            /\ conn'[u] = IF u \in closed THEN Released(u) ELSE IF u = s THEN k ELSE conn[u]
            /\ wire'[u] = IF u \in closed THEN Append(wire[u], Newer) ELSE wire[u]
      BY <1>7, <2>1, <2>2 DEF CloseEvicted
    <2>4. UNCHANGED <<row, news, sock, tab>>
      BY <1>7 DEF CloseEvicted
    <2>5. Unsent(k) = Unsent(conn[s]) /\ k.pc = conn[s].pc
      <3>1. k.pc = conn[s].pc /\ k.greeted = conn[s].greeted /\ k.frame = conn[s].frame
        BY <1>b, <2>2 DEF ConnRows
      <3> QED
        BY <3>1 DEF Unsent
    <2>6. ASSUME NEW u \in Sockets
          PROVE  /\ Ordered(ShownBefore(u), wire'[u], row, Unsent(conn'[u]))
                 /\ sock[u] # "live" =>
                      conn'[u].pc = "none" /\ \A i \in 1..Len(wire'[u]) : wire'[u][i] = Newer
      <3>1. CASE u \in closed
        <4>1. Ordered(ShownBefore(u), Append(wire[u], Newer), row, Unsent(conn[u]))
          BY <1>a, <1>b, OrderedNewer
        <4>2. Ordered(ShownBefore(u), Append(wire[u], Newer), row, {})
          BY <4>1, OrderedFewer
        <4>3. PICK w : w = Append(wire[u], Newer)
          OBVIOUS
        <4>4. /\ Len(w) = Len(wire[u]) + 1 /\ Len(wire[u]) \in Nat
              /\ \A i \in 1..Len(w) : w[i] = Newer \/ (i \in 1..Len(wire[u]) /\ w[i] = wire[u][i])
          BY <1>b, <4>3, NewerIsNoFrame
        <4>5. wire'[u] = w /\ conn'[u] = Released(u) /\ Released(u).pc = "none"
          BY <1>b, <2>3, <3>1, <4>3, ReleasedSocket
        <4>6. sock[u] # "live" => \A i \in 1..Len(w) : w[i] = Newer
          BY <1>b, <4>4 DEF Quiet
        <4> QED
          BY <4>2, <4>3, <4>5, <4>6, NothingUnsent
      <3>2. CASE u \notin closed
        BY <1>b, <2>3, <2>5, <3>2 DEF Quiet
      <3> QED
        BY <3>1, <3>2
    <2> QED
      BY <2>4, <2>6, SocketsMove
  <1>8. ASSUME NEW s \in Sockets, Greet(s)
        PROVE  /\ news' = news /\ row' = row
               /\ \A u \in Sockets : FramesInOrder(u)' /\ Quiet(u)' /\ OneFeeds(u)'
               /\ \A t \in Tabs : ShownInOrder(t)'
    <2>1. PICK g : g = CHOOSE k \in conn[s].frame : TRUE
      OBVIOUS
    <2>2. PICK k : k = [conn[s] EXCEPT !.greeted = TRUE, !.frame = {}]
      OBVIOUS
    <2>3. /\ conn[s].pc = "registered" /\ ~conn[s].greeted
          /\ wire' = [wire EXCEPT ![s] = wire[s] \o <<g>>] /\ UNCHANGED <<row, news, sock, tab>>
      BY <1>8, <2>1 DEF Greet
    <2>4. conn' = [conn EXCEPT ![s] = k]
      <3>1. conn' = [conn EXCEPT ![s].greeted = TRUE, ![s].frame = {}]
        BY <1>8 DEF Greet
      <3> QED
        BY <1>a, <2>2, <3>1
    <2>5. g \in Unsent(conn[s]) /\ g \in Sendable
      <3>1. conn[s].frame # {} /\ Unsent(conn[s]) = conn[s].frame
        BY <2>3 DEF OrderInv, StreamInv, InSteps, Unsent
      <3> QED
        BY <1>b, <2>1, <3>1 DEF Sendable
    <2>6. Unsent(k) = {} /\ wire[s] \o <<g>> = Append(wire[s], g)
      <3>1. PICK none \in SUBSET Frames : none = {}
        OBVIOUS
      <3>2. k.greeted
        BY <1>b, <2>2, <3>1 DEF ConnRows
      <3> QED
        BY <1>b, <2>5, <3>2 DEF Unsent
    <2>7. /\ Before(g, row) /\ \A f \in ShownBefore(s) : Before(f, g)
          /\ \A i \in 1..Len(wire[s]) : Before(wire[s][i], g)
      BY <1>b, <2>5 DEF Ordered
    <2>8. Ordered(ShownBefore(s), Append(wire[s], g), row, {})
      BY <1>a, <1>b, <2>5, <2>7, OrderedAppend
    <2> QED
      BY <2>3, <2>4, <2>6, <2>8, OneHandlerMoves
  <1>9. ASSUME NEW s \in Sockets, Subscribe(s)
        PROVE  /\ news' = news /\ row' = row
               /\ \A u \in Sockets : FramesInOrder(u)' /\ Quiet(u)' /\ OneFeeds(u)'
               /\ \A t \in Tabs : ShownInOrder(t)'
    <2>1. PICK k : k = [conn[s] EXCEPT !.subscribed = TRUE]
      OBVIOUS
    <2>2. /\ conn' = [conn EXCEPT ![s] = k] /\ UNCHANGED <<row, news, wire, sock, tab>>
          /\ conn[s].pc = "registered"
      BY <1>a, <1>9, <2>1 DEF Subscribe
    <2>3. Unsent(k) = Unsent(conn[s])
      <3>1. k.pc = conn[s].pc /\ k.greeted = conn[s].greeted /\ k.frame = conn[s].frame
        BY <1>b, <2>1 DEF ConnRows
      <3> QED
        BY <3>1 DEF Unsent
    <2>4. wire' = [wire EXCEPT ![s] = wire[s]]
      BY <1>a, <2>2
    <2> QED
      BY <1>b, <2>2, <2>3, <2>4, OneHandlerMoves
  <1>10. ASSUME NEW s \in Sockets, NEW how \in {"leaving", "failing"}, BeginClose(s, how)
         PROVE  /\ news' = news /\ row' = row
                /\ \A u \in Sockets : FramesInOrder(u)' /\ Quiet(u)' /\ OneFeeds(u)'
                /\ \A t \in Tabs : ShownInOrder(t)'
    BY <1>10, SocketEnds DEF BeginClose
  <1>11. ASSUME NEW s \in Sockets, NEW again \in BOOLEAN, OnClose(s, again) \/ Break(s, again)
         PROVE  /\ news' = news /\ row' = row
                /\ \A u \in Sockets : FramesInOrder(u)' /\ Quiet(u)' /\ OneFeeds(u)'
                /\ \A t \in Tabs : ShownInOrder(t)'
    <2>1. Closes(s, again) /\ UNCHANGED <<row, news>> /\ sock' = [sock EXCEPT ![s] = "none"]
      BY <1>11 DEF OnClose, Break, Closes
    <2>2. PICK j \in Hooks : /\ tab' = [tab EXCEPT ![s[1]] = j]
                             /\ j.last = tab[s[1]].last /\ j.beside = tab[s[1]].beside
      BY <1>a, <2>1, ClosingIs
    <2>3. \A t \in Tabs : tab'[t].last = tab[t].last /\ tab'[t].beside = tab[t].beside
      BY <1>a, <2>2
    <2>4. CASE OnClose(s, again)
      <3>1. UNCHANGED <<conn, wire>> /\ sock[s] # "live"
        BY <2>4 DEF OnClose
      <3>2. \A u \in Sockets : sock'[u] = "live" <=> sock[u] = "live"
        BY <1>a, <2>1, <3>1
      <3> QED
        BY <1>b, <2>1, <2>3, <3>1, <3>2, SocketsMove DEF Quiet
    <2>5. CASE Break(s, again)
      BY <2>1, <2>3, <2>5, SocketEnds DEF Break
    <2> QED
      BY <1>11, <2>4, <2>5
  <1>12. ASSUME UNCHANGED progressVars
         PROVE  /\ news' = news /\ row' = row
                /\ \A u \in Sockets : FramesInOrder(u)' /\ Quiet(u)' /\ OneFeeds(u)'
                /\ \A t \in Tabs : ShownInOrder(t)'
    BY <1>12 DEF progressVars, OrderInv, FramesInOrder, ShownBefore, Quiet, OneFeeds, ShownInOrder
  <1> QED
    BY <1>1, <1>2, <1>3, <1>4, <1>5, <1>6, <1>7, <1>8, <1>9, <1>10, <1>11, <1>12, <1>e,
       SocketOpens, FrameIsShown
       DEF ProgressNext, ReceiveNewer, EndHandler

\* Only a frame that is received changes what a tab shows.
LEMMA OnlyFramesAreShown ==
  ASSUME OrderInv, [ProgressNext]_progressVars, NEW t \in Tabs
  PROVE  \/ tab'[t].last = tab[t].last
         \/ \E s \in Sockets : s[1] = t /\ ReceiveFrame(s)
  <1>0. tab \in [Tabs -> Hooks] /\ wire \in [Sockets -> Seq(Sendable)]
    BY OrderTypes
  <1>1. ASSUME NEW s \in Sockets, Reconnect(s) \/ BecomeVisible(s)
        PROVE  tab'[t].last = tab[t].last
    <2>1. PICK k \in ConnRows, j \in Hooks :
            /\ k = [Released(s) EXCEPT !.pc = "accepted"] /\ conn' = [conn EXCEPT ![s] = k]
            /\ tab' = [tab EXCEPT ![s[1]] = j] /\ j.last = tab[s[1]].last
            /\ j.beside = (\E r \in Sockets : r[1] = s[1] /\ sock[r] = "live")
            /\ sock[s] = "none" /\ sock' = [sock EXCEPT ![s] = "live"]
            /\ UNCHANGED <<row, news, bucket, wire>>
            /\ InSteps(k) /\ k.victim = conn[s].victim /\ k.pc = "accepted"
      BY <1>1, OpeningIs, Zenon DEF OrderInv
    <2> QED
      BY <1>0, <2>1
  <1>2. ASSUME NEW s \in Sockets, ReceiveFrame(s), s[1] # t
        PROVE  tab'[t].last = tab[t].last
    <2>1. PICK j : tab' = [tab EXCEPT ![s[1]] = j]
      BY <1>0, <1>2, ReceivingIs
    <2> QED
      BY <1>0, <1>2, <2>1
  <1>3. ASSUME NEW s \in Sockets, NEW again \in BOOLEAN, OnClose(s, again) \/ Break(s, again)
        PROVE  tab'[t].last = tab[t].last
    <2>1. Closes(s, again)
      BY <1>3 DEF OnClose, Break
    <2>2. PICK j \in Hooks : tab' = [tab EXCEPT ![s[1]] = j] /\ j.last = tab[s[1]].last
      BY <1>0, <2>1, ClosingIs
    <2> QED
      BY <1>0, <2>2
  <1>4. ASSUME \/ SetStage \/ Succeed \/ Fail \/ RunAgain
               \/ \E sent \in BOOLEAN : Publish(sent)
               \/ \E s \in Sockets : \/ ReadRow(s) \/ Register(s) \/ CloseEvicted(s)
                                     \/ Greet(s) \/ Subscribe(s) \/ ReceiveNewer(s)
                                     \/ \E how \in {"leaving", "failing"} : EndHandler(s, how)
               \/ UNCHANGED progressVars
        PROVE  tab' = tab
    BY <1>4 DEF SetStage, Succeed, Fail, RunAgain, Publish, ReadRow, Register, CloseEvicted,
                Greet, Subscribe, ReceiveNewer, EndHandler, BeginClose, progressVars
  <1> QED
    BY <1>1, <1>2, <1>3, <1>4 DEF ProgressNext

\* The percentage that a tab shows never falls during one run of the pipeline, however many
\* of its sockets were lost, evicted, closing and opened again, unless it was fed by two.
THEOREM PercentsNeverFall == ProgressSpec => PercentNeverFalls
  <1>1. ASSUME OrderInv, [ProgressNext]_progressVars, NEW t \in Tabs, ~tab[t].beside,
               NEW f \in tab[t].last, NEW g \in tab'[t].last, f.run = g.run
        PROVE  f.at <= g.at
    <2>1. /\ f \in Frames /\ Ordered(tab[t].last, <<>>, row, {})
          /\ tab \in [Tabs -> Hooks] /\ wire \in [Sockets -> Seq(Sendable)]
      BY <1>1, OrderTypes DEF OrderInv, ShownInOrder
    <2>2. f.run \in Nat /\ f.at \in Nat
      BY <2>1, SentHaveNumbers
    <2>3. CASE tab'[t].last = tab[t].last
      BY <1>1, <2>1, <2>2, <2>3 DEF Ordered
    <2>4. CASE \E s \in Sockets : s[1] = t /\ ReceiveFrame(s)
      <3>1. PICK s \in Sockets : s[1] = t /\ ReceiveFrame(s)
        BY <2>4
      <3>2. PICK x : x = Head(wire[s]) /\ wire[s] # <<>> /\ x # Newer /\ tab'[t].last = {x}
        <4>1. PICK x \in Frames, j \in Hooks :
                /\ x = Head(wire[s]) /\ wire[s] # <<>> /\ x # Newer
                /\ tab' = [tab EXCEPT ![s[1]] = j]
                /\ j.last = {x} /\ j.beside = tab[s[1]].beside
                /\ wire' = [wire EXCEPT ![s] = IF Ended(x) THEN <<>> ELSE Tail(wire[s])]
                /\ sock' = [sock EXCEPT ![s] = IF Ended(x) THEN "leaving" ELSE sock[s]]
                /\ IF Ended(x) THEN HangUp(s) ELSE UNCHANGED <<conn, bucket>>
                /\ UNCHANGED <<row, news>>
          BY <2>1, <3>1, ReceivingIs, Zenon
        <4> QED
          BY <2>1, <3>1, <4>1
      <3>3. ShownBefore(s) = tab[t].last
        BY <1>1, <3>1 DEF ShownBefore
      <3>4. Before(f, x)
        BY <1>1, <3>2, <3>3, OrderTypes, OrderedTail DEF OrderInv, FramesInOrder
      <3> QED
        BY <1>1, <2>2, <3>2, <3>4 DEF Before
    <2> QED
      BY <1>1, <2>3, <2>4, OnlyFramesAreShown
  <1>2. OrderInv /\ [ProgressNext]_progressVars =>
          [\A t \in Tabs : \A f \in tab[t].last, g \in tab'[t].last :
             ~tab[t].beside /\ f.run = g.run => f.at <= g.at]_progressVars
    BY <1>1
  <1> QED
    BY <1>2, OrderInvInit, OrderInvStep, PTL DEF ProgressSpec, PercentNeverFalls

===============================================================================
