------------------------- MODULE ScanLifecycleProofs --------------------------
(***************************************************************************)
(* Proofs about ScanLifecycle for every set of scans, projects and         *)
(* workers, every choice of kinds and faults, and any number of faults;    *)
(* and what it promises to the readers of the scans table while deliveries *)
(* do not overlap.                                                         *)
(***************************************************************************)
EXTENDS ScanLifecycle, TLAPS

\* The rows a pipeline stores are rows of the report.
LEMMA WritesInReport == \A op \in DOMAIN Writes : Writes[op] \subseteq Report
  BY DEF Writes, Report

\* The state a worker slot is left in is a state of a worker slot.
LEMMA IdleType == Idle \in Slots
  BY DEF Idle, Slots, Statuses

\* The next position of a worker slot is a state of it.
LEMMA AdvanceType ==
  ASSUME NEW slot \in Slots
  PROVE  [slot EXCEPT !.at = @ + 1] \in Slots
  BY DEF Slots

\* Every variable of the scan service stays in its domain, whatever the
\* number of scans, workers and faults.
THEOREM TypeCorrect == Spec => []TypeOK
  <1> USE DEF TypeOK, rowVars
  <1>1. Init => TypeOK
    BY ConstantsAssumption, IdleType DEF Init, Statuses, InFlight, Terminal
  <1>2. TypeOK /\ [Next]_vars => TypeOK'
    <2> SUFFICES ASSUME TypeOK, [Next]_vars PROVE TypeOK'
      OBVIOUS
    <2> USE ConstantsAssumption, IdleType
    <2>1. ASSUME NEW s \in Scans, RequestStep(s) PROVE TypeOK'
      <3>1. CASE Trigger(s)
        BY <3>1 DEF Trigger, Statuses, InFlight, Terminal
      <3>2. CASE Enqueue(s)
        BY <3>2 DEF Enqueue
      <3>3. CASE EnqueueRefused(s)
        BY <3>3 DEF EnqueueRefused
      <3>4. CASE EnqueueReplyLost(s)
        BY <3>4 DEF EnqueueReplyLost, Strike
      <3>5. CASE StoreTaskId(s)
        BY <3>5 DEF StoreTaskId
      <3>6. CASE MarkEnqueueFailed(s)
        BY <3>6 DEF MarkEnqueueFailed, Statuses, Terminal
      <3>7. CASE ApiCrash(s)
        BY <3>7 DEF ApiCrash, Strike
      <3> QED
        BY <2>1, <3>1, <3>2, <3>3, <3>4, <3>5, <3>6, <3>7 DEF RequestStep
    <2>2. ASSUME NEW s \in Scans, AdminStep(s) PROVE TypeOK'
      <3>1. CASE LockAndRevoke(s)
        BY <3>1 DEF LockAndRevoke
      <3>2. CASE CommitCancel(s)
        BY <3>2 DEF CommitCancel, Statuses, Terminal
      <3>3. CASE AbortCancel(s)
        BY <3>3 DEF AbortCancel, Strike
      <3> QED
        BY <2>2, <3>1, <3>2, <3>3 DEF AdminStep
    <2>3. ASSUME NEW w \in Workers, NEW s \in Scans, MessageStep(w, s)
          PROVE TypeOK'
      <3>1. CASE Deliver(w, s)
        BY <3>1 DEF Deliver, Turn, Slots
      <3>2. CASE Discard(w, s)
        BY <3>2 DEF Discard
      <3>3. CASE RevokeArrives(w, s)
        BY <3>3 DEF RevokeArrives
      <3> QED
        BY <2>3, <3>1, <3>2, <3>3 DEF MessageStep
    <2>4. ASSUME NEW w \in Workers, TaskStep(w) PROVE TypeOK'
      <3> USE DEF Turn, GoTo
      <3>0. "none" \in Statuses /\ InFlight \subseteq Statuses
            /\ Terminal \subseteq Statuses
        BY DEF Statuses
      <3>1. CASE RejectBare(w)
        BY <3>0, <3>1 DEF RejectBare, Terminal, Slots
      <3>2. CASE MarkRunning(w)
        BY <3>0, <3>2 DEF MarkRunning, InFlight, Stages, Slots
      <3>3. CASE Collide(w)
        BY <3>0, <3>3 DEF Collide, Slots
      <3>4. CASE SetStage(w)
        BY <3>4, AdvanceType DEF SetStage, Advance
      <3>5. CASE Persist(w)
        BY <3>5, WritesInReport, AdvanceType DEF Persist, Advance
      <3>6. CASE Raise(w)
        BY <3>0, <3>6 DEF Raise, Slots
      <3>7. CASE Succeed(w)
        BY <3>0, <3>7 DEF Succeed, Terminal, Stages, Slots
      <3>8. CASE RecordFailure(w)
        BY <3>0, <3>8 DEF RecordFailure, Terminal, Slots
      <3>9. CASE Ack(w)
        BY <3>9 DEF Ack
      <3> QED
        BY <2>4, <3>1, <3>2, <3>3, <3>4, <3>5, <3>6, <3>7, <3>8, <3>9
           DEF TaskStep
    <2>5. ASSUME NEW w \in Workers, FaultStep(w) PROVE TypeOK'
      <3>1. CASE WorkerCrash(w)
        BY <3>1 DEF WorkerCrash, Strike, Turn
      <3>2. CASE HardLimit(w)
        BY <3>2 DEF HardLimit, Strike, Turn
      <3>3. CASE Redeliver(w)
        BY <3>3 DEF Redeliver, Strike
      <3> QED
        BY <2>5, <3>1, <3>2, <3>3 DEF FaultStep
    <2>6. CASE UNCHANGED vars
      BY <2>6 DEF vars
    <2> QED
      BY <2>1, <2>2, <2>3, <2>4, <2>5, <2>6 DEF Next
  <1> QED
    BY <1>1, <1>2, PTL DEF Spec

-----------------------------------------------------------------------------
(***************************************************************************)
(* One scan in flight per project.  A step writes the status of at most    *)
(* one scan, and writes an in-flight one only where the index allows it.   *)
(***************************************************************************)

\* A busy slot is busy with a scan.
BusyHasScan ==
  \A w \in Workers :
    IF worker[w].pc = "idle" THEN worker[w] = Idle
                             ELSE worker[w].scan \in Scans

\* BusyHasScan holds always.
LEMMA BusyHasScanInvariant == Spec => []BusyHasScan
  <1>1. Init => BusyHasScan
    BY DEF Init, BusyHasScan, Idle
  <1>2. TypeOK /\ BusyHasScan /\ [Next]_vars => BusyHasScan'
    <2> SUFFICES ASSUME TypeOK, BusyHasScan, [Next]_vars
                 PROVE  BusyHasScan'
      OBVIOUS
    <2> USE DEF TypeOK, BusyHasScan
    <2>0. CASE worker' = worker
      BY <2>0
    <2>1. ASSUME NEW w \in Workers, NEW s \in Scans, MessageStep(w, s)
          PROVE  BusyHasScan'
      <3>1. CASE Deliver(w, s)
        BY <3>1 DEF Deliver, Turn
      <3>2. CASE Discard(w, s)
        BY <2>0, <3>2 DEF Discard
      <3>3. CASE RevokeArrives(w, s)
        BY <3>3 DEF RevokeArrives, Idle
      <3> QED
        BY <2>1, <3>1, <3>2, <3>3 DEF MessageStep
    <2>2. ASSUME NEW w \in Workers, TaskStep(w)
          PROVE  BusyHasScan'
      <3>1. CASE Ack(w)
        BY <3>1 DEF Ack, Turn, Idle
      <3>2. CASE MarkRunning(w)
        BY <3>2 DEF MarkRunning, Turn
      <3>3. CASE SetStage(w) \/ Persist(w)
        BY <3>3 DEF SetStage, Persist, Advance, Turn, Slots
      <3>4. CASE RejectBare(w) \/ Collide(w) \/ Raise(w) \/ Succeed(w)
                 \/ RecordFailure(w)
        BY <3>4 DEF RejectBare, Collide, Raise, Succeed, RecordFailure,
                    GoTo, Turn
      <3> QED
        BY <2>2, <3>1, <3>2, <3>3, <3>4 DEF TaskStep
    <2>3. ASSUME NEW w \in Workers, FaultStep(w)
          PROVE  BusyHasScan'
      BY <2>3 DEF FaultStep, WorkerCrash, HardLimit, Redeliver, Turn, Idle
    <2>4. ASSUME NEW s \in Scans, RequestStep(s) \/ AdminStep(s)
          PROVE  worker' = worker
      BY <2>4 DEF RequestStep, Trigger, Enqueue, EnqueueRefused,
                  EnqueueReplyLost, StoreTaskId, MarkEnqueueFailed, ApiCrash,
                  AdminStep, LockAndRevoke, CommitCancel, AbortCancel
    <2>5. CASE UNCHANGED vars
      BY <2>0, <2>5 DEF vars
    <2> QED
      BY <2>0, <2>1, <2>2, <2>3, <2>4, <2>5 DEF Next
  <1> QED
    BY <1>1, <1>2, TypeCorrect, PTL DEF Spec

\* A step writes the status of at most one scan.  It writes an in-flight one
\* only to a scan that is free to be in flight.
StatusWrite ==
  \/ status' = status
  \/ \E s \in Scans, v \in Statuses \ {"none"} :
       /\ status' = [status EXCEPT ![s] = v]
       /\ v \in InFlight => status[s] = v \/ Free(s)

\* Every step of the scan service is such a write.
LEMMA StepWritesOneStatus ==
  ASSUME TypeOK, BusyHasScan, [Next]_vars
  PROVE  StatusWrite
  <1> USE DEF TypeOK
  <1>0. /\ InFlight \subseteq Statuses \ {"none"}
        /\ Terminal \subseteq Statuses \ {"none"}
        /\ InFlight \intersect Terminal = {}
    BY DEF Statuses, InFlight, Terminal
  <1>1. ASSUME NEW s \in Scans, RequestStep(s) PROVE StatusWrite
    <2>1. CASE Trigger(s)
      BY <1>0, <2>1 DEF Trigger, StatusWrite, InFlight
    <2>2. CASE MarkEnqueueFailed(s)
      BY <1>0, <2>2 DEF MarkEnqueueFailed, StatusWrite, Terminal
    <2>3. CASE Enqueue(s) \/ EnqueueRefused(s) \/ EnqueueReplyLost(s)
               \/ StoreTaskId(s) \/ ApiCrash(s)
      BY <2>3 DEF Enqueue, EnqueueRefused, EnqueueReplyLost, StoreTaskId,
                  ApiCrash, StatusWrite, rowVars
    <2> QED
      BY <1>1, <2>1, <2>2, <2>3 DEF RequestStep
  <1>2. ASSUME NEW s \in Scans, AdminStep(s) PROVE StatusWrite
    <2>1. CASE CommitCancel(s)
      BY <1>0, <2>1 DEF CommitCancel, StatusWrite, Terminal
    <2>2. CASE LockAndRevoke(s) \/ AbortCancel(s)
      BY <2>2 DEF LockAndRevoke, AbortCancel, StatusWrite, rowVars
    <2> QED
      BY <1>2, <2>1, <2>2 DEF AdminStep
  <1>3. ASSUME NEW w \in Workers, NEW s \in Scans, MessageStep(w, s)
        PROVE  StatusWrite
    BY <1>3 DEF MessageStep, Deliver, Discard, RevokeArrives, StatusWrite,
                rowVars
  <1>4. ASSUME NEW w \in Workers, TaskStep(w) PROVE StatusWrite
    <2>0. worker[w].pc # "idle" => worker[w].scan \in Scans
      BY DEF BusyHasScan
    <2>1. CASE MarkRunning(w)
      <3>1. CASE worker[w].seen = "running"
        BY <2>1, <3>1 DEF MarkRunning, StatusWrite
      <3>2. CASE worker[w].seen # "running"
        BY <1>0, <2>0, <2>1, <3>2 DEF MarkRunning, StatusWrite, InFlight
      <3> QED
        BY <3>1, <3>2
    <2>2. CASE Succeed(w)
      BY <1>0, <2>0, <2>2 DEF Succeed, StatusWrite, Terminal
    <2>3. CASE RejectBare(w)
      BY <1>0, <2>0, <2>3 DEF RejectBare, StatusWrite, Terminal
    <2>4. CASE RecordFailure(w)
      BY <1>0, <2>0, <2>4 DEF RecordFailure, StatusWrite, Terminal
    <2>5. CASE Collide(w) \/ SetStage(w) \/ Persist(w) \/ Raise(w) \/ Ack(w)
      BY <2>5 DEF Collide, SetStage, Persist, Raise, Ack, StatusWrite, rowVars
    <2> QED
      BY <1>4, <2>1, <2>2, <2>3, <2>4, <2>5 DEF TaskStep
  <1>5. ASSUME NEW w \in Workers, FaultStep(w) PROVE StatusWrite
    BY <1>5 DEF FaultStep, WorkerCrash, HardLimit, Redeliver, StatusWrite,
                rowVars
  <1>6. CASE UNCHANGED vars
    BY <1>6 DEF vars, StatusWrite
  <1> QED
    BY <1>1, <1>2, <1>3, <1>4, <1>5, <1>6 DEF Next

\* A project never has two scans in flight, whatever is delivered twice,
\* re-run after a crash, cancelled, or marked failed late.
THEOREM OneActive == Spec => []OneActivePerProject
  <1>1. Init => OneActivePerProject
    BY DEF Init, OneActivePerProject, InFlight
  <1>2. TypeOK /\ BusyHasScan /\ OneActivePerProject /\ [Next]_vars
          => OneActivePerProject'
    <2> SUFFICES ASSUME TypeOK, BusyHasScan, OneActivePerProject, [Next]_vars
                 PROVE  OneActivePerProject'
      OBVIOUS
    <2>1. StatusWrite
      BY StepWritesOneStatus
    <2>2. CASE status' = status
      BY <2>2 DEF OneActivePerProject
    <2>3. ASSUME NEW s \in Scans, NEW v \in Statuses \ {"none"},
                 status' = [status EXCEPT ![s] = v],
                 v \in InFlight => status[s] = v \/ Free(s)
          PROVE  OneActivePerProject'
      <3> SUFFICES ASSUME NEW q \in Scans, NEW r \in Scans,
                          ProjectOf[q] = ProjectOf[r],
                          status'[q] \in InFlight, status'[r] \in InFlight
                   PROVE  q = r
        BY DEF OneActivePerProject
      <3>1. CASE v \in InFlight /\ Free(s)
        BY <2>3, <3>1 DEF OneActivePerProject, Free, TypeOK
      <3>2. CASE v \notin InFlight \/ status[s] = v
        BY <2>3, <3>2 DEF OneActivePerProject, TypeOK
      <3> QED
        BY <2>3, <3>1, <3>2
    <2> QED
      BY <2>1, <2>2, <2>3 DEF StatusWrite
  <1> QED
    BY <1>1, <1>2, TypeCorrect, BusyHasScanInvariant, PTL DEF Spec

-----------------------------------------------------------------------------
(***************************************************************************)
(* A queued scan has not run.  Inductive with two more facts: nothing      *)
(* stirs before the INSERT, and an execution that found its scan queued    *)
(* did not read 'running', so its UPDATE carries the status.               *)
(***************************************************************************)

Untriggered(s) ==
  status[s] = "none" =>
    /\ rows[s] = {} /\ step[s] = "none" /\ api[s] = "idle"
    /\ s \notin queue /\ s \notin cancelling
    /\ \A w \in Workers : ~Holds(w, s)

Fresh(s) ==
  status[s] = "queued" =>
    /\ rows[s] = {} /\ step[s] = "none"
    /\ \A w \in Workers : Holds(w, s) =>
         \/ worker[w].pc = "failing"
         \/ worker[w].pc = "read" /\ worker[w].seen # "running"

QueuedIsLatest ==
  \A s \in Scans : status[s] = "queued" => latest[ProjectOf[s]] = s

FreshInv == \A s \in Scans : Untriggered(s) /\ Fresh(s)

\* FreshInv holds always.
LEMMA FreshInvariant == Spec => []FreshInv
  <1>1. Init => FreshInv
    BY ConstantsAssumption
       DEF Init, FreshInv, Untriggered, Fresh, Holds, Idle
  <1>2. TypeOK /\ BusyHasScan /\ FreshInv /\ [Next]_vars => FreshInv'
    <2> SUFFICES ASSUME TypeOK, BusyHasScan, FreshInv, [Next]_vars,
                        NEW s \in Scans
                 PROVE  Untriggered(s)' /\ Fresh(s)'
      BY DEF FreshInv
    <2> USE DEF TypeOK
    <2>0. /\ Untriggered(s) /\ Fresh(s)
          /\ NoScan # s
          /\ \A w \in Workers : worker[w].pc = "idle" => ~Holds(w, s)
      BY ConstantsAssumption DEF FreshInv, BusyHasScan, Holds, Idle
    <2> USE <2>0 DEF Untriggered, Fresh, Holds
    <2>1. ASSUME NEW r \in Scans, RequestStep(r)
          PROVE  Untriggered(s)' /\ Fresh(s)'
      <3>1. CASE Trigger(r)
        BY <3>1 DEF Trigger
      <3>2. CASE MarkEnqueueFailed(r)
        BY <3>2 DEF MarkEnqueueFailed
      <3>3. CASE Enqueue(r) \/ EnqueueRefused(r) \/ EnqueueReplyLost(r)
        BY <3>3 DEF Enqueue, EnqueueRefused, EnqueueReplyLost, rowVars
      <3>4. CASE StoreTaskId(r) \/ ApiCrash(r)
        BY <3>4 DEF StoreTaskId, ApiCrash, rowVars
      <3> QED
        BY <2>1, <3>1, <3>2, <3>3, <3>4 DEF RequestStep
    <2>2. ASSUME NEW r \in Scans, AdminStep(r)
          PROVE  Untriggered(s)' /\ Fresh(s)'
      BY <2>2 DEF AdminStep, LockAndRevoke, CommitCancel, AbortCancel,
                  rowVars, InFlight
    <2>3. ASSUME NEW w \in Workers, NEW r \in Scans, MessageStep(w, r)
          PROVE  Untriggered(s)' /\ Fresh(s)'
      <3>1. CASE Deliver(w, r)
        BY <3>1 DEF Deliver, Turn, rowVars
      <3>2. CASE Discard(w, r)
        BY <3>2 DEF Discard, rowVars
      <3>3. CASE RevokeArrives(w, r)
        BY <3>3 DEF RevokeArrives, Idle, rowVars
      <3> QED
        BY <2>3, <3>1, <3>2, <3>3 DEF MessageStep
    <2>4. ASSUME NEW w \in Workers, TaskStep(w)
          PROVE  Untriggered(s)' /\ Fresh(s)'
      <3>1. CASE MarkRunning(w)
        BY <3>1 DEF MarkRunning, Turn
      <3>2. CASE SetStage(w) \/ Persist(w)
        <4>1. CASE SetStage(w)
          BY <4>1 DEF SetStage, Advance, Turn, Slots
        <4>2. CASE Persist(w)
          BY <4>2 DEF Persist, Advance, Turn, Slots
        <4> QED
          BY <3>2, <4>1, <4>2
      <3>3. CASE Succeed(w) \/ RejectBare(w) \/ RecordFailure(w)
        BY <3>3 DEF Succeed, RejectBare, RecordFailure, GoTo, Turn
      <3>4. CASE Collide(w) \/ Raise(w)
        BY <3>4 DEF Collide, Raise, GoTo, Turn, rowVars
      <3>5. CASE Ack(w)
        BY <3>5 DEF Ack, Turn, Idle, rowVars
      <3> QED
        BY <2>4, <3>1, <3>2, <3>3, <3>4, <3>5 DEF TaskStep
    <2>5. ASSUME NEW w \in Workers, FaultStep(w)
          PROVE  Untriggered(s)' /\ Fresh(s)'
      BY <2>5 DEF FaultStep, WorkerCrash, HardLimit, Redeliver, Turn, Idle,
                  rowVars
    <2>6. CASE UNCHANGED vars
      BY <2>6 DEF vars
    <2> QED
      BY <2>1, <2>2, <2>3, <2>4, <2>5, <2>6 DEF Next
  <1> QED
    BY <1>1, <1>2, TypeCorrect, BusyHasScanInvariant, PTL DEF Spec

\* QueuedIsLatest holds always.
LEMMA QueuedIsLatestInvariant == Spec => []QueuedIsLatest
  <1>1. Init => QueuedIsLatest
    BY DEF Init, QueuedIsLatest
  <1>2. TypeOK /\ QueuedIsLatest /\ [Next]_vars => QueuedIsLatest'
    <2> SUFFICES ASSUME TypeOK, QueuedIsLatest, [Next]_vars
                 PROVE  QueuedIsLatest'
      OBVIOUS
    <2> USE DEF TypeOK, QueuedIsLatest
    <2>1. ASSUME NEW r \in Scans, Trigger(r) PROVE QueuedIsLatest'
      <3> SUFFICES ASSUME NEW s \in Scans, status'[s] = "queued"
                   PROVE  latest'[ProjectOf[s]] = s
        OBVIOUS
      <3>1. CASE s = r
        BY <2>1, <3>1, ConstantsAssumption DEF Trigger
      <3>2. CASE s # r
        <4>1. status[s] = "queued" /\ latest[ProjectOf[s]] = s
          BY <2>1, <3>2 DEF Trigger
        <4>2. ProjectOf[s] # ProjectOf[r]
          BY <2>1, <3>2, <4>1 DEF Trigger, Free, InFlight
        <4> QED
          BY <2>1, <4>1, <4>2, ConstantsAssumption DEF Trigger
      <3> QED
        BY <3>1, <3>2
    <2>2. ASSUME NEW r \in Scans, RequestStep(r), ~Trigger(r)
          PROVE  QueuedIsLatest'
      BY <2>2 DEF RequestStep, Enqueue, EnqueueRefused, EnqueueReplyLost,
                  StoreTaskId, MarkEnqueueFailed, ApiCrash, rowVars
    <2>3. ASSUME NEW r \in Scans, AdminStep(r) PROVE QueuedIsLatest'
      BY <2>3 DEF AdminStep, LockAndRevoke, CommitCancel, AbortCancel, rowVars
    <2>4. ASSUME NEW w \in Workers, NEW r \in Scans, MessageStep(w, r)
          PROVE  QueuedIsLatest'
      BY <2>4 DEF MessageStep, Deliver, Discard, RevokeArrives, rowVars
    <2>5. ASSUME NEW w \in Workers, TaskStep(w) PROVE QueuedIsLatest'
      BY <2>5 DEF TaskStep, RejectBare, MarkRunning, Collide, SetStage,
                  Persist, Raise, Succeed, RecordFailure, Ack, rowVars
    <2>6. ASSUME NEW w \in Workers, FaultStep(w) PROVE QueuedIsLatest'
      BY <2>6 DEF FaultStep, WorkerCrash, HardLimit, Redeliver, rowVars
    <2>7. CASE UNCHANGED vars
      BY <2>7 DEF vars
    <2> QED
      BY <2>1, <2>2, <2>3, <2>4, <2>5, <2>6, <2>7 DEF Next
  <1> QED
    BY <1>1, <1>2, TypeCorrect, PTL DEF Spec

\* What the board shows as queued is the project's latest scan, shows nothing
\* of another execution, and has no execution past its first transaction.
THEOREM QueuedFresh == Spec => []QueuedIsFresh
  <1>1. FreshInv /\ QueuedIsLatest => QueuedIsFresh
    BY DEF FreshInv, Fresh, QueuedIsLatest, QueuedIsFresh
  <1> QED
    BY <1>1, FreshInvariant, QueuedIsLatestInvariant, PTL

-----------------------------------------------------------------------------
(***************************************************************************)
(* Nobody is left stranded, when no request dies half way and no task is   *)
(* killed by its time limit.  Inductive with: a task is only ever revoked  *)
(* on behalf of a cancel that is committed, or still holds the row.        *)
(***************************************************************************)

NoStranding == Faults \intersect StrandingFaults = {}

RevokedIsCancelled(s) ==
  \A w \in Workers :
    <<w, s>> \in revokes \union revoked => s \in cancelling \union audited

HasOwner(s) == status[s] \in InFlight => Owned(s) \/ s \in audited

OwnedInv == NoStranding => \A s \in Scans : RevokedIsCancelled(s) /\ HasOwner(s)

\* OwnedInv holds always.
LEMMA OwnedInvariant == Spec => []OwnedInv
  <1>1. Init => OwnedInv
    BY DEF Init, OwnedInv, RevokedIsCancelled, HasOwner, InFlight
  <1>2. TypeOK /\ BusyHasScan /\ OwnedInv /\ [Next]_vars => OwnedInv'
    <2> SUFFICES ASSUME TypeOK, BusyHasScan, OwnedInv, [Next]_vars,
                        NoStranding, NEW s \in Scans
                 PROVE  RevokedIsCancelled(s)' /\ HasOwner(s)'
      BY DEF OwnedInv, NoStranding
    <2> USE DEF TypeOK, RevokedIsCancelled, HasOwner, Owned, Holds, InFlight
    <2> DEFINE Goal == RevokedIsCancelled(s)' /\ HasOwner(s)'
    <2>0. /\ RevokedIsCancelled(s) /\ HasOwner(s)
          /\ NoScan # s
          /\ "api_crash" \notin Faults /\ "time_limit" \notin Faults
      BY ConstantsAssumption DEF OwnedInv, NoStranding, StrandingFaults
    <2> USE <2>0
    <2>1. ASSUME NEW r \in Scans, RequestStep(r) PROVE Goal
      BY <2>1 DEF RequestStep, Trigger, Enqueue, EnqueueRefused,
                  EnqueueReplyLost, StoreTaskId, MarkEnqueueFailed, ApiCrash,
                  Strike, rowVars
    <2>2. ASSUME NEW r \in Scans, AdminStep(r) PROVE Goal
      <3>1. CASE LockAndRevoke(r)
        <4>1. \A w \in Workers :
                <<w, s>> \in revokes' => <<w, s>> \in revokes \/ s = r
          BY <3>1 DEF LockAndRevoke
        <4> QED
          BY <3>1, <4>1 DEF LockAndRevoke, rowVars
      <3>2. CASE CommitCancel(r)
        BY <3>2 DEF CommitCancel
      <3>3. CASE AbortCancel(r)
        BY <3>3 DEF AbortCancel, Strike
      <3> QED
        BY <2>2, <3>1, <3>2, <3>3 DEF AdminStep
    <2>3. ASSUME NEW w \in Workers, NEW r \in Scans, MessageStep(w, r)
          PROVE  Goal
      <3>1. CASE Deliver(w, r)
        BY <3>1 DEF Deliver, Turn, Idle, rowVars
      <3>2. CASE Discard(w, r)
        BY <3>2 DEF Discard, rowVars
      <3>3. CASE RevokeArrives(w, r)
        BY <3>3 DEF RevokeArrives, Idle, rowVars
      <3> QED
        BY <2>3, <3>1, <3>2, <3>3 DEF MessageStep
    <2>4. ASSUME NEW w \in Workers, TaskStep(w) PROVE Goal
      <3>1. CASE MarkRunning(w)
        BY <3>1 DEF MarkRunning, Turn
      <3>2. CASE SetStage(w) \/ Persist(w)
        <4>1. CASE SetStage(w)
          BY <4>1 DEF SetStage, Advance, Turn, Slots
        <4>2. CASE Persist(w)
          BY <4>2 DEF Persist, Advance, Turn, Slots
        <4> QED
          BY <3>2, <4>1, <4>2
      <3>3. CASE Succeed(w) \/ RejectBare(w) \/ RecordFailure(w)
        BY <3>3 DEF Succeed, RejectBare, RecordFailure, GoTo, Turn
      <3>4. CASE Collide(w) \/ Raise(w)
        BY <3>4 DEF Collide, Raise, GoTo, Turn, rowVars
      <3>5. CASE Ack(w)
        BY <3>5 DEF Ack, Turn, Idle, rowVars
      <3> QED
        BY <2>4, <3>1, <3>2, <3>3, <3>4, <3>5 DEF TaskStep
    <2>5. ASSUME NEW w \in Workers, FaultStep(w) PROVE Goal
      BY <2>5 DEF FaultStep, WorkerCrash, HardLimit, Redeliver, Strike, Turn,
                  Idle, rowVars
    <2>6. CASE UNCHANGED vars
      BY <2>6 DEF vars
    <2> QED
      BY <2>1, <2>2, <2>3, <2>4, <2>5, <2>6 DEF Next
  <1> QED
    BY <1>1, <1>2, TypeCorrect, BusyHasScanInvariant, PTL DEF Spec

\* Crashes, redeliveries and lost replies leave no scan queued or running
\* with nobody to move it, except one that an admin cancelled.
THEOREM NoneStranded == Spec => []NothingStranded
  <1>1. OwnedInv => NothingStranded
    BY DEF OwnedInv, HasOwner, NoStranding, NothingStranded
  <1> QED
    BY <1>1, OwnedInvariant, PTL

-----------------------------------------------------------------------------
(***************************************************************************)
(* When deliveries do not overlap, success is final.  Inductive with: an   *)
(* execution is alone with its scan; a request that has yet to enqueue, or *)
(* failed to, has no execution; an execution that has yet to write its     *)
(* outcome does not face a succeeded scan; the row an admin holds is in    *)
(* flight.                                                                 *)
(***************************************************************************)

Alone(s) ==
  \A w \in Workers : Holds(w, s) =>
    s \notin queue /\ \A v \in Workers : Holds(v, s) => v = w

NotSent(s) ==
  api[s] \in {"inserted", "failing"} =>
    /\ s \notin queue /\ status[s] # "succeeded"
    /\ \A w \in Workers : ~Holds(w, s)

Unfinished(s) ==
  \A w \in Workers :
    Holds(w, s) /\ worker[w].pc \in {"read", "pipe", "failing"} =>
      status[s] # "succeeded"

LockedInFlight(s) == s \in cancelling => status[s] \in InFlight

OnceInv ==
  OnceAtATime =>
    \A s \in Scans :
      Alone(s) /\ NotSent(s) /\ Unfinished(s) /\ LockedInFlight(s)

\* OnceInv holds always.
LEMMA OnceInvariant == Spec => []OnceInv
  <1>1. Init => OnceInv
    BY ConstantsAssumption
       DEF Init, OnceInv, Alone, NotSent, Unfinished, LockedInFlight, Holds,
           Idle
  <1>2. TypeOK /\ BusyHasScan /\ FreshInv /\ OnceInv /\ [Next]_vars
          => OnceInv'
    <2> SUFFICES ASSUME TypeOK, BusyHasScan, FreshInv, OnceInv, [Next]_vars,
                        OnceAtATime, NEW s \in Scans
                 PROVE  /\ Alone(s)' /\ NotSent(s)' /\ Unfinished(s)'
                        /\ LockedInFlight(s)'
      BY DEF OnceInv, OnceAtATime
    <2> USE DEF TypeOK, Alone, NotSent, Unfinished, LockedInFlight, Holds,
                InFlight
    <2> DEFINE Goal == /\ Alone(s)' /\ NotSent(s)' /\ Unfinished(s)'
                       /\ LockedInFlight(s)'
    <2>0. /\ Alone(s) /\ NotSent(s) /\ Unfinished(s) /\ LockedInFlight(s)
          /\ NoScan # s
          /\ "overlap" \notin Faults /\ "lost_reply" \notin Faults
          /\ status[s] = "none" => /\ s \notin queue
                                 /\ \A w \in Workers : ~Holds(w, s)
      BY ConstantsAssumption
         DEF OnceInv, OnceAtATime, FreshInv, Untriggered
    <2> USE <2>0
    <2>1. ASSUME NEW r \in Scans, RequestStep(r) PROVE Goal
      <3>1. CASE Trigger(r)
        BY <3>1 DEF Trigger
      <3>2. CASE MarkEnqueueFailed(r)
        BY <3>2 DEF MarkEnqueueFailed, Unlocked
      <3>3. CASE Enqueue(r)
        BY <3>3 DEF Enqueue, rowVars
      <3>4. CASE EnqueueRefused(r) \/ EnqueueReplyLost(r) \/ StoreTaskId(r)
                 \/ ApiCrash(r)
        BY <3>4 DEF EnqueueRefused, EnqueueReplyLost, StoreTaskId, ApiCrash,
                    Strike, rowVars
      <3> QED
        BY <2>1, <3>1, <3>2, <3>3, <3>4 DEF RequestStep
    <2>2. ASSUME NEW r \in Scans, AdminStep(r) PROVE Goal
      BY <2>2 DEF AdminStep, LockAndRevoke, CommitCancel, AbortCancel, rowVars
    <2>3. ASSUME NEW w \in Workers, NEW r \in Scans, MessageStep(w, r)
          PROVE  Goal
      <3>1. CASE Deliver(w, r)
        BY <3>1 DEF Deliver, Turn, Idle, rowVars
      <3>2. CASE Discard(w, r)
        BY <3>2 DEF Discard, rowVars
      <3>3. CASE RevokeArrives(w, r)
        BY <3>3 DEF RevokeArrives, Idle, rowVars
      <3> QED
        BY <2>3, <3>1, <3>2, <3>3 DEF MessageStep
    <2>4. ASSUME NEW w \in Workers, TaskStep(w) PROVE Goal
      <3>1. CASE MarkRunning(w)
        <4>1. CASE worker[w].scan = s
          <5>1. /\ Alone(s)' /\ NotSent(s)'
            BY <3>1, <4>1 DEF MarkRunning, Turn
          <5>2. /\ Unfinished(s)' /\ LockedInFlight(s)'
            BY <3>1, <4>1 DEF MarkRunning, Turn, Unlocked
          <5> QED
            BY <5>1, <5>2
        <4>2. CASE worker[w].scan # s
          <5>1. /\ status'[s] = status[s] /\ queue' = queue /\ api' = api
                /\ cancelling' = cancelling
            BY <3>1, <4>2 DEF MarkRunning
          <5>2. \A v \in Workers : Holds(v, s)' =>
                  Holds(v, s) /\ worker'[v] = worker[v]
            BY <3>1, <4>2 DEF MarkRunning, Turn
          <5> QED
            BY <5>1, <5>2
        <4> QED
          BY <4>1, <4>2
      <3>2. CASE SetStage(w) \/ Persist(w)
        <4>1. /\ status' = status /\ queue' = queue /\ api' = api
              /\ cancelling' = cancelling
          BY <3>2 DEF SetStage, Persist
        <4>2. \A v \in Workers : /\ worker'[v].scan = worker[v].scan
                                 /\ worker'[v].pc = worker[v].pc
          BY <3>2 DEF SetStage, Persist, Advance, Turn, Slots
        <4> QED
          BY <4>1, <4>2
      <3>3. CASE Succeed(w) \/ RejectBare(w) \/ RecordFailure(w)
        BY <3>3 DEF Succeed, RejectBare, RecordFailure, GoTo, Turn, Unlocked
      <3>4. CASE Collide(w) \/ Raise(w)
        BY <3>4 DEF Collide, Raise, GoTo, Turn, rowVars
      <3>5. CASE Ack(w)
        BY <3>5 DEF Ack, Turn, Idle, rowVars
      <3> QED
        BY <2>4, <3>1, <3>2, <3>3, <3>4, <3>5 DEF TaskStep
    <2>5. ASSUME NEW w \in Workers, FaultStep(w) PROVE Goal
      BY <2>5 DEF FaultStep, WorkerCrash, HardLimit, Redeliver, Strike, Turn,
                  Idle, rowVars
    <2>6. CASE UNCHANGED vars
      BY <2>6 DEF vars
    <2> QED
      BY <2>1, <2>2, <2>3, <2>4, <2>5, <2>6 DEF Next
  <1> QED
    BY <1>1, <1>2, TypeCorrect, BusyHasScanInvariant, FreshInvariant, PTL
       DEF Spec

\* A scan is executed by one worker at a time, and its message is not waiting
\* meanwhile, unless the broker delivers over a running execution.
THEOREM ExecutedOnceAtATime == Spec => []OneExecution
  <1>1. OnceInv => OneExecution
    BY DEF OnceInv, Alone, OneExecution
  <1> QED
    BY <1>1, OnceInvariant, PTL

\* No re-run, cancel or late request takes a success back or touches its
\* report, unless the broker delivers over a running execution.
THEOREM SuccessIsFinal == Spec => SucceededIsFinal
  <1> DEFINE Final == OnceAtATime =>
               \A s \in Scans : status[s] = "succeeded" =>
                 status'[s] = "succeeded" /\ rows'[s] = rows[s]
  <1>1. TypeOK /\ BusyHasScan /\ OnceInv /\ [Next]_vars => Final
    <2> SUFFICES ASSUME TypeOK, BusyHasScan, OnceInv, [Next]_vars,
                        OnceAtATime, NEW s \in Scans, status[s] = "succeeded"
                 PROVE  status'[s] = "succeeded" /\ rows'[s] = rows[s]
      OBVIOUS
    <2> USE DEF TypeOK, Holds
    <2>0. /\ api[s] # "failing" /\ s \notin cancelling
          /\ \A w \in Workers : Holds(w, s) =>
               worker[w].pc \notin {"read", "pipe", "failing"}
      BY DEF OnceInv, NotSent, Unfinished, LockedInFlight, InFlight
    <2>1. ASSUME NEW r \in Scans, RequestStep(r) \/ AdminStep(r)
          PROVE  status'[s] = "succeeded" /\ rows'[s] = rows[s]
      BY <2>0, <2>1
         DEF RequestStep, Trigger, Enqueue, EnqueueRefused, EnqueueReplyLost,
             StoreTaskId, MarkEnqueueFailed, ApiCrash, AdminStep,
             LockAndRevoke, CommitCancel, AbortCancel, rowVars
    <2>2. ASSUME NEW w \in Workers, NEW r \in Scans, MessageStep(w, r)
          PROVE  status'[s] = "succeeded" /\ rows'[s] = rows[s]
      BY <2>2 DEF MessageStep, Deliver, Discard, RevokeArrives, rowVars
    <2>3. ASSUME NEW w \in Workers, TaskStep(w)
          PROVE  status'[s] = "succeeded" /\ rows'[s] = rows[s]
      BY <2>0, <2>3
         DEF TaskStep, RejectBare, MarkRunning, Collide, SetStage, Persist,
             Raise, Succeed, RecordFailure, Ack, rowVars
    <2>4. ASSUME NEW w \in Workers, FaultStep(w)
          PROVE  status'[s] = "succeeded" /\ rows'[s] = rows[s]
      BY <2>4 DEF FaultStep, WorkerCrash, HardLimit, Redeliver, rowVars
    <2>5. CASE UNCHANGED vars
      BY <2>5 DEF vars, rowVars
    <2> QED
      BY <2>1, <2>2, <2>3, <2>4, <2>5 DEF Next
  <1> QED
    BY <1>1, TypeCorrect, BusyHasScanInvariant, OnceInvariant, PTL
       DEF Spec, SucceededIsFinal

-------------------------------------------------------------------------------
(***************************************************************************)
(* What ScanLifecycle promises to the readers of the scans table while     *)
(* deliveries do not overlap: a scan that succeeded shows its whole report *)
(* (CompleteSuccess), and every step is a step of ScanBoard or leaves the  *)
(* board alone (RefinesBoard).                                             *)
(***************************************************************************)

(***************************************************************************)
(* The pipelines: they end in "succeed", and what comes before has stored  *)
(* the whole report.                                                       *)
(***************************************************************************)

\* The operations before position n have their rows.
Stored(s, n) ==
  \A i \in 1..(n - 1) :
    Pipeline(s)[i] \in DOMAIN Writes => Writes[Pipeline(s)[i]] \subseteq rows[s]

\* A pipeline ends in its success, which stores nothing and reports no stage.
LEMMA PipelineEnds ==
  ASSUME NEW s \in Scans
  PROVE  /\ \A n \in 1..Len(Pipeline(s)) :
              Pipeline(s)[n] = "succeed" <=> n = Len(Pipeline(s))
         /\ "succeed" \notin Stages \union DOMAIN Writes
         /\ Stages \intersect DOMAIN Writes = {}
         /\ Len(Pipeline(s)) \in Nat \ {0}
  BY DEF Pipeline, SourcePipeline, ContainerPipeline, Stages, Writes

\* Whoever has come to the end of its pipeline has stored the whole report.
LEMMA StoredAtEnd ==
  ASSUME NEW s \in Scans, Stored(s, Len(Pipeline(s)))
  PROVE  Report \subseteq rows[s]
  <1>1. CASE KindOf[s] = "source"
    <2>1. Pipeline(s) = SourcePipeline /\ Len(Pipeline(s)) = 11
      BY <1>1 DEF Pipeline, SourcePipeline
    <2>2. /\ 6 \in 1..(Len(Pipeline(s)) - 1) /\ 9 \in 1..(Len(Pipeline(s)) - 1)
      BY <2>1
    <2>3. SourcePipeline[6] = "put_components" /\ SourcePipeline[9] = "put_findings"
      BY DEF SourcePipeline
    <2>4. /\ Writes["put_components"] = {"components"}
          /\ Writes["put_findings"] = {"findings"}
          /\ {"put_components", "put_findings"} \subseteq DOMAIN Writes
      BY DEF Writes
    <2> QED
      BY <2>1, <2>2, <2>3, <2>4 DEF Stored, Report
  <1>2. CASE KindOf[s] # "source"
    <2>1. Pipeline(s) = ContainerPipeline /\ Len(Pipeline(s)) = 6
      BY <1>2 DEF Pipeline, ContainerPipeline
    <2>2. 4 \in 1..(Len(Pipeline(s)) - 1)
      BY <2>1
    <2>3. ContainerPipeline[4] = "put_report"
      BY DEF ContainerPipeline
    <2>4. /\ Writes["put_report"] = {"components", "findings"}
          /\ "put_report" \in DOMAIN Writes
      BY DEF Writes
    <2> QED
      BY <2>1, <2>2, <2>3, <2>4 DEF Stored, Report
  <1> QED
    BY <1>1, <1>2

-----------------------------------------------------------------------------
(***************************************************************************)
(* What an execution knows of its scan.  While it is in the pipeline, or   *)
(* found the scan running, the scan is running or an admin cancelled it;   *)
(* and the operations it has behind it have their rows.                    *)
(***************************************************************************)

InRun(s) ==
  \A w \in Workers :
    /\ Holds(w, s)
    /\ \/ worker[w].pc = "pipe"
       \/ worker[w].pc = "read" /\ worker[w].seen = "running"
    => status[s] \in {"running", "cancelled"}

Placed(s) ==
  \A w \in Workers : Holds(w, s) /\ worker[w].pc = "pipe" =>
    worker[w].at \in 1..Len(Pipeline(s)) /\ Stored(s, worker[w].at)

Whole(s) ==
  status[s] = "succeeded" => rows[s] = Report /\ step[s] = "finalize"

RunInv == OnceAtATime => \A s \in Scans : InRun(s)

ReportInv == OnceAtATime => \A s \in Scans : Placed(s) /\ Whole(s)

\* RunInv holds always: a run past its reading finds its scan running or cancelled.
LEMMA RunInvariant == Spec => []RunInv
  <1>1. Init => RunInv
    BY ConstantsAssumption DEF Init, RunInv, InRun, Holds, Idle
  <1>2. TypeOK /\ BusyHasScan /\ OnceInv /\ RunInv /\ [Next]_vars => RunInv'
    <2> SUFFICES ASSUME TypeOK, BusyHasScan, OnceInv, RunInv, [Next]_vars,
                        OnceAtATime, NEW s \in Scans
                 PROVE  InRun(s)'
      BY DEF RunInv, OnceAtATime
    <2> USE DEF TypeOK, InRun, Holds
    <2>0. /\ InRun(s) /\ Alone(s) /\ NotSent(s) /\ LockedInFlight(s)
          /\ NoScan # s
          /\ "overlap" \notin Faults /\ "lost_reply" \notin Faults
      BY ConstantsAssumption DEF RunInv, OnceInv, OnceAtATime
    <2> USE <2>0 DEF Alone, NotSent, LockedInFlight
    <2>1. ASSUME NEW r \in Scans, RequestStep(r) PROVE InRun(s)'
      <3>1. CASE Trigger(r)
        BY <3>1 DEF Trigger, InFlight
      <3>2. CASE MarkEnqueueFailed(r)
        BY <3>2 DEF MarkEnqueueFailed
      <3>3. CASE \/ Enqueue(r) \/ EnqueueRefused(r) \/ EnqueueReplyLost(r)
                 \/ StoreTaskId(r) \/ ApiCrash(r)
        BY <3>3 DEF Enqueue, EnqueueRefused, EnqueueReplyLost, StoreTaskId,
                    ApiCrash, rowVars
      <3> QED
        BY <2>1, <3>1, <3>2, <3>3 DEF RequestStep
    <2>2. ASSUME NEW r \in Scans, AdminStep(r) PROVE InRun(s)'
      BY <2>2 DEF AdminStep, LockAndRevoke, CommitCancel, AbortCancel, rowVars
    <2>3. ASSUME NEW w \in Workers, NEW r \in Scans, MessageStep(w, r)
          PROVE  InRun(s)'
      BY <2>3 DEF MessageStep, Deliver, Discard, RevokeArrives, Turn, Idle,
                  rowVars
    <2>4. ASSUME NEW w \in Workers, TaskStep(w) PROVE InRun(s)'
      <3>1. CASE MarkRunning(w)
        <4>1. CASE worker[w].scan = s
          BY <3>1, <4>1 DEF MarkRunning, Turn
        <4>2. CASE worker[w].scan # s
          BY <3>1, <4>2 DEF MarkRunning, Turn
        <4> QED
          BY <4>1, <4>2
      <3>2. CASE SetStage(w) \/ Persist(w)
        <4>1. status' = status
          BY <3>2 DEF SetStage, Persist
        <4>2. \A v \in Workers : /\ worker'[v].scan = worker[v].scan
                                 /\ worker'[v].pc = worker[v].pc
                                 /\ worker'[v].seen = worker[v].seen
          BY <3>2 DEF SetStage, Persist, Advance, Turn, Slots
        <4> QED
          BY <4>1, <4>2
      <3>3. CASE Succeed(w) \/ RejectBare(w) \/ RecordFailure(w)
        BY <3>3 DEF Succeed, RejectBare, RecordFailure, GoTo, Turn, BusyHasScan
      <3>4. CASE Collide(w) \/ Raise(w) \/ Ack(w)
        BY <3>4 DEF Collide, Raise, Ack, GoTo, Turn, Idle, rowVars
      <3> QED
        BY <2>4, <3>1, <3>2, <3>3, <3>4 DEF TaskStep
    <2>5. ASSUME NEW w \in Workers, FaultStep(w) PROVE InRun(s)'
      BY <2>5 DEF FaultStep, WorkerCrash, HardLimit, Redeliver, Turn, Idle,
                  rowVars
    <2>6. CASE UNCHANGED vars
      BY <2>6 DEF vars, rowVars
    <2> QED
      BY <2>1, <2>2, <2>3, <2>4, <2>5, <2>6 DEF Next
  <1> QED
    BY <1>1, <1>2, TypeCorrect, BusyHasScanInvariant, OnceInvariant, PTL
       DEF Spec

\* An execution stores what its position says: nobody else resets the rows
\* under it, and it leaves the pipeline only through "succeed" or a failure.
LEMMA ReportInvariant == Spec => []ReportInv
  <1>1. Init => ReportInv
    BY ConstantsAssumption DEF Init, ReportInv, Placed, Whole, Holds, Idle
  <1>2. TypeOK /\ BusyHasScan /\ OnceInv /\ ReportInv /\ [Next]_vars
          => ReportInv'
    <2> SUFFICES ASSUME TypeOK, BusyHasScan, OnceInv, ReportInv, [Next]_vars,
                        OnceAtATime, NEW s \in Scans
                 PROVE  Placed(s)' /\ Whole(s)'
      BY DEF ReportInv, OnceAtATime
    <2> DEFINE Goal == Placed(s)' /\ Whole(s)'
    <2>0. /\ Placed(s) /\ Whole(s)
          /\ Alone(s) /\ NotSent(s) /\ Unfinished(s) /\ LockedInFlight(s)
          /\ NoScan # s
      BY ConstantsAssumption DEF ReportInv, OnceInv
    \* A step that leaves the row alone, and starts nothing.
    <2>1. ASSUME status'[s] = status[s] \/ status'[s] # "succeeded",
                 rows'[s] = rows[s], step'[s] = step[s],
                 \A w \in Workers : Holds(w, s)' /\ worker'[w].pc = "pipe" =>
                   /\ Holds(w, s) /\ worker[w].pc = "pipe"
                   /\ worker'[w].at = worker[w].at
          PROVE  Goal
      BY <2>0, <2>1 DEF Placed, Whole, Stored
    <2>2. ASSUME NEW r \in Scans, RequestStep(r) \/ AdminStep(r) PROVE Goal
      <3>1. /\ status'[s] = status[s] \/ status'[s] # "succeeded"
            /\ rows' = rows /\ step' = step /\ worker' = worker
        BY <2>2
           DEF TypeOK, RequestStep, Trigger, Enqueue, EnqueueRefused,
               EnqueueReplyLost, StoreTaskId, MarkEnqueueFailed, ApiCrash,
               AdminStep, LockAndRevoke, CommitCancel, AbortCancel, rowVars
      <3> QED
        BY <2>1, <3>1 DEF Holds
    <2>3. ASSUME NEW w \in Workers, NEW r \in Scans, MessageStep(w, r)
          PROVE  Goal
      <3>1. /\ status' = status /\ rows' = rows /\ step' = step
        BY <2>3 DEF MessageStep, Deliver, Discard, RevokeArrives, rowVars
      <3>2. \A v \in Workers :
              worker'[v] = worker[v] \/ worker'[v].pc # "pipe"
        BY <2>3 DEF TypeOK, MessageStep, Deliver, Discard, RevokeArrives, Turn,
                    Idle
      <3> QED
        BY <2>1, <3>1, <3>2 DEF Holds
    <2>4. ASSUME NEW w \in Workers, TaskStep(w) PROVE Goal
      <3> DEFINE t == worker[w].scan
      <3>0. /\ \A v \in Workers \ {w} : worker'[v] = worker[v]
            /\ \A r \in Scans \ {t} : /\ status'[r] = status[r]
                                     /\ rows'[r] = rows[r]
                                     /\ step'[r] = step[r]
        BY <2>4 DEF TypeOK, TaskStep, RejectBare, MarkRunning, Collide,
                    SetStage, Persist, Raise, Succeed, RecordFailure, Ack,
                    GoTo, Advance, Turn, rowVars
      <3>1. CASE t # s
        <4>1. ~Holds(w, s)'
          BY <2>4, <2>0, <3>1
             DEF TypeOK, Holds, TaskStep, RejectBare, MarkRunning, Collide,
                 SetStage, Persist, Raise, Succeed, RecordFailure, Ack,
                 GoTo, Advance, Turn, Idle, rowVars, Slots
        <4> QED
          BY <2>1, <3>0, <3>1, <4>1 DEF Holds
      <3>2. CASE t = s
        <4>1. \A v \in Workers : Holds(v, s)' => v = w
          BY <2>0, <3>0, <3>2 DEF Alone, Holds
        <4>2. CASE MarkRunning(w)
          <5>1. /\ status'[s] # "succeeded"
                /\ worker'[w].at = 1
            BY <4>2, <3>2, <2>0
               DEF TypeOK, MarkRunning, Turn, Unfinished, Holds
          <5> QED
            BY <5>1, <4>1, PipelineEnds DEF Placed, Whole, Stored
        <4>3. CASE SetStage(w)
          <5>1. /\ status' = status /\ rows' = rows
                /\ worker[w].pc = "pipe" /\ Op(w) \in Stages
                /\ worker'[w].at = worker[w].at + 1
            BY <4>3 DEF TypeOK, Slots, SetStage, Advance, Turn
          <5>2. status[s] # "succeeded"
            BY <5>1, <3>2, <2>0 DEF Unfinished, Holds
          <5>3. /\ worker[w].at \in 1..Len(Pipeline(s))
                /\ Stored(s, worker[w].at)
                /\ Pipeline(s)[worker[w].at] \in Stages
            BY <5>1, <3>2, <2>0 DEF Placed, Holds, Op
          <5>4. worker[w].at + 1 \in 1..Len(Pipeline(s))
            BY <5>3, PipelineEnds
          <5>5. \A i \in 1..worker[w].at : Pipeline(s)[i] \in DOMAIN Writes =>
                  Writes[Pipeline(s)[i]] \subseteq rows'[s]
            <6> SUFFICES ASSUME NEW i \in 1..worker[w].at,
                                Pipeline(s)[i] \in DOMAIN Writes
                         PROVE  Writes[Pipeline(s)[i]] \subseteq rows[s]
              BY <5>1
            <6>1. i # worker[w].at
              BY <5>3, PipelineEnds
            <6> QED
              BY <6>1, <5>3 DEF Stored
          <5> QED
            BY <5>1, <5>2, <5>3, <5>4, <5>5, <4>1 DEF Placed, Whole, Stored
        <4>4. CASE Persist(w)
          <5>1. /\ status' = status
                /\ worker[w].pc = "pipe" /\ Op(w) \in DOMAIN Writes
                /\ worker'[w].at = worker[w].at + 1
                /\ rows'[s] = rows[s] \union Writes[Op(w)]
            BY <4>4, <3>2 DEF TypeOK, Slots, Persist, Advance, Turn
          <5>2. status[s] # "succeeded"
            BY <5>1, <3>2, <2>0 DEF Unfinished, Holds
          <5>3. /\ worker[w].at \in 1..Len(Pipeline(s))
                /\ Stored(s, worker[w].at)
                /\ Pipeline(s)[worker[w].at] = Op(w)
            BY <5>1, <3>2, <2>0 DEF Placed, Holds, Op
          <5>4. worker[w].at + 1 \in 1..Len(Pipeline(s))
            BY <5>1, <5>3, PipelineEnds
          <5>5. \A i \in 1..worker[w].at : Pipeline(s)[i] \in DOMAIN Writes =>
                  Writes[Pipeline(s)[i]] \subseteq rows'[s]
            <6> SUFFICES ASSUME NEW i \in 1..worker[w].at,
                                Pipeline(s)[i] \in DOMAIN Writes
                         PROVE  Writes[Pipeline(s)[i]] \subseteq rows'[s]
              OBVIOUS
            <6>1. CASE i = worker[w].at
              BY <6>1, <5>1, <5>3
            <6>2. CASE i # worker[w].at
              BY <6>2, <5>1, <5>3 DEF Stored
            <6> QED
              BY <6>1, <6>2
          <5> QED
            BY <5>1, <5>2, <5>3, <5>4, <5>5, <4>1 DEF Placed, Whole, Stored
        <4>5. CASE Succeed(w)
          <5>1. /\ worker[w].pc = "pipe" /\ Op(w) = "succeed"
                /\ rows' = rows /\ step'[s] = "finalize"
                /\ worker'[w].pc = "ack"
            BY <4>5, <3>2 DEF TypeOK, Succeed, GoTo, Turn
          <5>2. /\ worker[w].at = Len(Pipeline(s))
                /\ Stored(s, worker[w].at)
            BY <5>1, <3>2, <2>0, PipelineEnds DEF Placed, Holds, Op
          <5>3. rows[s] = Report
            BY <5>2, StoredAtEnd DEF TypeOK
          <5> QED
            BY <5>1, <5>3, <4>1 DEF Placed, Whole
        <4>6. CASE RejectBare(w) \/ Collide(w) \/ Raise(w)
                   \/ RecordFailure(w) \/ Ack(w)
          <5>1. /\ status'[s] = status[s] \/ status'[s] # "succeeded"
                /\ rows' = rows /\ step' = step
                /\ worker'[w].pc # "pipe"
            BY <4>6, <3>2
               DEF TypeOK, RejectBare, Collide, Raise, RecordFailure, Ack,
                   GoTo, Turn, Idle, rowVars
          <5> QED
            BY <5>1, <4>1, <2>1
        <4> QED
          BY <2>4, <4>2, <4>3, <4>4, <4>5, <4>6 DEF TaskStep
      <3> QED
        BY <3>1, <3>2
    <2>5. ASSUME NEW w \in Workers, FaultStep(w) PROVE Goal
      <3>1. /\ status' = status /\ rows' = rows /\ step' = step
        BY <2>5 DEF FaultStep, WorkerCrash, HardLimit, Redeliver, rowVars
      <3>2. \A v \in Workers :
              worker'[v] = worker[v] \/ worker'[v].pc # "pipe"
        BY <2>5 DEF TypeOK, FaultStep, WorkerCrash, HardLimit, Redeliver, Turn,
                    Idle
      <3> QED
        BY <2>1, <3>1, <3>2 DEF Holds
    <2>6. CASE UNCHANGED vars
      BY <2>6, <2>1 DEF vars, Holds
    <2> QED
      BY <2>2, <2>3, <2>4, <2>5, <2>6 DEF Next
  <1> QED
    BY <1>1, <1>2, TypeCorrect, BusyHasScanInvariant, OnceInvariant, PTL
       DEF Spec

\* While deliveries do not overlap, a scan that says succeeded shows the whole
\* report and the last step, although a re-execution first deletes the rows
\* of the run before it.
THEOREM CompleteSuccess == Spec => []CompleteWhenSucceeded
  <1>1. ReportInv => CompleteWhenSucceeded
    BY DEF ReportInv, Whole, CompleteWhenSucceeded
  <1> QED
    BY <1>1, ReportInvariant, PTL

-----------------------------------------------------------------------------
(***************************************************************************)
(* The refinement.  Most steps leave status and latest alone; the six that *)
(* write a status are steps of the board because of what the writer knows  *)
(* of the row, although none of them looks at it.                          *)
(***************************************************************************)

\* A scan that is neither absent nor finished with success may be failed.
LEMMA FailStep ==
  ASSUME TypeOK, NEW s \in Scans,
         status[s] \notin {"none", "succeeded"},
         status' = [status EXCEPT ![s] = "failed"], latest' = latest
  PROVE  [Board!Next]_(Board!vars)
  <1>1. CASE status[s] = "failed"
    BY <1>1 DEF TypeOK, Board!vars
  <1>2. CASE status[s] # "failed"
    <2>1. Board!Fail(s)
      BY <1>2 DEF TypeOK, Statuses, InFlight, Terminal, Board!Fail, Board!Move
    <2> QED
      BY <2>1 DEF Board!Next
  <1> QED
    BY <1>1, <1>2

\* While deliveries do not overlap, request, worker and admin together
\* implement the board of ScanBoard, through every other fault.
THEOREM RefinesBoard == OnceAtATime => (Spec => ImplementsBoard)
  <1> SUFFICES ASSUME OnceAtATime PROVE Spec => ImplementsBoard
    OBVIOUS
  <1>1. Init => Board!Init
    BY DEF Init, Board!Init
  <1>2. TypeOK /\ BusyHasScan /\ FreshInv /\ OnceInv /\ RunInv /\ [Next]_vars
          => [Board!Next]_(Board!vars)
    <2> SUFFICES ASSUME TypeOK, BusyHasScan, FreshInv, OnceInv, RunInv,
                        [Next]_vars
                 PROVE  [Board!Next]_(Board!vars)
      OBVIOUS
    <2>0. ASSUME UNCHANGED <<status, latest>>
          PROVE  [Board!Next]_(Board!vars)
      BY <2>0 DEF Board!vars
    <2>1. ASSUME NEW s \in Scans, RequestStep(s)
          PROVE  [Board!Next]_(Board!vars)
      <3>1. CASE Trigger(s)
        <4>1. Board!Queue(s)
          BY <3>1 DEF Trigger, Board!Queue, Board!Move, Free, Board!Free,
                      InFlight, Board!InFlight
        <4> QED
          BY <4>1 DEF Board!Next
      <3>2. CASE MarkEnqueueFailed(s)
        <4>1. status[s] \notin {"none", "succeeded"}
          BY <3>2 DEF MarkEnqueueFailed, OnceInv, NotSent, FreshInv, Untriggered
        <4> QED
          BY <3>2, <4>1, FailStep DEF MarkEnqueueFailed
      <3>3. CASE \/ Enqueue(s) \/ EnqueueRefused(s) \/ EnqueueReplyLost(s)
                 \/ StoreTaskId(s) \/ ApiCrash(s)
        BY <2>0, <3>3 DEF Enqueue, EnqueueRefused, EnqueueReplyLost,
                          StoreTaskId, ApiCrash, rowVars
      <3> QED
        BY <2>1, <3>1, <3>2, <3>3 DEF RequestStep
    <2>2. ASSUME NEW s \in Scans, AdminStep(s)
          PROVE  [Board!Next]_(Board!vars)
      <3>1. CASE CommitCancel(s)
        <4>1. Board!Cancel(s)
          BY <3>1 DEF CommitCancel, OnceInv, LockedInFlight, InFlight,
                      Board!Cancel, Board!Move, Board!InFlight
        <4> QED
          BY <4>1 DEF Board!Next
      <3>2. CASE LockAndRevoke(s) \/ AbortCancel(s)
        BY <2>0, <3>2 DEF LockAndRevoke, AbortCancel, rowVars
      <3> QED
        BY <2>2, <3>1, <3>2 DEF AdminStep
    <2>3. ASSUME NEW w \in Workers, NEW s \in Scans, MessageStep(w, s)
          PROVE  [Board!Next]_(Board!vars)
      BY <2>0, <2>3 DEF MessageStep, Deliver, Discard, RevokeArrives, rowVars
    <2>4. ASSUME NEW w \in Workers, TaskStep(w)
          PROVE  [Board!Next]_(Board!vars)
      <3> DEFINE s == worker[w].scan
      <3>0. ASSUME worker[w].pc \in {"read", "pipe", "failing"}
            PROVE  s \in Scans /\ status[s] \notin {"none", "succeeded"}
        BY <3>0 DEF BusyHasScan, OnceInv, Unfinished, FreshInv, Untriggered,
                    Holds, Idle
      <3>1. CASE RejectBare(w) \/ RecordFailure(w)
        BY <3>0, <3>1, FailStep DEF RejectBare, RecordFailure
      <3>2. CASE MarkRunning(w)
        <4>1. CASE worker[w].seen = "running" \/ status[s] = "running"
          BY <2>0, <3>2, <4>1 DEF MarkRunning, TypeOK
        <4>2. CASE worker[w].seen # "running" /\ status[s] # "running"
          <5>1. Board!Run(s)
            BY <3>0, <3>2, <4>2
               DEF MarkRunning, TypeOK, Statuses, Terminal, InFlight, Free,
                   Board!Run, Board!Move, Board!Free, Board!InFlight
          <5> QED
            BY <5>1, <3>0, <3>2 DEF Board!Next, MarkRunning
        <4> QED
          BY <4>1, <4>2
      <3>3. CASE Succeed(w)
        <4>1. worker[w].pc = "pipe" /\ s \in Scans
          BY <3>0, <3>3 DEF Succeed
        <4>2. status[s] \in {"running", "cancelled"}
          BY <4>1 DEF RunInv, InRun, Holds
        <4>3. Board!Succeed(s)
          BY <3>3, <4>2 DEF Succeed, Board!Succeed, Board!Move
        <4> QED
          BY <4>3, <3>0, <3>3 DEF Board!Next, Succeed
      <3>4. CASE SetStage(w) \/ Persist(w) \/ Collide(w) \/ Raise(w) \/ Ack(w)
        BY <2>0, <3>4 DEF SetStage, Persist, Collide, Raise, Ack, rowVars
      <3> QED
        BY <2>4, <3>1, <3>2, <3>3, <3>4 DEF TaskStep
    <2>5. ASSUME NEW w \in Workers, FaultStep(w)
          PROVE  [Board!Next]_(Board!vars)
      BY <2>0, <2>5 DEF FaultStep, WorkerCrash, HardLimit, Redeliver, rowVars
    <2>6. CASE UNCHANGED vars
      BY <2>0, <2>6 DEF vars, rowVars
    <2> QED
      BY <2>1, <2>2, <2>3, <2>4, <2>5, <2>6 DEF Next
  <1> QED
    BY <1>1, <1>2, TypeCorrect, BusyHasScanInvariant, FreshInvariant,
       OnceInvariant, RunInvariant, PTL DEF Spec, ImplementsBoard, Board!Spec
===============================================================================
