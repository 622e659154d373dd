------------------------------ MODULE TaskProofs ------------------------------
(***************************************************************************)
(* Theorems about what runs beside the scans: the circuit breaker and the  *)
(* orphan clean-up of Dependency-Track, the notifications, and the         *)
(* catalogue that scans are persisted to.                                  *)
(***************************************************************************)
EXTENDS MCTasks, NumberLemmas, TLAPS

-------------------------------------------------------------------------------
(***************************************************************************)
(* The keys of the circuit breaker stay in their domains, for any number   *)
(* of clients and any threshold and cool-down.                             *)
(***************************************************************************)

\* Moving a client from one point to another keeps the program counters.
LEMMA StepType ==
  ASSUME pc \in [Clients -> Points], NEW c, NEW from, NEW to \in Points, Step(c, from, to)
  PROVE  pc' \in [Clients -> Points]
BY DEF Step

\* The breaker starts in its domains.
LEMMA TypeInit == Init => TypeOK
<1> SUFFICES ASSUME Init PROVE TypeOK
  OBVIOUS
<1>1. fails \in 0..Threshold /\ age \in 0..Cooldown /\ lock \in 0..(2 * Cooldown)
  BY BreakerAssumption DEF Init
<1>2. pc \in [Clients -> Points]
  BY DEF Init, Points
<1> QED BY <1>1, <1>2 DEF Init, TypeOK, States

\* Every command, request, crash and tick keeps the types.
LEMMA TypeStep == TypeOK /\ [Next]_vars => TypeOK'
<1> SUFFICES ASSUME TypeOK, [Next]_vars PROVE TypeOK'
  OBVIOUS
<1> USE BreakerAssumption DEF TypeOK, keys
<1>1. ASSUME NEW c \in Callers, Enter(c) PROVE TypeOK'
  <2>1. c \in Clients
    BY DEF Clients
  <2>2. pc' \in [Clients -> Points]
    BY <1>1, StepType DEF Enter, Points
  <2> QED BY <1>1, <2>1, <2>2 DEF Enter
<1>2. ASSUME NEW m \in Monitors, Beat(m) PROVE TypeOK'
  BY <1>2, StepType DEF Beat, Points
<1>3. ASSUME NEW a \in Admins, ForceReset(a) PROVE TypeOK'
  BY <1>3, StepType DEF ForceReset, Mishap, Points
<1>4. ASSUME NEW c \in Clients, Continue(c) PROVE TypeOK'
  <2>1. CASE GatePasses(c)
    BY <2>1, StepType DEF GatePasses, Points, States
  <2>2. CASE GateRefuses(c)
    BY <2>2, StepType DEF GateRefuses, Points
  <2>3. CASE Resnap(c)
    BY <2>3, StepType DEF Resnap, Points
  <2>4. CASE Answer(c)
    BY <2>4, StepType DEF Answer, Points
  <2>5. CASE Count(c)
    <3>1. fails' \in 0..Threshold
      BY <2>5 DEF Count
    <3>2. pc' \in [Clients -> Points]
      BY <2>5, StepType DEF Count, Points
    <3> QED BY <2>5, <3>1, <3>2 DEF Count
  <2>6. CASE Stamp(c)
    BY <2>6, StepType DEF Stamp, Points
  <2>7. CASE Trip(c)
    BY <2>7, StepType DEF Trip, Points, States
  <2>8. CASE Clear(c)
    BY <2>8, StepType DEF Clear, Points
  <2>9. CASE Check(c)
    <3>1. pc' \in [Clients -> Points]
      BY <2>9, StepType DEF Check, Points
    <3> QED BY <2>9, <3>1 DEF Check
  <2>10. CASE Close(c)
    BY <2>10, StepType DEF Close, Points, States
  <2>11. CASE Wipe(c)
    BY <2>11, StepType DEF Wipe, Points
  <2>12. CASE Unstamp(c)
    <3>1. pc' \in [Clients -> Points]
      BY <2>12, StepType DEF Unstamp, Points
    <3>2. age' \in 0..Cooldown
      BY <2>12 DEF Unstamp
    <3> QED BY <2>12, <3>1, <3>2 DEF Unstamp
  <2>13. CASE Unlock(c)
    BY <2>13, StepType DEF Unlock, Points
  <2> QED BY <1>4, <2>1, <2>2, <2>3, <2>4, <2>5, <2>6, <2>7, <2>8, <2>9, <2>10, <2>11,
             <2>12, <2>13 DEF Continue
<1>5. ASSUME NEW c \in Clients, AnswerClientError(c) PROVE TypeOK'
  BY <1>5, StepType DEF AnswerClientError, Mishap, Points
<1>6. ASSUME NEW c \in Clients, Crash(c) PROVE TypeOK'
  BY <1>6 DEF Crash, Mishap, Points
<1>7. CASE Flip
  BY <1>7 DEF Flip, Mishap
<1>8. CASE Tick
  BY <1>8 DEF Tick
<1>9. CASE UNCHANGED vars
  BY <1>9 DEF vars
<1> QED BY <1>1, <1>2, <1>3, <1>4, <1>5, <1>6, <1>7, <1>8, <1>9 DEF Next

\* Every variable of the breaker stays in its domain: the failure counter at or
\* below the threshold, the ages of opened_at and of the probe lock within their
\* times, whatever commands of whatever clients are interleaved.
THEOREM BreakerTypeCorrect == Spec => []TypeOK
<1> QED BY TypeInit, TypeStep, PTL DEF Spec

-------------------------------------------------------------------------------
(***************************************************************************)
(* Theorems of OrphanCleanup, for any number of projects, clean-ups and    *)
(* retries: its types, what may be deleted, that what was chosen is        *)
(* accounted for, and that the key in Redis implements the lease.          *)
(*                                                                         *)
(* The lease holds because of two facts about the key.  A clean-up that is *)
(* under way and was not overtaken has the key (Held): every step that     *)
(* takes the key from a clean-up counts it as overtaken.  And a clean-up   *)
(* that was never asked for neither has the key nor was overtaken (Fresh), *)
(* so that it starts with a clean slate.  What a task chose is what it has *)
(* yet to do, has done, or has in the audit log (Covered); what it is      *)
(* after beyond that, like what the orphan list has shown, belongs to a    *)
(* scan that there was and is not (Unscanned), and no scan comes back.     *)
(***************************************************************************)

\* A clean-up that keeps its place may change its task alone.
LEMMA TaskType ==
  ASSUME CleanupTypeOK, NEW t \in Cleanups, NEW k \in Tasks, task' = [task EXCEPT ![t] = k]
  PROVE  task' \in [Cleanups -> Tasks]
BY DEF CleanupTypeOK

\* The messages of a task that was sent again, or given up.
LEMMA MessageType ==
  /\ NotSent \in Tasks
  /\ Gone \in Tasks
  /\ \A k \in Tasks, n \in 0..MaxRetries : Requeued(k, n) \in Tasks
<1>1. NotSent \in Tasks
  BY CleanupsAssumption DEF NotSent, Tasks
<1>2. Gone \in Tasks
  BY <1>1 DEF Gone, NotSent, Tasks
<1>3. ASSUME NEW k \in Tasks, NEW n \in 0..MaxRetries PROVE Requeued(k, n) \in Tasks
  BY <1>1 DEF Requeued, NotSent, Tasks
<1> QED BY <1>1, <1>2, <1>3

\* Every variable of OrphanCleanup starts in its domain.
LEMMA CleanupTypeInit == CleanupInit => CleanupTypeOK
BY MessageType DEF CleanupInit, CleanupTypeOK

\* Every step keeps every variable of OrphanCleanup in its domain.
LEMMA CleanupTypeStep == CleanupTypeOK /\ [CleanupNext]_cleanupVars => CleanupTypeOK'
<1> SUFFICES ASSUME CleanupTypeOK, [CleanupNext]_cleanupVars PROVE CleanupTypeOK'
  OBVIOUS
<1>1. \A t \in Cleanups : task[t] \in Tasks
  BY DEF CleanupTypeOK
<1>2. ASSUME NEW p \in Projects, NewScan(p) \/ UpsertProject(p) PROVE CleanupTypeOK'
  BY <1>2 DEF NewScan, UpsertProject, CleanupTypeOK
<1>3. CASE ExpireLock
  BY <1>3 DEF ExpireLock, dtVars, CleanupTypeOK
<1>4. ASSUME NEW p \in Projects, DropScan(p) PROVE CleanupTypeOK'
  BY <1>4 DEF DropScan, CleanupTypeOK
<1>5. ASSUME NEW t \in Cleanups, NEW chosen \in SUBSET Projects, TakeLock(t, chosen)
      PROVE  CleanupTypeOK'
  <2>1. [task[t] EXCEPT !.pc = "taken", !.chosen = chosen] \in Tasks
    BY <1>1 DEF Tasks
  <2>2. task' \in [Cleanups -> Tasks]
    BY <1>5, <2>1, TaskType DEF TakeLock
  <2> QED BY <1>5, <2>2 DEF TakeLock, dtVars, CleanupTypeOK
<1>6. ASSUME NEW t \in Cleanups, Publish(t) PROVE CleanupTypeOK'
  <2>1. [task[t] EXCEPT !.pc = "queued"] \in Tasks
    BY <1>1 DEF Tasks
  <2>2. task' \in [Cleanups -> Tasks]
    BY <1>6, <2>1, TaskType DEF Publish
  <2> QED BY <1>6, <2>2 DEF Publish, dtVars, CleanupTypeOK
<1>7. ASSUME NEW t \in Cleanups, NEW sent \in BOOLEAN, PublishFails(t, sent)
      PROVE  CleanupTypeOK'
  <2>1. (IF sent THEN Requeued(task[t], 0) ELSE Gone) \in Tasks
    BY <1>1, MessageType, CleanupsAssumption
  <2>2. task' \in [Cleanups -> Tasks]
    BY <1>7, <2>1, TaskType DEF PublishFails
  <2> QED BY <1>7, <2>2 DEF PublishFails, Robbed, dtVars, CleanupTypeOK
<1>8. ASSUME NEW t \in Cleanups, LoseRequest(t) PROVE CleanupTypeOK'
  <2>1. task' \in [Cleanups -> Tasks]
    BY <1>8, MessageType, TaskType DEF LoseRequest
  <2> QED BY <1>8, <2>1 DEF LoseRequest, dtVars, CleanupTypeOK
<1>9. ASSUME NEW t \in Cleanups, StartCleanup(t) PROVE CleanupTypeOK'
  <2>1. (IF task[t].chosen = {} THEN [task[t] EXCEPT !.pc = "paging"]
         ELSE [task[t] EXCEPT !.pc = "working", !.todo = task[t].chosen]) \in Tasks
    BY <1>1 DEF Tasks
  <2>2. task' \in [Cleanups -> Tasks]
    BY <1>9, <2>1, TaskType DEF StartCleanup
  <2> QED BY <1>9, <2>2 DEF StartCleanup, dtVars, CleanupTypeOK
<1>10. ASSUME NEW t \in Cleanups, NEW p \in Projects, NEW refused \in BOOLEAN,
              DeleteInDt(t, p, refused)
       PROVE  CleanupTypeOK'
  <2> DEFINE k == [task[t] EXCEPT !.pc = IF refused THEN "skipping" ELSE "auditing",
                                  !.todo = task[t].todo \ {p}, !.current = {p}]
  <2>1. task' = [task EXCEPT ![t] = k]
    BY <1>10 DEF DeleteInDt
  <2>2. task' \in [Cleanups -> Tasks]
    <3>1. k \in Tasks
      BY <1>1 DEF Tasks
    <3> HIDE DEF k
    <3> QED BY <2>1, <3>1, TaskType
  <2> QED BY <1>10, <2>2 DEF DeleteInDt, CleanupTypeOK
<1>11. ASSUME NEW t \in Cleanups, NEW written \in BOOLEAN, EmitAudit(t, written)
       PROVE  CleanupTypeOK'
  <2> DEFINE k == [task[t] EXCEPT !.pc = "working", !.current = {},
                     !.failed = task[t].failed \union (IF written THEN {} ELSE task[t].current)]
  <2>1. task' = [task EXCEPT ![t] = k]
    BY <1>11 DEF EmitAudit
  <2>2. task' \in [Cleanups -> Tasks]
    <3>1. k \in Tasks
      BY <1>1 DEF Tasks
    <3> HIDE DEF k
    <3> QED BY <2>1, <3>1, TaskType
  <2>3. task[t].current \subseteq Projects
    BY <1>1 DEF Tasks
  <2> QED BY <1>11, <2>2, <2>3 DEF EmitAudit, dtVars, CleanupTypeOK
<1>12. ASSUME NEW t \in Cleanups, NEW released \in BOOLEAN, FinishCleanup(t, released)
       PROVE  CleanupTypeOK'
  <2>1. [task[t] EXCEPT !.pc = "done"] \in Tasks
    BY <1>1 DEF Tasks
  <2>2. task' \in [Cleanups -> Tasks]
    BY <1>12, <2>1, TaskType DEF FinishCleanup
  <2> QED BY <1>12, <2>2 DEF FinishCleanup, Robbed, dtVars, CleanupTypeOK
<1>13. ASSUME NEW t \in Cleanups, DtUnavailable(t) PROVE CleanupTypeOK'
  <2>1. task[t].retries \in 0..MaxRetries
    BY <1>1 DEF Tasks
  <2>2. (IF task[t].retries < MaxRetries THEN Requeued(task[t], task[t].retries + 1) ELSE Gone)
          \in Tasks
    BY <1>1, <2>1, MessageType, CleanupsAssumption
  <2>3. task' \in [Cleanups -> Tasks]
    BY <1>13, <2>2, TaskType DEF DtUnavailable
  <2> QED BY <1>13, <2>3 DEF DtUnavailable, dtVars, CleanupTypeOK
<1>14. ASSUME NEW t \in Cleanups, LoseWorker(t) PROVE CleanupTypeOK'
  <2>1. Requeued(task[t], task[t].retries) \in Tasks
    <3>1. task[t].retries \in 0..MaxRetries
      BY <1>1 DEF Tasks
    <3> QED BY <1>1, <3>1, MessageType
  <2>2. task' \in [Cleanups -> Tasks]
    BY <1>14, <2>1, TaskType DEF LoseWorker
  <2> QED BY <1>14, <2>2 DEF LoseWorker, dtVars, CleanupTypeOK
<1>15. ASSUME NEW t \in Cleanups, NEW released \in BOOLEAN, AbortCleanup(t, released)
       PROVE  CleanupTypeOK'
  <2>1. task' \in [Cleanups -> Tasks]
    BY <1>15, MessageType, TaskType DEF AbortCleanup
  <2> QED BY <1>15, <2>1 DEF AbortCleanup, Robbed, dtVars, CleanupTypeOK
<1>16. CASE UNCHANGED cleanupVars
  BY <1>16 DEF cleanupVars, dtVars, CleanupTypeOK
<1>17. ASSUME NEW listed \in SUBSET Projects, ListOrphans(listed) PROVE CleanupTypeOK'
  BY <1>17 DEF ListOrphans, CleanupTypeOK
<1>18. CASE ShowOrphans
  BY <1>18 DEF ShowOrphans, Orphans, CleanupTypeOK
<1>19. ASSUME NEW t \in Cleanups, NEW listed \in SUBSET Projects, ListPage(t, listed)
       PROVE  CleanupTypeOK'
  <2>1. [task[t] EXCEPT !.pc = "classifying", !.current = listed] \in Tasks
    BY <1>1 DEF Tasks
  <2>2. task' \in [Cleanups -> Tasks]
    BY <1>19, <2>1, TaskType DEF ListPage
  <2> QED BY <1>19, <2>2 DEF ListPage, dtVars, CleanupTypeOK
<1>20. ASSUME NEW t \in Cleanups, NEW last \in BOOLEAN, ClassifyPage(t, last)
       PROVE  CleanupTypeOK'
  <2> DEFINE k == [task[t] EXCEPT !.pc = IF last THEN "working" ELSE "paging",
                     !.todo = task[t].todo \union Orphans(task[t].current), !.current = {}]
  <2>1. task' = [task EXCEPT ![t] = k]
    BY <1>20 DEF ClassifyPage
  <2>2. task' \in [Cleanups -> Tasks]
    <3>1. k \in Tasks
      BY <1>1 DEF Tasks, Orphans
    <3> HIDE DEF k
    <3> QED BY <2>1, <3>1, TaskType
  <2> QED BY <1>20, <2>2 DEF ClassifyPage, dtVars, CleanupTypeOK
<1> QED BY <1>2, <1>3, <1>4, <1>5, <1>6, <1>7, <1>8, <1>9, <1>10, <1>11, <1>12, <1>13, <1>14, <1>15,
           <1>16, <1>17, <1>18, <1>19, <1>20
        DEF CleanupNext

\* Every variable of OrphanCleanup stays in its domain.
THEOREM CleanupTypeCorrect == CleanupSpec => []CleanupTypeOK
<1> QED BY CleanupTypeInit, CleanupTypeStep, PTL DEF CleanupSpec
-------------------------------------------------------------------------------

\* The key, and the clean-ups it was taken for.
Held == \A t \in Cleanups : Alive(t) /\ t \notin overtaken => cleanupLock = t

Fresh ==
  \A t \in Cleanups : task[t].pc = "none" => t \notin overtaken /\ cleanupLock # t

LeaseInv == CleanupTypeOK /\ Held /\ Fresh

Live == {t \in Cleanups : Alive(t)}

\* The places of a clean-up that is under way.
Busy == {"taken", "queued", "paging", "classifying", "working", "auditing", "skipping"}

\* What the task of t is after a step tells who is under way then.
LEMMA LiveStep ==
  ASSUME CleanupTypeOK, NEW t \in Cleanups, NEW k, task' = [task EXCEPT ![t] = k]
  PROVE  /\ k.pc \in Busy => Live' = Live \union {t}
         /\ k.pc \notin Busy => Live' = Live \ {t}
<1>1. task'[t] = k /\ \A u \in Cleanups \ {t} : task'[u] = task[u]
  BY DEF CleanupTypeOK
<1> QED BY <1>1 DEF Live, Alive, Busy

\* The places that messages are in.
LEMMA MessagePlace ==
  /\ Gone.pc = "lost"
  /\ NotSent.pc = "none"
  /\ \A k, n : Requeued(k, n).pc = "queued"
BY DEF Gone, NotSent, Requeued

\* A step that frees the key counts who had it as overtaken.
LEMMA Freed ==
  ASSUME LeaseInv, NEW t \in Cleanups, NEW k, NEW S \in SUBSET {t},
         task' = [task EXCEPT ![t] = k], k.pc # "none",
         k.pc \in Busy => t \in S \union overtaken,
         cleanupLock' = "free", overtaken' = overtaken \union Robbed(t) \union S
  PROVE  Held' /\ Fresh'
<1>1. task'[t] = k /\ \A u \in Cleanups \ {t} : task'[u] = task[u]
  BY DEF LeaseInv, CleanupTypeOK
<1>2. Held'
  <2> SUFFICES ASSUME NEW u \in Cleanups, Alive(u)', u \notin overtaken' PROVE FALSE
    BY DEF Held
  <2>1. u # t
    BY <1>1 DEF Alive, Busy
  <2>2. Alive(u) /\ u \notin overtaken
    BY <1>1, <2>1 DEF Alive
  <2>3. cleanupLock = u
    BY <2>2 DEF LeaseInv, Held
  <2> QED BY <2>1, <2>3, CleanupsAssumption DEF Robbed
<1>3. Fresh'
  <2> SUFFICES ASSUME NEW u \in Cleanups, task'[u].pc = "none"
               PROVE  u \notin overtaken' /\ cleanupLock' # u
    BY DEF Fresh
  <2>1. u # t /\ task[u].pc = "none"
    BY <1>1
  <2>2. u \notin overtaken /\ cleanupLock # u
    BY <2>1 DEF LeaseInv, Fresh
  <2> QED BY <2>1, <2>2, CleanupsAssumption DEF Robbed
<1> QED BY <1>2, <1>3

\* A step that leaves the key alone, and starts nothing.
LEMMA Kept ==
  ASSUME LeaseInv, NEW t \in Cleanups, NEW k, Alive(t),
         task' = [task EXCEPT ![t] = k], k.pc # "none",
         cleanupLock' = cleanupLock, overtaken' = overtaken
  PROVE  Held' /\ Fresh'
<1>1. task'[t] = k /\ \A u \in Cleanups \ {t} : task'[u] = task[u]
  BY DEF LeaseInv, CleanupTypeOK
<1> QED BY <1>1 DEF LeaseInv, Held, Fresh, Alive

\* A task that ends and deletes the key, whoever has it, counts whom it robs.
LEMMA FreedAtEnd ==
  ASSUME LeaseInv, NEW t \in Cleanups, NEW k,
         task' = [task EXCEPT ![t] = k], k.pc \in {"done", "lost"},
         cleanupLock' = "free", overtaken' = overtaken \union Robbed(t)
  PROVE  Held' /\ Fresh'
<1>1. PICK S \in SUBSET {t} : S = {}
  OBVIOUS
<1>2. overtaken' = overtaken \union Robbed(t) \union S
  BY <1>1
<1>3. k.pc # "none" /\ k.pc \notin Busy
  BY DEF Busy
<1> QED BY <1>2, <1>3, Freed

\* LeaseInv holds at the start.
LEMMA LeaseInit == CleanupInit => LeaseInv
<1> SUFFICES ASSUME CleanupInit PROVE LeaseInv
  OBVIOUS
<1>1. \A t \in Cleanups : task[t].pc = "none"
  BY MessagePlace DEF CleanupInit
<1> QED BY <1>1, CleanupTypeInit, CleanupsAssumption
        DEF CleanupInit, LeaseInv, Held, Fresh, Alive

\* Every step keeps the invariant and is a step of the lease, or none.
LEMMA LeaseStep ==
  LeaseInv /\ [CleanupNext]_cleanupVars => LeaseInv' /\ [Leased!Next]_(Leased!vars)
<1> SUFFICES ASSUME LeaseInv, [CleanupNext]_cleanupVars
             PROVE  Held' /\ Fresh' /\ [Leased!Next]_(Leased!vars)
  BY CleanupTypeStep DEF LeaseInv
<1>0. CleanupTypeOK
  BY DEF LeaseInv
<1> DEFINE Steps == [Leased!Next]_(Leased!vars)
<1>a. ASSUME Live' = Live, overtaken' = overtaken PROVE Steps
  BY <1>a DEF Leased!vars, Live
<1>b. ASSUME NEW t \in Live, Live' = Live \ {t}, overtaken' = overtaken PROVE Steps
  BY <1>b DEF Leased!Next, Leased!Release, Live
<1>c. ASSUME NEW u \in Cleanups, Live' = Live, overtaken' = overtaken \union {u} PROVE Steps
  BY <1>c DEF Leased!Next, Leased!Lose, Live
<1>d. ASSUME NEW t \in Live, Live' = Live \ {t}, overtaken' = overtaken \union Robbed(t)
      PROVE  Steps
  <2>1. CASE Robbed(t) = {}
    BY <1>b, <1>d, <2>1
  <2>2. CASE Robbed(t) # {}
    <3>1. cleanupLock \in Cleanups /\ cleanupLock # t /\ Robbed(t) = {cleanupLock}
      BY <2>2, <1>0 DEF Robbed, CleanupTypeOK
    <3>2. t \in Cleanups /\ t \in overtaken
      BY <3>1 DEF Live, LeaseInv, Held
    <3>3. Leased!ReleaseForeign(t, cleanupLock)
      BY <1>d, <3>1, <3>2 DEF Leased!ReleaseForeign, Live
    <3> QED BY <3>1, <3>2, <3>3 DEF Leased!Next
  <2> QED BY <2>1, <2>2
<1> HIDE DEF Steps
<1>1. CASE ExpireLock
  <2>1. cleanupLock \in Cleanups
    BY <1>0, <1>1 DEF ExpireLock, CleanupTypeOK
  <2>2. Held' /\ Fresh'
    BY <2>1, <1>1, CleanupsAssumption DEF ExpireLock, LeaseInv, Held, Fresh, Alive
  <2>3. Live' = Live
    BY <1>1 DEF ExpireLock, Live, Alive
  <2>4. Steps
    BY <1>1, <1>c, <2>1, <2>3 DEF ExpireLock
  <2> QED BY <2>2, <2>4 DEF Steps
<1>2. ASSUME UNCHANGED <<cleanupLock, task, overtaken>> PROVE Held' /\ Fresh' /\ Steps
  <2>1. Live' = Live /\ overtaken' = overtaken
    BY <1>2 DEF Live, Alive
  <2>2. Held' /\ Fresh'
    BY <1>2 DEF LeaseInv, Held, Fresh, Alive
  <2> QED BY <1>a, <2>1, <2>2
<1>e. ASSUME NEW t \in Cleanups, NEW k \in Tasks, task' = [task EXCEPT ![t] = k],
             cleanupLock' = cleanupLock, overtaken' = overtaken, Alive(t), k.pc \in Busy
      PROVE  Held' /\ Fresh' /\ Steps
  <2>1. Live' = Live
    BY <1>0, <1>e, LiveStep DEF Live
  <2>2. Held' /\ Fresh'
    BY <1>e, Kept DEF Busy
  <2> QED BY <1>a, <1>e, <2>1, <2>2
<1>3. ASSUME NEW t \in Cleanups, NEW chosen \in SUBSET Projects, TakeLock(t, chosen)
      PROVE  Held' /\ Fresh' /\ Steps
  <2> DEFINE k == [task[t] EXCEPT !.pc = "taken", !.chosen = chosen]
  <2>1. task' = [task EXCEPT ![t] = k] /\ cleanupLock = "free" /\ overtaken' = overtaken
        /\ cleanupLock' = t /\ task[t].pc = "none"
    BY <1>3, MessagePlace DEF TakeLock
  <2>2. k.pc = "taken"
    BY <1>0 DEF CleanupTypeOK, Tasks
  <2> HIDE DEF k
  <2>3. Live' = Live \union {t}
    BY <1>0, <2>1, <2>2, LiveStep DEF Busy
  <2>4. Live \subseteq overtaken
    BY <2>1, CleanupsAssumption DEF Live, LeaseInv, Held
  <2>5. t \notin Live \union overtaken
    BY <2>1 DEF Live, Alive, LeaseInv, Fresh
  <2>6. Leased!Take(t)
    BY <2>1, <2>3, <2>4, <2>5 DEF Leased!Take, Live
  <2>7. Steps
    BY <2>6 DEF Steps, Leased!Next
  <2>8. Held'
    BY <2>1, <2>3, <2>4 DEF Held, Live
  <2>9. \A u \in Cleanups \ {t} : task'[u] = task[u]
    BY <1>0, <2>1 DEF CleanupTypeOK
  <2>10. task'[t] = k
    BY <1>0, <2>1 DEF CleanupTypeOK
  <2>11. Fresh'
    BY <2>1, <2>2, <2>9, <2>10 DEF LeaseInv, Fresh
  <2> QED BY <2>7, <2>8, <2>11
<1>4. ASSUME NEW t \in Cleanups, Publish(t) PROVE Held' /\ Fresh' /\ Steps
  <2> DEFINE k == [task[t] EXCEPT !.pc = "queued"]
  <2>1. task' = [task EXCEPT ![t] = k] /\ cleanupLock' = cleanupLock /\ overtaken' = overtaken
        /\ Alive(t) /\ k.pc = "queued"
    BY <1>4, <1>0 DEF Publish, Alive, CleanupTypeOK, Tasks
  <2> HIDE DEF k
  <2>2. Live' = Live
    BY <1>0, <2>1, LiveStep DEF Live, Busy
  <2> QED BY <1>a, <2>1, <2>2, Kept
<1>5. ASSUME NEW t \in Cleanups, NEW sent \in BOOLEAN, PublishFails(t, sent)
      PROVE  Held' /\ Fresh' /\ Steps
  <2>1. t \in Live
    BY <1>5 DEF PublishFails, Live, Alive
  <2>2. CASE sent
    <3> DEFINE k == Requeued(task[t], 0)
    <3>1. task' = [task EXCEPT ![t] = k] /\ k.pc = "queued" /\ cleanupLock' = "free"
          /\ overtaken' = overtaken \union Robbed(t) \union {t}
      BY <1>5, <2>2, MessagePlace DEF PublishFails
    <3> HIDE DEF k
    <3>2. Live' = Live
      BY <1>0, <2>1, <3>1, LiveStep DEF Busy
    <3>3. Held' /\ Fresh'
      BY <3>1, Freed
    <3>4. Steps
      <4>1. CASE Robbed(t) = {}
        BY <3>1, <3>2, <4>1, <1>c
      <4>2. CASE Robbed(t) # {}
        <5>1. cleanupLock \in Cleanups /\ cleanupLock # t /\ Robbed(t) = {cleanupLock}
          BY <4>2, <1>0 DEF Robbed, CleanupTypeOK
        <5>2. t \in overtaken
          BY <2>1, <5>1 DEF Live, LeaseInv, Held
        <5> QED BY <3>1, <3>2, <5>1, <5>2, <1>c
      <4> QED BY <4>1, <4>2
    <3> QED BY <3>3, <3>4
  <2>3. CASE ~sent
    <3>1. task' = [task EXCEPT ![t] = Gone] /\ cleanupLock' = "free"
          /\ overtaken' = overtaken \union Robbed(t)
      BY <1>5, <2>3 DEF PublishFails
    <3>2. Live' = Live \ {t}
      BY <1>0, <3>1, LiveStep, MessagePlace DEF Busy
    <3>3. Held' /\ Fresh'
      BY <3>1, FreedAtEnd, MessagePlace
    <3> QED BY <1>d, <2>1, <3>1, <3>2, <3>3
  <2> QED BY <2>2, <2>3
<1>6. ASSUME NEW t \in Cleanups, LoseRequest(t) PROVE Held' /\ Fresh' /\ Steps
  <2>1. t \in Live /\ Alive(t)
    BY <1>6 DEF LoseRequest, Live, Alive
  <2>2. task' = [task EXCEPT ![t] = Gone] /\ cleanupLock' = cleanupLock /\ overtaken' = overtaken
    BY <1>6 DEF LoseRequest
  <2>3. Live' = Live \ {t}
    BY <1>0, <2>2, LiveStep, MessagePlace DEF Busy
  <2> QED BY <1>b, <2>1, <2>2, <2>3, Kept, MessagePlace
<1>7. ASSUME NEW t \in Cleanups, StartCleanup(t) PROVE Held' /\ Fresh' /\ Steps
  <2> DEFINE k == IF task[t].chosen = {} THEN [task[t] EXCEPT !.pc = "paging"]
                  ELSE [task[t] EXCEPT !.pc = "working", !.todo = task[t].chosen]
  <2>1. task' = [task EXCEPT ![t] = k] /\ cleanupLock' = cleanupLock /\ overtaken' = overtaken
        /\ Alive(t)
    BY <1>7 DEF StartCleanup, Alive
  <2>2. k \in Tasks /\ k.pc \in Busy
    BY <1>0 DEF CleanupTypeOK, Tasks, Busy
  <2> HIDE DEF k
  <2> QED BY <1>e, <2>1, <2>2
<1>15. ASSUME NEW t \in Cleanups, NEW listed \in SUBSET Projects, ListPage(t, listed)
       PROVE  Held' /\ Fresh' /\ Steps
  <2> DEFINE k == [task[t] EXCEPT !.pc = "classifying", !.current = listed]
  <2>1. task' = [task EXCEPT ![t] = k] /\ cleanupLock' = cleanupLock /\ overtaken' = overtaken
        /\ Alive(t)
    BY <1>15 DEF ListPage, Alive
  <2>2. k \in Tasks /\ k.pc \in Busy
    BY <1>0 DEF CleanupTypeOK, Tasks, Busy
  <2> HIDE DEF k
  <2> QED BY <1>e, <2>1, <2>2
<1>16. ASSUME NEW t \in Cleanups, NEW last \in BOOLEAN, ClassifyPage(t, last)
       PROVE  Held' /\ Fresh' /\ Steps
  <2> DEFINE k == [task[t] EXCEPT !.pc = IF last THEN "working" ELSE "paging",
                     !.todo = task[t].todo \union Orphans(task[t].current), !.current = {}]
  <2>1. task' = [task EXCEPT ![t] = k] /\ cleanupLock' = cleanupLock /\ overtaken' = overtaken
        /\ Alive(t)
    BY <1>16 DEF ClassifyPage, Alive
  <2>2. k \in Tasks /\ k.pc \in Busy
    BY <1>0 DEF CleanupTypeOK, Tasks, Busy, Orphans
  <2> HIDE DEF k
  <2> QED BY <1>e, <2>1, <2>2
<1>8. ASSUME NEW t \in Cleanups, NEW p \in Projects, NEW refused \in BOOLEAN,
             DeleteInDt(t, p, refused)
      PROVE  Held' /\ Fresh' /\ Steps
  <2> DEFINE k == [task[t] EXCEPT !.pc = IF refused THEN "skipping" ELSE "auditing",
                                  !.todo = task[t].todo \ {p}, !.current = {p}]
  <2>1. task' = [task EXCEPT ![t] = k] /\ cleanupLock' = cleanupLock /\ overtaken' = overtaken
        /\ Alive(t)
    BY <1>8 DEF DeleteInDt, Alive
  <2>2. k.pc \in {"auditing", "skipping"}
    BY <1>0 DEF CleanupTypeOK, Tasks
  <2> HIDE DEF k
  <2>3. Live' = Live
    BY <1>0, <2>1, <2>2, LiveStep DEF Live, Busy
  <2> QED BY <1>a, <2>1, <2>2, <2>3, Kept
<1>9. ASSUME NEW t \in Cleanups, NEW written \in BOOLEAN, EmitAudit(t, written)
      PROVE  Held' /\ Fresh' /\ Steps
  <2> DEFINE k == [task[t] EXCEPT !.pc = "working", !.current = {},
                     !.failed = task[t].failed \union (IF written THEN {} ELSE task[t].current)]
  <2>1. task' = [task EXCEPT ![t] = k] /\ cleanupLock' = cleanupLock /\ overtaken' = overtaken
        /\ Alive(t)
    BY <1>9 DEF EmitAudit, Alive
  <2>2. k.pc = "working"
    BY <1>0 DEF CleanupTypeOK, Tasks
  <2> HIDE DEF k
  <2>3. Live' = Live
    BY <1>0, <2>1, <2>2, LiveStep DEF Live, Busy
  <2> QED BY <1>a, <2>1, <2>2, <2>3, Kept
<1>10. ASSUME NEW t \in Cleanups, NEW released \in BOOLEAN, FinishCleanup(t, released)
       PROVE  Held' /\ Fresh' /\ Steps
  <2> DEFINE k == [task[t] EXCEPT !.pc = "done"]
  <2>1. task' = [task EXCEPT ![t] = k] /\ Alive(t) /\ t \in Live
    BY <1>10 DEF FinishCleanup, Alive, Live
  <2>2. k.pc = "done"
    BY <1>0 DEF CleanupTypeOK, Tasks
  <2> HIDE DEF k
  <2>3. Live' = Live \ {t}
    BY <1>0, <2>1, <2>2, LiveStep DEF Busy
  <2>4. CASE released
    <3>1. cleanupLock' = "free" /\ overtaken' = overtaken \union Robbed(t)
      BY <1>10, <2>4 DEF FinishCleanup
    <3>2. Held' /\ Fresh'
      BY <2>1, <2>2, <3>1, FreedAtEnd
    <3> QED BY <1>d, <2>1, <2>3, <3>1, <3>2
  <2>5. CASE ~released
    <3>1. cleanupLock' = cleanupLock /\ overtaken' = overtaken
      BY <1>10, <2>5 DEF FinishCleanup
    <3> QED BY <1>b, <2>1, <2>2, <2>3, <3>1, Kept
  <2> QED BY <2>4, <2>5
<1>11. ASSUME NEW t \in Cleanups, DtUnavailable(t) PROVE Held' /\ Fresh' /\ Steps
  <2> DEFINE k == IF task[t].retries < MaxRetries
                  THEN Requeued(task[t], task[t].retries + 1) ELSE Gone
  <2>1. task' = [task EXCEPT ![t] = k] /\ cleanupLock' = cleanupLock /\ overtaken' = overtaken
        /\ Alive(t) /\ t \in Live
    BY <1>11 DEF DtUnavailable, Alive, Live
  <2>2. k.pc \in {"queued", "lost"}
    BY MessagePlace
  <2> HIDE DEF k
  <2>3. Held' /\ Fresh'
    BY <2>1, <2>2, Kept
  <2>4. CASE k.pc = "queued"
    BY <1>0, <1>a, <2>1, <2>3, <2>4, LiveStep DEF Busy
  <2>5. CASE k.pc = "lost"
    BY <1>0, <1>b, <2>1, <2>3, <2>5, LiveStep DEF Busy
  <2> QED BY <2>2, <2>4, <2>5
<1>12. ASSUME NEW t \in Cleanups, LoseWorker(t) PROVE Held' /\ Fresh' /\ Steps
  <2> DEFINE k == Requeued(task[t], task[t].retries)
  <2>1. task' = [task EXCEPT ![t] = k] /\ cleanupLock' = cleanupLock /\ overtaken' = overtaken
        /\ Alive(t) /\ k.pc = "queued" /\ t \in Live
    BY <1>12, MessagePlace DEF LoseWorker, Alive, Live
  <2> HIDE DEF k
  <2>2. Live' = Live
    BY <1>0, <2>1, LiveStep DEF Busy
  <2> QED BY <1>a, <2>1, <2>2, Kept
<1>13. ASSUME NEW t \in Cleanups, NEW released \in BOOLEAN, AbortCleanup(t, released)
       PROVE  Held' /\ Fresh' /\ Steps
  <2>1. task' = [task EXCEPT ![t] = Gone] /\ Alive(t) /\ t \in Live
    BY <1>13 DEF AbortCleanup, Alive, Live
  <2>2. Gone.pc = "lost"
    BY MessagePlace
  <2>3. Live' = Live \ {t}
    BY <1>0, <2>1, <2>2, LiveStep DEF Busy
  <2>4. CASE released
    <3>1. cleanupLock' = "free" /\ overtaken' = overtaken \union Robbed(t)
      BY <1>13, <2>4 DEF AbortCleanup
    <3>2. Held' /\ Fresh'
      BY <2>1, <2>2, <3>1, FreedAtEnd
    <3> QED BY <1>d, <2>1, <2>3, <3>1, <3>2
  <2>5. CASE ~released
    <3>1. cleanupLock' = cleanupLock /\ overtaken' = overtaken
      BY <1>13, <2>5 DEF AbortCleanup
    <3> QED BY <1>b, <2>1, <2>2, <2>3, <3>1, Kept
  <2> QED BY <2>4, <2>5
<1>14. CASE UNCHANGED cleanupVars
  <2>1. Live' = Live /\ overtaken' = overtaken
    BY <1>14 DEF cleanupVars, Live, Alive
  <2>2. Held' /\ Fresh'
    BY <1>14 DEF cleanupVars, LeaseInv, Held, Fresh, Alive
  <2> QED BY <1>a, <2>1, <2>2 DEF Steps
<1> QED BY <1>1, <1>2, <1>3, <1>4, <1>5, <1>6, <1>7, <1>8, <1>9, <1>10, <1>11, <1>12, <1>13,
           <1>14, <1>15, <1>16
        DEF CleanupNext, NewScan, UpsertProject, DropScan, ListOrphans, ShowOrphans, Steps

\* The key in Redis implements the lease: a clean-up starts only when every other
\* that is under way has lost the lock, and one that has not lost it takes it from
\* nobody, through expiry, failed publications, retries and lost workers.
THEOREM KeyIsLease == CleanupSpec => ImplementsLease
<1>1. CleanupInit => Leased!Init
  BY MessagePlace DEF CleanupInit, Leased!Init, Alive
<1> QED BY <1>1, LeaseInit, LeaseStep, PTL DEF CleanupSpec, ImplementsLease, Leased!Spec
-------------------------------------------------------------------------------

\* A clean-up is after what was posted and what has lost its scan, and a page it has read
\* is of scans that there were.  What a clean-up was asked for is still to be deleted, on
\* its way to the audit log, there, or reported.
Unscanned(k) ==
  /\ k.todo \subseteq k.chosen \union (born \ scans)
  /\ k.pc = "classifying" => k.current \subseteq born

Covered(k, reported) ==
  /\ k.pc \in {"working", "auditing", "skipping", "done"} =>
       k.chosen \subseteq k.todo \union k.current \union reported \union k.failed
  /\ k.pc \in {"paging", "classifying"} => k.chosen = {}
  /\ k.pc \notin {"classifying", "auditing", "skipping"} => k.current = {}
  /\ k.pc = "done" => k.todo = {}

TargetInv ==
  /\ CleanupTypeOK
  /\ shown \subseteq born \ scans
  /\ \A t \in Cleanups : Unscanned(task[t]) /\ Covered(task[t], audited)

\* A step of one clean-up, which touches no scan, no list and no audit row.
LEMMA TargetOf ==
  ASSUME TargetInv, NEW t \in Cleanups, NEW k \in Tasks,
         task' = [task EXCEPT ![t] = k], UNCHANGED <<born, scans, shown>>,
         audited \subseteq audited', Unscanned(k), Covered(k, audited')
  PROVE  /\ shown' \subseteq born' \ scans'
         /\ \A u \in Cleanups : Unscanned(task[u])' /\ Covered(task[u], audited)'
<1>0. shown' \subseteq born' \ scans'
  BY DEF TargetInv
<1> SUFFICES ASSUME NEW u \in Cleanups PROVE Unscanned(task[u])' /\ Covered(task[u], audited)'
  BY <1>0
<1>1. CASE u = t
  <2>1. task'[u] = k
    BY <1>1 DEF TargetInv, CleanupTypeOK
  <2> QED BY <2>1 DEF Unscanned, Covered
<1>2. CASE u # t
  <2>1. task'[u] = task[u] /\ Unscanned(task[u]) /\ Covered(task[u], audited)
    BY <1>2 DEF TargetInv, CleanupTypeOK
  <2> QED BY <2>1 DEF Unscanned, Covered
<1> QED BY <1>1, <1>2

\* Messages carry what was chosen and nothing else.
LEMMA MessageTargets ==
  /\ \A k, n : Requeued(k, n).chosen = k.chosen /\ Requeued(k, n).todo = {}
               /\ Requeued(k, n).pc = "queued" /\ Requeued(k, n).current = {}
  /\ Gone.chosen = {} /\ Gone.todo = {} /\ Gone.pc = "lost" /\ Gone.current = {}
  /\ NotSent.chosen = {} /\ NotSent.todo = {} /\ NotSent.pc = "none" /\ NotSent.current = {}
BY DEF Requeued, Gone, NotSent

\* TargetInv holds at the start.
LEMMA TargetInit == CleanupInit => TargetInv
BY CleanupTypeInit, MessageTargets DEF CleanupInit, TargetInv, Unscanned, Covered

\* Every step keeps both.
LEMMA TargetStep == TargetInv /\ [CleanupNext]_cleanupVars => TargetInv'
<1> SUFFICES ASSUME TargetInv, [CleanupNext]_cleanupVars
             PROVE  /\ shown' \subseteq born' \ scans'
                    /\ \A u \in Cleanups : Unscanned(task[u])' /\ Covered(task[u], audited)'
  BY CleanupTypeStep DEF TargetInv
<1>0. CleanupTypeOK /\ \A t \in Cleanups : task[t] \in Tasks
  BY DEF TargetInv, CleanupTypeOK
<1> DEFINE Targets ==
             /\ shown' \subseteq born' \ scans'
             /\ \A u \in Cleanups : Unscanned(task[u])' /\ Covered(task[u], audited)'
<1>a. ASSUME NEW t \in Cleanups, NEW k \in Tasks, task' = [task EXCEPT ![t] = k],
             UNCHANGED <<born, scans, shown>>, audited \subseteq audited',
             k.chosen \subseteq task[t].chosen, k.todo = {}, k.pc \in {"queued", "lost"},
             k.current = {}
      PROVE  Targets
  <2>1. Unscanned(k) /\ Covered(k, audited')
    BY <1>a DEF TargetInv, Unscanned, Covered
  <2> QED BY <1>a, <2>1, TargetOf
<1> HIDE DEF Targets
<1>1. CASE ExpireLock
  BY <1>1 DEF ExpireLock, dtVars, TargetInv, Unscanned, Covered, Targets
<1>2. ASSUME UNCHANGED <<shown, task, audited>>, born \subseteq born',
             born \ scans \subseteq born' \ scans'
      PROVE  Targets
  BY <1>2 DEF TargetInv, Unscanned, Covered, Targets
<1>15. ASSUME NEW p \in Projects, NewScan(p) \/ UpsertProject(p) \/ DropScan(p) PROVE Targets
  BY <1>2, <1>15 DEF NewScan, UpsertProject, DropScan
<1>16. ASSUME NEW listed \in SUBSET Projects, ListOrphans(listed) PROVE Targets
  BY <1>2, <1>16 DEF ListOrphans
<1>17. CASE ShowOrphans
  <2>1. shown' \subseteq born' \ scans'
    BY <1>17 DEF ShowOrphans, Orphans, TargetInv, CleanupTypeOK
  <2> QED BY <1>17, <2>1 DEF ShowOrphans, TargetInv, Unscanned, Covered, Targets
<1>3. ASSUME NEW t \in Cleanups, NEW chosen \in SUBSET Projects, TakeLock(t, chosen)
      PROVE  Targets
  <2> DEFINE k == [task[t] EXCEPT !.pc = "taken", !.chosen = chosen]
  <2>1. task' = [task EXCEPT ![t] = k] /\ UNCHANGED <<born, scans, shown>> /\ audited' = audited
        /\ task[t].todo = {} /\ task[t].current = {}
    BY <1>3, MessageTargets DEF TakeLock, dtVars
  <2>2. k \in Tasks /\ k.pc = "taken" /\ k.chosen = chosen /\ k.todo = task[t].todo
        /\ k.current = task[t].current
    BY <1>0 DEF Tasks
  <2> HIDE DEF k
  <2>3. Unscanned(k) /\ Covered(k, audited')
    BY <2>1, <2>2 DEF Unscanned, Covered
  <2> QED BY <2>1, <2>2, <2>3, TargetOf DEF Targets
<1>4. ASSUME NEW t \in Cleanups, Publish(t) PROVE Targets
  <2> DEFINE k == [task[t] EXCEPT !.pc = "queued"]
  <2>1. task' = [task EXCEPT ![t] = k] /\ UNCHANGED <<born, scans, shown>> /\ audited' = audited
    BY <1>4 DEF Publish, dtVars
  <2>2. k \in Tasks /\ k.pc = "queued" /\ k.chosen = task[t].chosen /\ k.todo = task[t].todo
        /\ k.current = task[t].current /\ task[t].pc = "taken"
    BY <1>0, <1>4 DEF Tasks, Publish, dtVars
  <2> HIDE DEF k
  <2>3. Unscanned(k) /\ Covered(k, audited')
    BY <2>2 DEF TargetInv, Unscanned, Covered
  <2> QED BY <2>1, <2>2, <2>3, TargetOf DEF Targets
<1>5. ASSUME NEW t \in Cleanups, NEW sent \in BOOLEAN, PublishFails(t, sent) PROVE Targets
  <2> DEFINE k == IF sent THEN Requeued(task[t], 0) ELSE Gone
  <2>1. k \in Tasks /\ k.chosen \subseteq task[t].chosen /\ k.todo = {}
        /\ k.pc \in {"queued", "lost"} /\ k.current = {}
    BY <1>0, MessageType, MessageTargets, CleanupsAssumption
  <2>2. task' = [task EXCEPT ![t] = k] /\ UNCHANGED <<born, scans, shown>> /\ audited' = audited
    BY <1>5 DEF PublishFails, dtVars
  <2> HIDE DEF k
  <2> QED BY <1>a, <2>1, <2>2
<1>6. ASSUME NEW t \in Cleanups, LoseRequest(t) PROVE Targets
  <2>1. task' = [task EXCEPT ![t] = Gone] /\ UNCHANGED <<born, scans, shown>> /\ audited' = audited
    BY <1>6 DEF LoseRequest, dtVars
  <2>2. Gone \in Tasks /\ Gone.chosen \subseteq task[t].chosen
    BY MessageType, MessageTargets
  <2> QED BY <1>a, <2>1, <2>2, MessageTargets
<1>7. ASSUME NEW t \in Cleanups, StartCleanup(t) PROVE Targets
  <2> DEFINE paging == [task[t] EXCEPT !.pc = "paging"]
             working == [task[t] EXCEPT !.pc = "working", !.todo = task[t].chosen]
  <2>1. task' = [task EXCEPT ![t] = IF task[t].chosen = {} THEN paging ELSE working]
        /\ UNCHANGED <<born, scans, shown>> /\ audited' = audited /\ task[t].pc = "queued"
    BY <1>7 DEF StartCleanup, dtVars
  <2>2. /\ paging \in Tasks /\ paging.pc = "paging" /\ paging.chosen = task[t].chosen
        /\ paging.todo = task[t].todo /\ paging.current = task[t].current
    BY <1>0 DEF Tasks
  <2>3. /\ working \in Tasks /\ working.pc = "working" /\ working.chosen = task[t].chosen
        /\ working.todo = task[t].chosen /\ working.current = task[t].current
    BY <1>0 DEF Tasks
  <2> HIDE DEF paging, working
  <2>4. task[t].current = {} /\ task[t].todo \subseteq task[t].chosen \union (born \ scans)
    BY <2>1 DEF TargetInv, Unscanned, Covered
  <2>5. CASE task[t].chosen = {}
    <3>1. Unscanned(paging) /\ Covered(paging, audited')
      BY <2>2, <2>4, <2>5 DEF Unscanned, Covered
    <3> QED BY <2>1, <2>2, <2>5, <3>1, TargetOf DEF Targets
  <2>6. CASE task[t].chosen # {}
    <3>1. Unscanned(working) /\ Covered(working, audited')
      BY <2>3, <2>4 DEF Unscanned, Covered
    <3> QED BY <2>1, <2>3, <2>6, <3>1, TargetOf DEF Targets
  <2> QED BY <2>5, <2>6
<1>18. ASSUME NEW t \in Cleanups, NEW listed \in SUBSET Projects, ListPage(t, listed)
       PROVE  Targets
  <2> DEFINE k == [task[t] EXCEPT !.pc = "classifying", !.current = listed]
  <2>1. task' = [task EXCEPT ![t] = k] /\ UNCHANGED <<born, scans, shown>> /\ audited' = audited
        /\ task[t].pc = "paging" /\ listed \subseteq born
    BY <1>0, <1>18 DEF ListPage, dtVars, CleanupTypeOK
  <2>2. k \in Tasks /\ k.pc = "classifying" /\ k.chosen = task[t].chosen
        /\ k.todo = task[t].todo /\ k.current = listed
    BY <1>0 DEF Tasks
  <2> HIDE DEF k
  <2>3. Unscanned(k) /\ Covered(k, audited')
    BY <2>1, <2>2 DEF TargetInv, Unscanned, Covered
  <2> QED BY <2>1, <2>2, <2>3, TargetOf DEF Targets
<1>19. ASSUME NEW t \in Cleanups, NEW last \in BOOLEAN, ClassifyPage(t, last) PROVE Targets
  <2> DEFINE k == [task[t] EXCEPT !.pc = IF last THEN "working" ELSE "paging",
                     !.todo = task[t].todo \union Orphans(task[t].current), !.current = {}]
  <2>1. task' = [task EXCEPT ![t] = k] /\ UNCHANGED <<born, scans, shown>> /\ audited' = audited
        /\ task[t].pc = "classifying"
    BY <1>19 DEF ClassifyPage, dtVars
  <2>2. k \in Tasks /\ k.pc \in {"working", "paging"} /\ k.chosen = task[t].chosen
        /\ k.todo = task[t].todo \union Orphans(task[t].current) /\ k.current = {}
    BY <1>0 DEF Tasks, Orphans
  <2> HIDE DEF k
  <2>3. Unscanned(k) /\ Covered(k, audited')
    BY <2>1, <2>2 DEF TargetInv, Unscanned, Covered, Orphans
  <2> QED BY <2>1, <2>2, <2>3, TargetOf DEF Targets
<1>8. ASSUME NEW t \in Cleanups, NEW p \in Projects, NEW refused \in BOOLEAN,
             DeleteInDt(t, p, refused)
      PROVE  Targets
  <2> DEFINE k == [task[t] EXCEPT !.pc = IF refused THEN "skipping" ELSE "auditing",
                                  !.todo = task[t].todo \ {p}, !.current = {p}]
  <2>1. task' = [task EXCEPT ![t] = k] /\ UNCHANGED <<born, scans, shown>> /\ audited' = audited
        /\ task[t].pc = "working"
    BY <1>8 DEF DeleteInDt
  <2>2. k \in Tasks /\ k.pc \in {"auditing", "skipping"} /\ k.chosen = task[t].chosen
        /\ k.todo = task[t].todo \ {p} /\ k.current = {p} /\ k.failed = task[t].failed
    BY <1>0 DEF Tasks
  <2> HIDE DEF k
  <2>3. Unscanned(k) /\ Covered(k, audited')
    BY <2>1, <2>2 DEF TargetInv, Unscanned, Covered
  <2> QED BY <2>1, <2>2, <2>3, TargetOf DEF Targets
<1>9. ASSUME NEW t \in Cleanups, NEW written \in BOOLEAN, EmitAudit(t, written)
      PROVE  Targets
  <2> DEFINE k == [task[t] EXCEPT !.pc = "working", !.current = {},
                     !.failed = task[t].failed \union (IF written THEN {} ELSE task[t].current)]
  <2>1. task' = [task EXCEPT ![t] = k] /\ UNCHANGED <<born, scans, shown>>
        /\ task[t].pc \in {"auditing", "skipping"}
        /\ audited' = IF written THEN audited \union task[t].current ELSE audited
    BY <1>9 DEF EmitAudit, dtVars
  <2>2. k \in Tasks /\ k.pc = "working" /\ k.chosen = task[t].chosen
        /\ k.todo = task[t].todo /\ k.current = {}
        /\ k.failed = task[t].failed \union (IF written THEN {} ELSE task[t].current)
    BY <1>0 DEF Tasks
  <2> HIDE DEF k
  <2>3. Unscanned(k) /\ Covered(k, audited')
    BY <2>1, <2>2 DEF TargetInv, Unscanned, Covered
  <2> QED BY <2>1, <2>2, <2>3, TargetOf DEF Targets
<1>10. ASSUME NEW t \in Cleanups, NEW released \in BOOLEAN, FinishCleanup(t, released)
       PROVE  Targets
  <2> DEFINE k == [task[t] EXCEPT !.pc = "done"]
  <2>1. task' = [task EXCEPT ![t] = k] /\ UNCHANGED <<born, scans, shown>> /\ audited' = audited
        /\ task[t].pc = "working" /\ task[t].todo = {}
    BY <1>10 DEF FinishCleanup, dtVars
  <2>2. k \in Tasks /\ k.pc = "done" /\ k.chosen = task[t].chosen /\ k.todo = task[t].todo
        /\ k.current = task[t].current /\ k.failed = task[t].failed
    BY <1>0 DEF Tasks
  <2> HIDE DEF k
  <2>3. Unscanned(k) /\ Covered(k, audited')
    BY <2>1, <2>2 DEF TargetInv, Unscanned, Covered
  <2> QED BY <2>1, <2>2, <2>3, TargetOf DEF Targets
<1>11. ASSUME NEW t \in Cleanups, DtUnavailable(t) PROVE Targets
  <2> DEFINE k == IF task[t].retries < MaxRetries
                  THEN Requeued(task[t], task[t].retries + 1) ELSE Gone
  <2>1. k \in Tasks
    <3>1. task[t].retries \in 0..MaxRetries
      BY <1>0 DEF Tasks
    <3> QED BY <1>0, <3>1, MessageType, CleanupsAssumption
  <2>2. k.chosen \subseteq task[t].chosen /\ k.todo = {} /\ k.pc \in {"queued", "lost"}
        /\ k.current = {}
    BY MessageTargets
  <2>3. task' = [task EXCEPT ![t] = k] /\ UNCHANGED <<born, scans, shown>> /\ audited' = audited
    BY <1>11 DEF DtUnavailable, dtVars
  <2> HIDE DEF k
  <2> QED BY <1>a, <2>1, <2>2, <2>3
<1>12. ASSUME NEW t \in Cleanups, LoseWorker(t) PROVE Targets
  <2> DEFINE k == Requeued(task[t], task[t].retries)
  <2>1. k \in Tasks
    <3>1. task[t].retries \in 0..MaxRetries
      BY <1>0 DEF Tasks
    <3> QED BY <1>0, <3>1, MessageType
  <2>2. k.chosen \subseteq task[t].chosen /\ k.todo = {} /\ k.pc \in {"queued", "lost"}
        /\ k.current = {}
    BY MessageTargets
  <2>3. task' = [task EXCEPT ![t] = k] /\ UNCHANGED <<born, scans, shown>> /\ audited' = audited
    BY <1>12 DEF LoseWorker, dtVars
  <2> HIDE DEF k
  <2> QED BY <1>a, <2>1, <2>2, <2>3
<1>13. ASSUME NEW t \in Cleanups, NEW released \in BOOLEAN, AbortCleanup(t, released)
       PROVE  Targets
  <2>1. task' = [task EXCEPT ![t] = Gone] /\ UNCHANGED <<born, scans, shown>> /\ audited' = audited
    BY <1>13 DEF AbortCleanup, dtVars
  <2>2. Gone \in Tasks /\ Gone.chosen \subseteq task[t].chosen
    BY MessageType, MessageTargets
  <2> QED BY <1>a, <2>1, <2>2, MessageTargets
<1>14. CASE UNCHANGED cleanupVars
  BY <1>14 DEF cleanupVars, dtVars, TargetInv, Unscanned, Covered, Targets
<1> QED BY <1>1, <1>2, <1>3, <1>4, <1>5, <1>6, <1>7, <1>8, <1>9, <1>10, <1>11, <1>12, <1>13,
           <1>14, <1>15, <1>16, <1>17, <1>18, <1>19
        DEF CleanupNext, Targets

\* Only a clean-up deletes a project of DT, and only one it is after.
LEMMA DeletesTargets ==
  TargetInv /\ [CleanupNext]_cleanupVars =>
    \A p \in dtProjects \intersect scans : p \notin dtProjects' =>
      p \notin shown /\ \E t \in Cleanups : p \in task[t].chosen
<1> SUFFICES ASSUME TargetInv, [CleanupNext]_cleanupVars,
                    NEW q \in dtProjects \intersect scans, q \notin dtProjects'
             PROVE  q \notin shown /\ \E t \in Cleanups : q \in task[t].chosen
  OBVIOUS
<1>1. PICK t \in Cleanups, p \in Projects, refused \in BOOLEAN : DeleteInDt(t, p, refused)
  BY DEF CleanupNext, cleanupVars, dtVars, ExpireLock, NewScan, UpsertProject, DropScan,
         ListOrphans, ShowOrphans, TakeLock, Publish, LoseRequest, StartCleanup, ListPage,
         ClassifyPage, PublishFails, EmitAudit, FinishCleanup, DtUnavailable, LoseWorker,
         AbortCleanup
<1>2. q = p /\ q \in task[t].todo
  BY <1>1 DEF DeleteInDt
<1>3. q \in task[t].chosen
  BY <1>2 DEF TargetInv, Unscanned
<1>4. q \notin shown
  BY DEF TargetInv
<1> QED BY <1>3, <1>4

\* A clean-up deletes the DT project of a scan that exists only because its id was posted,
\* and never one that the orphan list has shown: neither scans that come and go after the
\* list was read nor a task that looks for orphans itself, however late, lose a project.
THEOREM OrphansOnly == CleanupSpec => OnlyOrphansGo
<1> QED BY TargetInit, TargetStep, DeletesTargets, PTL DEF CleanupSpec, OnlyOrphansGo

\* A clean-up that ends has accounted for everything it was asked to delete.
THEOREM ChosenAccounted == CleanupSpec => []ChosenAreAccounted
<1>1. TargetInv => ChosenAreAccounted
  BY DEF TargetInv, Covered, ChosenAreAccounted
<1> QED BY <1>1, TargetInit, TargetStep, PTL DEF CleanupSpec

-------------------------------------------------------------------------------
(***************************************************************************)
(* Notifications, for any number of letters and resends: types, and that a *)
(* letter that counts as sent was delivered on every channel that was      *)
(* wanted (DoneMeansDelivered).                                            *)
(*                                                                         *)
(* A task keeps what it has yet to do apart from what it wanted and what   *)
(* got through, and every channel it no longer has to do was reached.      *)
(***************************************************************************)

PrefRows == [on : SUBSET Channels, app : BOOLEAN]
Inboxes == [rows : Nat, unread : Nat]
LetterTasks == [pc      : {"none", "lost", "queued", "sending", "done", "failed"},
                todo    : SUBSET Channels,
                wanted  : SUBSET Channels,
                got     : SUBSET Channels,
                again   : BOOLEAN,
                retries : 0..MaxResends]

\* An attempt that has met no failure for the moment has reached every channel it
\* wants but those it has yet to try; a task that is done has reached them all.
Reached(k) ==
  /\ k.pc = "sending" /\ ~k.again => k.wanted \subseteq k.got \union k.todo
  /\ k.pc = "done" => k.wanted \subseteq k.got

NoticeInv == NoticeTypeOK /\ \A l \in Letters : Reached(letter[l])

LEMMA PrefsAreRow ==
  ASSUME NoticeTypeOK
  PROVE  Prefs \in PrefRows
  BY NoticesAssumption DEF NoticeTypeOK, Prefs, PrefRows, Default

LEMMA NoticeInvInit == NoticeInit => NoticeInv
  BY NoticesAssumption DEF NoticeInit, NoticeInv, NoticeTypeOK, Reached, NoLetter

\* A step of one task.
LEMMA LetterMoves ==
  ASSUME NoticeInv, NEW l \in Letters, NEW k \in LetterTasks, Reached(k),
         letter' = [letter EXCEPT ![l] = k],
         prefs' \subseteq PrefRows, inbox' \in [Letters -> Inboxes],
         lostSends' \in 0..MaxLostSends
  PROVE  NoticeInv'
  <1>1. letter' \in [Letters -> LetterTasks]
        /\ \A m \in Letters : letter'[m] = IF m = l THEN k ELSE letter[m]
    BY DEF NoticeInv, NoticeTypeOK, LetterTasks
  <1>2. NoticeTypeOK'
    BY <1>1 DEF NoticeTypeOK, PrefRows, Inboxes, LetterTasks
  <1>3. ASSUME NEW m \in Letters PROVE Reached(letter[m])'
    <2>1. Reached(letter[m])
      BY DEF NoticeInv
    <2> QED
      BY <1>1, <2>1 DEF Reached
  <1> QED
    BY <1>2, <1>3 DEF NoticeInv

LEMMA NoticeInvStep ==
  ASSUME NoticeInv, [NoticeNext]_noticeVars
  PROVE  NoticeInv'
  <1>0. /\ prefs \subseteq PrefRows /\ inbox \in [Letters -> Inboxes]
        /\ letter \in [Letters -> LetterTasks]
        /\ lostSends \in 0..MaxLostSends
    BY DEF NoticeInv, NoticeTypeOK, PrefRows, Inboxes, LetterTasks
  <1>1. ASSUME NEW on \in SUBSET Channels, NEW app \in BOOLEAN, UpdatePrefs(on, app)
        PROVE  NoticeInv'
    BY <1>1 DEF UpdatePrefs, NoticeInv, NoticeTypeOK, Reached
  <1>2. CASE Reading
    <2>1. inbox' \in [Letters -> Inboxes]
      <3>1. CASE MarkAllRead
        BY <1>0, <3>1 DEF MarkAllRead, Inboxes
      <3>2. ASSUME NEW l \in Letters, MarkRead(l) PROVE inbox' \in [Letters -> Inboxes]
        <4> DEFINE new == [inbox[l] EXCEPT !.unread = @ - 1]
        <4>1. new \in Inboxes
          BY <1>0, <3>2 DEF MarkRead, Inboxes
        <4>2. inbox' = [inbox EXCEPT ![l] = new]
          BY <1>0, <3>2 DEF MarkRead, Inboxes
        <4> HIDE DEF new
        <4> QED
          BY <1>0, <4>1, <4>2
      <3> QED
        BY <1>2, <3>1, <3>2 DEF Reading
    <2>2. UNCHANGED <<prefs, letter, lostSends>>
      BY <1>2 DEF Reading, MarkAllRead, MarkRead
    <2> QED
      BY <2>1, <2>2 DEF NoticeInv, NoticeTypeOK, Reached, Inboxes
  <1>3. ASSUME NEW l \in Letters, NEW taken \in BOOLEAN, PostLetter(l, taken)
        PROVE  NoticeInv'
    <2> DEFINE k == [letter[l] EXCEPT !.pc = IF taken THEN "queued" ELSE "lost"]
    <2>1. k \in LetterTasks /\ Reached(k)
      BY <1>0 DEF LetterTasks, Reached
    <2>2. letter' = [letter EXCEPT ![l] = k] /\ UNCHANGED <<prefs, inbox, lostSends>>
      BY <1>3 DEF PostLetter
    <2> HIDE DEF k
    <2> QED
      BY <1>0, <2>1, <2>2, LetterMoves
  <1>4. ASSUME NEW l \in Letters, ApplyPrefs(l)
        PROVE  NoticeInv'
    <2> DEFINE k == [letter[l] EXCEPT !.pc = "sending", !.todo = Prefs.on, !.wanted = Prefs.on,
                                      !.again = FALSE]
               box == [rows |-> inbox[l].rows + 1, unread |-> inbox[l].unread + 1]
    <2>1. Prefs \in PrefRows
      BY PrefsAreRow DEF NoticeInv
    <2>2. k \in LetterTasks /\ Reached(k)
      BY <1>0, <2>1 DEF LetterTasks, Reached, PrefRows
    <2>3. box \in Inboxes
      BY <1>0 DEF Inboxes
    <2>4. /\ letter' = [letter EXCEPT ![l] = k]
          /\ inbox' = IF Prefs.app THEN [inbox EXCEPT ![l] = box] ELSE inbox
          /\ prefs' = {Prefs} /\ UNCHANGED lostSends
      BY <1>4 DEF ApplyPrefs
    <2> HIDE DEF k, box
    <2>5. inbox' \in [Letters -> Inboxes]
      BY <1>0, <2>3, <2>4
    <2> QED
      BY <1>0, <2>1, <2>2, <2>4, <2>5, LetterMoves
  <1>5. ASSUME NEW l \in Letters, NEW c \in Channels, NEW outcome \in Outcomes,
               Send(l, c, outcome)
        PROVE  NoticeInv'
    <2>1. PICK again \in BOOLEAN : again = (letter[l].again \/ outcome = "transient")
      OBVIOUS
    <2> DEFINE got == IF outcome = "transient" THEN letter[l].got ELSE letter[l].got \union {c}
               k == [letter[l] EXCEPT !.todo = @ \ {c}, !.again = again, !.got = got]
    <2>2. k \in LetterTasks
      BY <1>0 DEF LetterTasks
    <2>3. Reached(letter[l]) /\ letter[l].again \in BOOLEAN
      BY <1>0 DEF NoticeInv, LetterTasks
    <2>4. /\ k.pc = "sending" /\ k.todo = letter[l].todo \ {c} /\ k.again = again
          /\ k.got = got /\ k.wanted = letter[l].wanted /\ letter[l].pc = "sending"
      BY <1>0, <1>5 DEF LetterTasks, Send
    <2>5. letter' = [letter EXCEPT ![l] = k] /\ UNCHANGED <<prefs, inbox, lostSends>>
      <3>1. letter' = [letter EXCEPT ![l] =
                         [letter[l] EXCEPT !.todo = letter[l].todo \ {c},
                                           !.again = letter[l].again \/ outcome = "transient",
                                           !.got = got]]
        BY <1>5 DEF Send
      <3> QED
        BY <1>5, <2>1, <3>1, Zenon DEF Send
    <2> HIDE DEF k
    <2>6. Reached(k)
      BY <2>1, <2>3, <2>4 DEF Reached
    <2> QED
      BY <1>0, <2>2, <2>5, <2>6, LetterMoves
  <1>6. ASSUME NEW l \in Letters, EndAttempt(l)
        PROVE  NoticeInv'
    <2> DEFINE k == letter[l]
               done == [k EXCEPT !.pc = "done"]
               queued == [k EXCEPT !.pc = "queued", !.retries = @ + 1, !.wanted = {}]
               failed == [k EXCEPT !.pc = "failed"]
    <2>1. k \in LetterTasks /\ Reached(k) /\ k.pc = "sending" /\ k.todo = {}
      BY <1>0, <1>6 DEF NoticeInv, EndAttempt
    <2>2. /\ UNCHANGED <<prefs, inbox, lostSends>>
          /\ letter' = [letter EXCEPT ![l] =
                          IF ~k.again THEN done
                          ELSE IF k.retries < MaxResends THEN queued ELSE failed]
      BY <1>6 DEF EndAttempt
    <2>3. CASE ~k.again
      <3>1. done \in LetterTasks /\ Reached(done)
        BY <2>1, <2>3 DEF LetterTasks, Reached
      <3>2. letter' = [letter EXCEPT ![l] = done]
        BY <2>2, <2>3
      <3> HIDE DEF done
      <3> QED
        BY <1>0, <2>2, <3>1, <3>2, LetterMoves
    <2>4. CASE k.again /\ k.retries < MaxResends
      <3>0. k.retries + 1 \in 0..MaxResends
        BY <2>1, <2>4, NoticesAssumption DEF LetterTasks
      <3>1. queued \in LetterTasks /\ Reached(queued)
        BY <2>1, <3>0 DEF LetterTasks, Reached
      <3>2. letter' = [letter EXCEPT ![l] = queued]
        BY <2>2, <2>4
      <3> HIDE DEF queued
      <3> QED
        BY <1>0, <2>2, <3>1, <3>2, LetterMoves
    <2>5. CASE k.again /\ ~(k.retries < MaxResends)
      <3>1. failed \in LetterTasks /\ Reached(failed)
        BY <2>1 DEF LetterTasks, Reached
      <3>2. letter' = [letter EXCEPT ![l] = failed]
        BY <2>2, <2>5
      <3> HIDE DEF failed
      <3> QED
        BY <1>0, <2>2, <3>1, <3>2, LetterMoves
    <2> QED
      BY <2>3, <2>4, <2>5
  <1>7. ASSUME NEW l \in Letters, LoseSender(l)
        PROVE  NoticeInv'
    <2> DEFINE k == [letter[l] EXCEPT !.pc = "queued", !.todo = {}, !.wanted = {}]
    <2>1. k \in LetterTasks /\ Reached(k)
      BY <1>0 DEF LetterTasks, Reached
    <2>2. letter' = [letter EXCEPT ![l] = k] /\ UNCHANGED <<prefs, inbox>>
      BY <1>7 DEF LoseSender
    <2>3. lostSends' \in 0..MaxLostSends
      BY <1>0, <1>7, NoticesAssumption DEF LoseSender
    <2> HIDE DEF k
    <2> QED
      BY <1>0, <2>1, <2>2, <2>3, LetterMoves
  <1>8. CASE UNCHANGED noticeVars
    BY <1>8 DEF noticeVars, NoticeInv, NoticeTypeOK, Reached
  <1> QED
    BY <1>1, <1>2, <1>3, <1>4, <1>5, <1>6, <1>7, <1>8 DEF NoticeNext, Work

LEMMA NoticeInvariant == NoticeSpec => []NoticeInv
  BY NoticeInvInit, NoticeInvStep, PTL DEF NoticeSpec

\* Every variable of Notices stays in its domain.
THEOREM NoticeTypeCorrect == NoticeSpec => []NoticeTypeOK
  BY NoticeInvariant, PTL DEF NoticeInv

\* A notification that counts as sent was delivered, or refused for good, wherever
\* its last attempt wanted it, through any number of failures, retries and lost
\* workers.
THEOREM SentIsDelivered == NoticeSpec => []DoneMeansDelivered
  <1>1. NoticeInv => DoneMeansDelivered
    BY DEF NoticeInv, Reached, DoneMeansDelivered
  <1> QED
    BY <1>1, NoticeInvariant, PTL

\* The rows of a notification: one for each attempt that began.  Whoever is queued
\* has yet to begin its next one.
Begun(k) == IF k.pc \in {"none", "lost", "queued"} THEN 0 ELSE 1

Allowed(k, losses) == k.retries + losses + Begun(k)

Copies(l) ==
  /\ inbox[l].rows <= Allowed(letter[l], lostSends)
  /\ inbox[l].unread <= inbox[l].rows

CopiesInv == \A l \in Letters : Copies(l)

LEMMA CopiesStep ==
  ASSUME NoticeTypeOK, CopiesInv, [NoticeNext]_noticeVars
  PROVE  CopiesInv'
  <1>0. /\ inbox \in [Letters -> Inboxes] /\ letter \in [Letters -> LetterTasks]
        /\ lostSends \in Nat /\ \A l \in Letters : Copies(l)
    BY NoticesAssumption DEF NoticeTypeOK, CopiesInv, Inboxes, LetterTasks
  <1>1. ASSUME NEW l \in Letters PROVE letter[l].retries \in Nat /\ Begun(letter[l]) \in 0..1
    BY <1>0, NoticesAssumption DEF LetterTasks, Begun
  \* A step of one task, which leaves the inbox alone.
  <1>2. ASSUME NEW l \in Letters, \A m \in Letters : m # l => letter'[m] = letter[m],
               UNCHANGED inbox, lostSends' \in Nat, lostSends <= lostSends',
               Allowed(letter'[l], lostSends') \in Nat,
               Allowed(letter[l], lostSends) <= Allowed(letter'[l], lostSends')
        PROVE  CopiesInv'
    <2> SUFFICES ASSUME NEW m \in Letters PROVE Copies(m)'
      BY DEF CopiesInv
    <2>1. inbox[m].rows \in Nat /\ inbox[m].unread \in Nat
      BY <1>0 DEF Inboxes
    <2>2. Copies(m) /\ Allowed(letter[m], lostSends) \in Nat
      BY <1>0, <1>1 DEF Allowed
    <2>3. CASE m = l
      BY <1>0, <1>2, <2>1, <2>2, <2>3 DEF Copies
    <2>4. CASE m # l
      <3>1. Allowed(letter[m], lostSends) <= Allowed(letter[m], lostSends')
        BY <1>0, <1>1, <1>2 DEF Allowed
      <3>2. Allowed(letter[m], lostSends') \in Nat
        BY <1>0, <1>1, <1>2 DEF Allowed
      <3> QED
        BY <1>2, <2>1, <2>2, <2>4, <3>1, <3>2 DEF Copies
    <2> QED
      BY <2>3, <2>4
  <1>3. ASSUME UNCHANGED <<letter, lostSends>>,
               \A l \in Letters : inbox'[l].rows = inbox[l].rows
                                  /\ inbox'[l].unread <= inbox[l].rows
        PROVE  CopiesInv'
    BY <1>0, <1>3 DEF CopiesInv, Copies
  <1>4. ASSUME NEW on \in SUBSET Channels, NEW app \in BOOLEAN, UpdatePrefs(on, app)
        PROVE  CopiesInv'
    BY <1>0, <1>3, <1>4 DEF UpdatePrefs, Copies
  <1>5. CASE Reading
    <2>1. UNCHANGED <<letter, lostSends>>
      BY <1>5 DEF Reading, MarkAllRead, MarkRead
    <2>2. ASSUME NEW m \in Letters
          PROVE  inbox'[m].rows = inbox[m].rows /\ inbox'[m].unread <= inbox[m].rows
      <3>1. inbox[m].rows \in Nat /\ inbox[m].unread \in Nat /\ inbox[m].unread <= inbox[m].rows
        BY <1>0 DEF Inboxes, Copies
      <3>2. CASE MarkAllRead
        BY <1>0, <3>1, <3>2 DEF MarkAllRead, Inboxes
      <3>3. ASSUME NEW l \in Letters, MarkRead(l)
            PROVE  inbox'[m].rows = inbox[m].rows /\ inbox'[m].unread <= inbox[m].rows
        BY <1>0, <3>1, <3>3 DEF MarkRead, Inboxes
      <3> QED
        BY <1>5, <3>2, <3>3 DEF Reading
    <2> QED
      BY <1>3, <2>1, <2>2
  <1>6. ASSUME NEW l \in Letters, NEW taken \in BOOLEAN, PostLetter(l, taken)
        PROVE  CopiesInv'
    <2>1. /\ \A m \in Letters : m # l => letter'[m] = letter[m]
          /\ letter'[l].retries = letter[l].retries
          /\ letter[l].pc = "none" /\ letter'[l].pc \in {"queued", "lost"}
          /\ UNCHANGED <<inbox, lostSends>>
      BY <1>0, <1>6 DEF PostLetter, NoLetter, LetterTasks
    <2>2. Begun(letter[l]) = 0 /\ Begun(letter'[l]) = 0
      BY <2>1 DEF Begun
    <2>3. /\ Allowed(letter'[l], lostSends') \in Nat
          /\ Allowed(letter[l], lostSends) <= Allowed(letter'[l], lostSends')
      BY <1>0, <1>1, <2>1, <2>2 DEF Allowed
    <2> QED
      BY <1>0, <1>2, <2>1, <2>3
  <1>7. ASSUME NEW l \in Letters, ApplyPrefs(l)
        PROVE  CopiesInv'
    <2> SUFFICES ASSUME NEW m \in Letters PROVE Copies(m)'
      BY DEF CopiesInv
    <2>1. inbox[m].rows \in Nat /\ inbox[m].unread \in Nat
      BY <1>0 DEF Inboxes
    <2>2. UNCHANGED lostSends /\ letter[l].pc = "queued"
      BY <1>7 DEF ApplyPrefs
    <2>3. CASE m # l
      <3>1. letter'[m] = letter[m] /\ inbox'[m] = inbox[m]
        BY <1>0, <1>7, <2>3 DEF ApplyPrefs
      <3> QED
        BY <1>0, <2>2, <3>1 DEF Copies
    <2>4. CASE m = l
      <3>1. letter'[l].pc = "sending" /\ letter'[l].retries = letter[l].retries
        BY <1>0, <1>7 DEF ApplyPrefs, LetterTasks
      <3>2. \/ inbox'[l] = inbox[l]
            \/ inbox'[l] = [rows |-> inbox[l].rows + 1, unread |-> inbox[l].unread + 1]
        BY <1>0, <1>7 DEF ApplyPrefs
      <3>3. /\ inbox'[l].rows <= inbox[l].rows + 1
            /\ inbox'[l].unread <= inbox'[l].rows
        BY <1>0, <2>1, <2>4, <3>2 DEF Copies
      <3>4. inbox[l].rows <= letter[l].retries + lostSends /\ Begun(letter'[l]) = 1
        BY <1>0, <1>1, <2>2, <3>1 DEF Copies, Allowed, Begun
      <3>5. inbox'[l].rows \in Nat
        BY <2>1, <2>4, <3>2
      <3> QED
        BY <1>0, <1>1, <2>1, <2>2, <2>4, <3>1, <3>3, <3>4, <3>5 DEF Copies, Allowed
    <2> QED
      BY <2>3, <2>4
  <1>8. ASSUME NEW l \in Letters, NEW c \in Channels, NEW outcome \in Outcomes,
               Send(l, c, outcome)
        PROVE  CopiesInv'
    <2>1. PICK todo, again, got :
            letter' = [letter EXCEPT ![l] = [letter[l] EXCEPT !.todo = todo, !.again = again,
                                                              !.got = got]]
      BY <1>8, Zenon DEF Send
    <2>2. /\ \A m \in Letters : m # l => letter'[m] = letter[m]
          /\ letter'[l].retries = letter[l].retries /\ letter'[l].pc = letter[l].pc
      BY <1>0, <2>1 DEF LetterTasks
    <2>3. UNCHANGED <<inbox, lostSends>>
      BY <1>8 DEF Send
    <2>4. Allowed(letter'[l], lostSends') = Allowed(letter[l], lostSends)
      BY <2>2, <2>3 DEF Allowed, Begun
    <2>5. Allowed(letter[l], lostSends) \in Nat
      BY <1>0, <1>1 DEF Allowed
    <2> QED
      BY <1>0, <1>2, <2>2, <2>3, <2>4, <2>5
  <1>9. ASSUME NEW l \in Letters, EndAttempt(l)
        PROVE  CopiesInv'
    <2>1. /\ \A m \in Letters : m # l => letter'[m] = letter[m]
          /\ letter[l].pc = "sending" /\ UNCHANGED <<inbox, lostSends>>
      BY <1>0, <1>9 DEF EndAttempt
    <2>2. CASE letter'[l].pc \in {"done", "failed"} /\ letter'[l].retries = letter[l].retries
      <3>1. Allowed(letter'[l], lostSends') = Allowed(letter[l], lostSends)
        BY <2>1, <2>2 DEF Allowed, Begun
      <3>2. Allowed(letter[l], lostSends) \in Nat
        BY <1>0, <1>1 DEF Allowed
      <3> QED
        BY <1>0, <1>2, <2>1, <3>1, <3>2
    <2>3. CASE letter'[l].pc = "queued" /\ letter'[l].retries = letter[l].retries + 1
      <3>1. Begun(letter'[l]) = 0 /\ Begun(letter[l]) = 1
        BY <2>1, <2>3 DEF Begun
      <3>2. /\ Allowed(letter'[l], lostSends') \in Nat
            /\ Allowed(letter[l], lostSends) <= Allowed(letter'[l], lostSends')
        BY <1>0, <1>1, <2>1, <2>3, <3>1 DEF Allowed
      <3> QED
        BY <1>0, <1>2, <2>1, <3>2
    <2> QED
      BY <1>0, <1>9, <2>2, <2>3 DEF EndAttempt, LetterTasks
  <1>10. ASSUME NEW l \in Letters, LoseSender(l)
         PROVE  CopiesInv'
    <2>1. /\ \A m \in Letters : m # l => letter'[m] = letter[m]
          /\ letter'[l].retries = letter[l].retries
          /\ letter[l].pc = "sending" /\ letter'[l].pc = "queued"
          /\ lostSends' = lostSends + 1 /\ UNCHANGED inbox
      BY <1>0, <1>10 DEF LoseSender, LetterTasks
    <2>2. Begun(letter[l]) = 1 /\ Begun(letter'[l]) = 0
      BY <2>1 DEF Begun
    <2>3. /\ Allowed(letter'[l], lostSends') \in Nat
          /\ Allowed(letter[l], lostSends) <= Allowed(letter'[l], lostSends')
      BY <1>0, <1>1, <2>1, <2>2 DEF Allowed
    <2>4. lostSends' \in Nat /\ lostSends <= lostSends'
      BY <1>0, <2>1
    <2> QED
      BY <1>2, <2>1, <2>3, <2>4
  <1>11. CASE UNCHANGED noticeVars
    BY <1>0, <1>11 DEF noticeVars, CopiesInv, Copies
  <1> QED
    BY <1>4, <1>5, <1>6, <1>7, <1>8, <1>9, <1>10, <1>11 DEF NoticeNext, Work

\* A notification is in the inbox once at most, and once more for each retry of its
\* task and each worker lost, whatever its channels answer and whoever reads it.
THEOREM CopiesCounted == NoticeSpec => []CopiesHaveCause
  <1>1. NoticeInit => CopiesInv
    BY DEF NoticeInit, NoLetter, CopiesInv, Copies, Allowed, Begun
  <1>2. NoticeTypeOK /\ CopiesInv => CopiesHaveCause
    <2> SUFFICES ASSUME NoticeTypeOK, CopiesInv, NEW l \in Letters
                 PROVE  /\ inbox[l].rows <= 1 + letter[l].retries + lostSends
                        /\ inbox[l].unread <= inbox[l].rows
      BY DEF CopiesHaveCause
    <2>1. letter[l].retries \in Nat /\ lostSends \in Nat /\ inbox[l].rows \in Nat
          /\ Begun(letter[l]) \in 0..1
      BY NoticesAssumption DEF NoticeTypeOK, Begun
    <2> QED
      BY <2>1 DEF CopiesInv, Copies, Allowed
  <1>3. NoticeInv => NoticeTypeOK
    BY DEF NoticeInv
  <1> QED
    BY <1>1, <1>2, <1>3, NoticeInvariant, CopiesStep, PTL DEF NoticeSpec

-------------------------------------------------------------------------------
(***************************************************************************)
(* The catalogue, for any number of packages and scans: types, and that    *)
(* the report of a scan is there as a whole or not at all (AllOrNothing).  *)
(***************************************************************************)


Running(t) == t.pc \in {"at", "insert", "update"}

Writes(w) == {k \in Shared : writing[k] = w}

\* What a transaction has stored and what it has yet to do are its report together,
\* unless the server aborted it; what it has to write is at the head of its list.
OnCourse(w) ==
  /\ Running(tx[w]) /\ ~tx[w].aborted =>
       /\ OwnRows(tx[w].report) = tx[w].fresh \union OwnRows(tx[w].todo)
       /\ Needed(tx[w].report) \subseteq catalogue \union Writes(w) \union Needed(tx[w].todo)
  /\ tx[w].pc = "idle" => tx[w].fresh = {}
  /\ tx[w].pc \in {"insert", "update"} => tx[w].todo # <<>> /\ ~tx[w].aborted
  /\ tx[w].pc = "insert" => Now(w).op \in {"get", "conclude", "put"}
  /\ tx[w].pc = "update" => Now(w).op \in {"put", "cache"}

\* Nothing is left of a scan before its commit, nor by a commit that was a rollback.
Left(w) ==
  /\ tx[w].pc # "committed" \/ tx[w].aborted => rows[w] = {}
  /\ tx[w].pc = "committed" /\ ~tx[w].aborted =>
       rows[w] = OwnRows(tx[w].report) /\ Needed(tx[w].report) \subseteq catalogue

CatalogueInv == CatalogueTypeOK /\ \A w \in Writers : OnCourse(w) /\ Left(w)

LEMMA RowsOfList ==
  ASSUME NEW q \in Seq(Statements), q # <<>>
  PROVE  /\ Head(q) \in Statements
         /\ Tail(q) \in Seq(Statements)
         /\ OwnRows(q) = OwnRows(Tail(q)) \union
              (IF Head(q).op = "insert" THEN {Head(q).row} ELSE {})
         /\ Needed(q) = Needed(Tail(q)) \union
              (IF Head(q).op \in {"get", "put"} THEN {Head(q).row} ELSE {})
  <1>1. /\ Head(q) \in Statements /\ Tail(q) \in Seq(Statements)
        /\ Len(q) \in Nat /\ Len(q) > 0 /\ Head(q) = q[1] /\ Len(Tail(q)) = Len(q) - 1
        /\ \A i \in 1..Len(Tail(q)) : Tail(q)[i] = q[i + 1]
        /\ DOMAIN q = 1..Len(q) /\ DOMAIN Tail(q) = 1..Len(Tail(q))
    OBVIOUS
  <1>2. Range(q) = {Head(q)} \union Range(Tail(q))
    <2>1. ASSUME NEW s \in Range(q) PROVE s \in {Head(q)} \union Range(Tail(q))
      <3>1. PICK i \in 1..Len(q) : s = q[i]
        BY <1>1, <2>1 DEF Range
      <3>2. CASE i = 1
        BY <1>1, <3>1, <3>2
      <3>3. CASE i # 1
        <4>1. i - 1 \in 1..Len(Tail(q)) /\ Tail(q)[i - 1] = s
          BY <1>1, <3>1, <3>3
        <4> QED
          BY <1>1, <4>1 DEF Range
      <3> QED
        BY <3>2, <3>3
    <2>2. ASSUME NEW s \in Range(Tail(q)) PROVE s \in Range(q)
      <3>1. PICK i \in 1..Len(Tail(q)) : s = Tail(q)[i]
        BY <1>1, <2>2 DEF Range
      <3>2. i + 1 \in 1..Len(q) /\ q[i + 1] = s
        BY <1>1, <3>1
      <3> QED
        BY <1>1, <3>2 DEF Range
    <2>3. Head(q) \in Range(q)
      BY <1>1 DEF Range
    <2> QED
      BY <2>1, <2>2, <2>3
  <1>3. OwnRows(q) = OwnRows(Tail(q)) \union
          (IF Head(q).op = "insert" THEN {Head(q).row} ELSE {})
    BY <1>2 DEF OwnRows
  <1>4. Needed(q) = Needed(Tail(q)) \union
          (IF Head(q).op \in {"get", "put"} THEN {Head(q).row} ELSE {})
    BY <1>2 DEF Needed
  <1> QED
    BY <1>1, <1>3, <1>4

LEMMA RowsOfNothing == OwnRows(<<>>) = {} /\ Needed(<<>>) = {}
  BY DEF OwnRows, Needed, Range

LEMMA SharedRows ==
  ASSUME NEW p \in Packages
  PROVE  /\ <<"source", p>> \in Shared /\ <<"container", p>> \in Shared
         /\ <<"cache", p>> \in Shared
  BY DEF Shared

LEMMA ReportsAreLists == Reports \subseteq Seq(Statements)
  <1>1. ASSUME NEW E, E \subseteq Seq(Statements)
        PROVE  Lists(E) \subseteq Seq(Statements)
    <2>1. ASSUME NEW e \in E \X E PROVE e[1] \o e[2] \in Seq(Statements)
      <3>1. e[1] \in Seq(Statements) /\ e[2] \in Seq(Statements)
        BY <1>1
      <3> QED
        BY <3>1
    <2>2. {e[1] \o e[2] : e \in {d \in E \X E : d[1] # d[2]}} \subseteq Seq(Statements)
      BY <2>1
    <2> QED
      BY <1>1, <2>2 DEF Lists
  <1>2. /\ \A k \in Shared : Get(k) \in Statements /\ Conclude(k) \in Statements
        /\ \A k \in Shared : Put(k) \in Statements /\ Cache(k) \in Statements
        /\ \A k \in Own : Insert(k) \in Statements
    BY DEF Get, Conclude, Put, Cache, Insert, Statements
  <1>3. Licence \in Shared
    BY DEF Licence, Shared
  <1>4. ASSUME NEW p \in Packages PROVE SourceEntry(p) \in Seq(Statements)
    <2>1. p \in Own
      BY DEF Own
    <2>2. /\ Get(<<"source", p>>) \in Statements /\ Insert(p) \in Statements
          /\ Get(Licence) \in Statements
          /\ Cache(<<"cache", p>>) \in Statements /\ Conclude(Licence) \in Statements
      BY <1>2, <1>3, <2>1, SharedRows
    <2>3. ASSUME NEW a \in Statements, NEW b \in Statements, NEW c \in Statements,
                 NEW d \in Statements
          PROVE  <<a, b>> \o <<c>> \in Seq(Statements) /\ <<a, b>> \o <<c, d>> \in Seq(Statements)
      OBVIOUS
    <2> QED
      BY <2>2, <2>3 DEF SourceEntry
  <1>5. ASSUME NEW e \in Found PROVE ImageEntry(e) \in Seq(Statements)
    <2>1. e[1] \in Packages /\ e[2] \in Cves /\ e \in Own /\ e[1] \in Own
      BY CatalogueAssumption DEF Own
    <2>2. <<"vulnerability", e[2]>> \in Shared
      BY <2>1 DEF Shared
    <2>3. /\ Get(<<"container", e[1]>>) \in Statements /\ Insert(e[1]) \in Statements
          /\ Get(<<"vulnerability", e[2]>>) \in Statements /\ Insert(e) \in Statements
      BY <1>2, <2>1, <2>2, SharedRows
    <2>4. ASSUME NEW a \in Statements, NEW b \in Statements, NEW c \in Statements,
                 NEW d \in Statements
          PROVE  <<a, b, c, d>> \in Seq(Statements)
      OBVIOUS
    <2> QED
      BY <2>3, <2>4 DEF ImageEntry
  <1>6. ASSUME NEW v \in Cves PROVE ResyncEntry(v) \in Seq(Statements)
    <2>1. <<"vulnerability", v>> \in Shared
      BY DEF Shared
    <2>2. Put(<<"vulnerability", v>>) \in Statements
      BY <1>2, <2>1
    <2> QED
      BY <2>2 DEF ResyncEntry
  <1> QED
    BY <1>1, <1>4, <1>5, <1>6 DEF Reports

LEMMA CatalogueInvInit == CatalogueInit => CatalogueInv
  BY DEF CatalogueInit, CatalogueInv, CatalogueTypeOK, OnCourse, Left, NoTx, Running,
         Transactions, Shared

\* The others are as they were when a step of w adds to the catalogue, changes no
\* row that another transaction writes, and touches no transaction but its own.
LEMMA OthersKeep ==
  ASSUME CatalogueInv, NEW w \in Writers,
         catalogue \subseteq catalogue', catalogue' \subseteq Shared,
         writing' \in [Shared -> Writers \union {Nobody}],
         \A k \in Shared : writing[k] \notin {w, Nobody} => writing'[k] = writing[k],
         NEW t \in Transactions, tx' = [tx EXCEPT ![w] = t],
         rows' \in [Writers -> SUBSET Own], \A q \in Writers : q # w => rows'[q] = rows[q],
         OnCourse(w)', Left(w)'
  PROVE  CatalogueInv'
  <1>1. tx' \in [Writers -> Transactions]
        /\ \A q \in Writers : tx'[q] = IF q = w THEN t ELSE tx[q]
    BY DEF CatalogueInv, CatalogueTypeOK
  <1>2. CatalogueTypeOK'
    BY <1>1 DEF CatalogueTypeOK
  <1>3. ASSUME NEW q \in Writers, q # w PROVE OnCourse(q)' /\ Left(q)'
    <2>1. tx'[q] = tx[q] /\ rows'[q] = rows[q]
      BY <1>1, <1>3
    <2>2. Writes(q) \subseteq Writes(q)'
      BY <1>3, CatalogueAssumption DEF Writes
    <2>3. OnCourse(q) /\ Left(q)
      BY DEF CatalogueInv
    <2>4. OnCourse(q)'
      BY <2>1, <2>2, <2>3 DEF OnCourse, Now
    <2>5. Left(q)'
      BY <2>1, <2>3 DEF Left
    <2> QED
      BY <2>4, <2>5
  <1> QED
    BY <1>2, <1>3 DEF CatalogueInv

LEMMA FailKeeps ==
  ASSUME CatalogueInv, NEW w \in Writers, Fail(w), tx[w].pc # "committed"
  PROVE  CatalogueInv'
  <1> DEFINE t == [tx[w] EXCEPT !.pc = "failed"]
  <1>1. tx[w] \in Transactions /\ OnCourse(w) /\ Left(w) /\ CatalogueTypeOK
    BY DEF CatalogueInv, CatalogueTypeOK
  <1>2. t \in Transactions /\ t.pc = "failed" /\ tx' = [tx EXCEPT ![w] = t] /\ tx'[w] = t
    BY <1>1 DEF Fail, Transactions, CatalogueTypeOK
  <1>3. /\ writing' \in [Shared -> Writers \union {Nobody}]
        /\ \A k \in Shared : writing[k] \notin {w, Nobody} => writing'[k] = writing[k]
    BY <1>1 DEF Fail, GiveUp, CatalogueTypeOK
  <1>4. catalogue' = catalogue /\ rows' = rows
    BY DEF Fail
  <1>5. OnCourse(w)' /\ Left(w)'
    BY <1>1, <1>2, <1>4 DEF OnCourse, Left, Running
  <1>6. PICK u : u = t
    OBVIOUS
  <1> HIDE DEF t
  <1> QED
    BY <1>1, <1>2, <1>3, <1>4, <1>5, <1>6, OthersKeep DEF CatalogueTypeOK

\* The end of a statement that leaves the tables alone or writes one row.
LEMMA StatementEnds ==
  ASSUME CatalogueInv, NEW w \in Writers, Running(tx[w]), ~tx[w].aborted, tx[w].todo # <<>>,
         Now(w).op # "insert", UNCHANGED <<catalogue, rows>>, tx' = [tx EXCEPT ![w] = Done(w)],
         writing' \in [Shared -> Writers \union {Nobody}],
         \A k \in Shared : writing[k] \notin {w, Nobody} => writing'[k] = writing[k],
         Writes(w) \subseteq Writes(w)',
         Now(w).op \in {"get", "put"} => Now(w).row \in catalogue \union Writes(w)'
  PROVE  CatalogueInv'
  <1>1. tx[w] \in Transactions /\ OnCourse(w) /\ Left(w) /\ CatalogueTypeOK
    BY DEF CatalogueInv, CatalogueTypeOK
  <1>2. tx[w].todo \in Seq(Statements)
    BY <1>1 DEF Transactions
  <1>3. /\ Tail(tx[w].todo) \in Seq(Statements)
        /\ OwnRows(tx[w].todo) = OwnRows(Tail(tx[w].todo))
        /\ Needed(tx[w].todo) = Needed(Tail(tx[w].todo)) \union
             (IF Now(w).op \in {"get", "put"} THEN {Now(w).row} ELSE {})
    BY <1>2, RowsOfList DEF Now
  <1>4. PICK t : t = Done(w)
    OBVIOUS
  <1>5. /\ t \in Transactions /\ t.pc = "at" /\ t.report = tx[w].report
        /\ t.todo = Tail(tx[w].todo) /\ t.fresh = tx[w].fresh /\ ~t.aborted
    BY <1>1, <1>3, <1>4 DEF Done, Transactions
  <1>6. tx' = [tx EXCEPT ![w] = t] /\ tx'[w] = t
    BY <1>1, <1>4 DEF CatalogueTypeOK
  <1>7. OnCourse(w)'
    <2>1. OwnRows(t.report) = t.fresh \union OwnRows(t.todo)
      BY <1>1, <1>3, <1>5 DEF OnCourse
    <2>2. Needed(t.report) \subseteq catalogue \union Writes(w)' \union Needed(t.todo)
      BY <1>1, <1>3, <1>5 DEF OnCourse
    <2> QED
      BY <1>5, <1>6, <2>1, <2>2 DEF OnCourse
  <1>8. Left(w)'
    BY <1>1, <1>5, <1>6 DEF Left, Running
  <1> QED
    BY <1>1, <1>5, <1>6, <1>7, <1>8, OthersKeep DEF CatalogueTypeOK

LEMMA CatalogueInvStep ==
  ASSUME CatalogueInv, [CatalogueNext]_catalogueVars
  PROVE  CatalogueInv'
  <1>1. CatalogueTypeOK /\ \A w \in Writers : tx[w] \in Transactions /\ OnCourse(w) /\ Left(w)
    BY DEF CatalogueInv, CatalogueTypeOK
  <1>2. ASSUME NEW w \in Writers, NEW report \in Reports, Begin(w, report)
        PROVE  CatalogueInv'
    <2>1. PICK t : t = [tx[w] EXCEPT !.pc = "at", !.report = report, !.todo = report]
      OBVIOUS
    <2>2. report \in Seq(Statements)
      BY ReportsAreLists
    <2>3. /\ t \in Transactions /\ t.pc = "at" /\ t.report = report /\ t.todo = report
          /\ t.fresh = tx[w].fresh /\ t.aborted = tx[w].aborted
      BY <1>1, <2>1, <2>2 DEF Transactions
    <2>4. tx' = [tx EXCEPT ![w] = t] /\ tx'[w] = t
      BY <1>1, <1>2, <2>1 DEF Begin, CatalogueTypeOK
    <2>5. UNCHANGED <<catalogue, writing, rows>> /\ tx[w].pc = "idle"
      BY <1>2 DEF Begin
    <2>6. OnCourse(w)'
      BY <1>1, <2>3, <2>4, <2>5 DEF OnCourse
    <2>7. Left(w)'
      BY <1>1, <2>3, <2>4, <2>5 DEF Left
    <2> QED
      BY <1>1, <2>3, <2>4, <2>5, <2>6, <2>7, OthersKeep DEF CatalogueTypeOK
  <1>3. ASSUME NEW w \in Writers, AddRow(w)
        PROVE  CatalogueInv'
    <2>1. CASE tx[w].aborted \/ Now(w).row \in tx[w].fresh
      BY <1>3, <2>1, FailKeeps DEF AddRow
    <2>2. CASE ~(tx[w].aborted \/ Now(w).row \in tx[w].fresh)
      <3>1. PICK t : t = [tx[w] EXCEPT !.todo = Tail(@), !.fresh = @ \union {Now(w).row}]
        OBVIOUS
      <3>2. /\ tx[w].todo \in Seq(Statements) /\ tx[w].todo # <<>> /\ Now(w).op = "insert"
            /\ tx[w].pc = "at" /\ UNCHANGED <<catalogue, writing, rows>>
        BY <1>1, <1>3, <2>2 DEF AddRow, Transactions
      <3>3. /\ Tail(tx[w].todo) \in Seq(Statements) /\ Now(w) \in Statements
            /\ OwnRows(tx[w].todo) = OwnRows(Tail(tx[w].todo)) \union {Now(w).row}
            /\ Needed(tx[w].todo) = Needed(Tail(tx[w].todo))
        BY <3>2, RowsOfList DEF Now
      <3>4. Now(w).row \in Own
        BY <3>2, <3>3 DEF Statements
      <3>5. /\ t \in Transactions /\ t.pc = "at" /\ t.report = tx[w].report
            /\ t.todo = Tail(tx[w].todo) /\ t.fresh = tx[w].fresh \union {Now(w).row}
            /\ ~t.aborted
        BY <1>1, <2>2, <3>1, <3>2, <3>3, <3>4 DEF Transactions
      <3>6. tx' = [tx EXCEPT ![w] = t] /\ tx'[w] = t
        BY <1>1, <1>3, <2>2, <3>1 DEF AddRow, CatalogueTypeOK
      <3>7. OnCourse(w)'
        <4>1. OwnRows(t.report) = t.fresh \union OwnRows(t.todo)
          BY <1>1, <2>2, <3>2, <3>3, <3>5 DEF OnCourse, Running
        <4>2. Needed(t.report) \subseteq catalogue' \union Writes(w)' \union Needed(t.todo)
          BY <1>1, <2>2, <3>2, <3>3, <3>5 DEF OnCourse, Running, Writes
        <4> QED
          BY <3>5, <3>6, <4>1, <4>2 DEF OnCourse
      <3>8. Left(w)'
        BY <1>1, <3>2, <3>5, <3>6 DEF Left
      <3> QED
        BY <1>1, <3>2, <3>5, <3>6, <3>7, <3>8, OthersKeep DEF CatalogueTypeOK
    <2> QED
      BY <2>1, <2>2
  <1>4. ASSUME NEW w \in Writers, NoLicence(w)
        PROVE  CatalogueInv'
    <2>1. /\ tx[w].pc = "at" /\ tx[w].todo # <<>> /\ Now(w).op = "conclude"
          /\ tx' = [tx EXCEPT ![w] = Done(w)] /\ UNCHANGED <<catalogue, writing, rows>>
      BY <1>4 DEF NoLicence
    <2>2. PICK t : t = Done(w)
      OBVIOUS
    <2>3. /\ Tail(tx[w].todo) \in Seq(Statements)
          /\ OwnRows(tx[w].todo) = OwnRows(Tail(tx[w].todo))
          /\ Needed(tx[w].todo) = Needed(Tail(tx[w].todo))
      <3>1. tx[w].todo \in Seq(Statements)
        BY <1>1 DEF Transactions
      <3> QED
        BY <2>1, <3>1, RowsOfList DEF Now
    <2>4. /\ t \in Transactions /\ t.pc = "at" /\ t.report = tx[w].report
          /\ t.todo = Tail(tx[w].todo) /\ t.fresh = tx[w].fresh /\ t.aborted = tx[w].aborted
      BY <1>1, <2>2, <2>3 DEF Done, Transactions
    <2>5. tx' = [tx EXCEPT ![w] = t] /\ tx'[w] = t
      BY <1>1, <2>1, <2>2 DEF CatalogueTypeOK
    <2>6. OnCourse(w)'
      BY <1>1, <2>1, <2>3, <2>4, <2>5 DEF OnCourse, Running, Writes
    <2>7. Left(w)'
      BY <1>1, <2>1, <2>4, <2>5 DEF Left
    <2> QED
      BY <1>1, <2>1, <2>4, <2>5, <2>6, <2>7, OthersKeep DEF CatalogueTypeOK
  <1>5. ASSUME NEW w \in Writers, NEW fresh \in BOOLEAN, Select(w, fresh)
        PROVE  CatalogueInv'
    <2>1. CASE tx[w].aborted
      BY <1>5, <2>1, FailKeeps DEF Select
    <2>2. CASE ~tx[w].aborted
      <3>1. /\ tx[w].pc = "at" /\ tx[w].todo # <<>> /\ Now(w).op # "insert"
            /\ tx' = [tx EXCEPT ![w] = After(w, fresh)]
            /\ UNCHANGED <<catalogue, writing, rows>>
        BY <1>5, <2>2 DEF Select
      <3>2. Now(w) \in Statements
        BY <1>1, <3>1, RowsOfList DEF Now, Transactions
      <3>3. Now(w).row \in Shared /\ Now(w).op \in {"get", "conclude", "put", "cache"}
        BY <3>1, <3>2 DEF Statements
      <3>4. CASE After(w, fresh) = Done(w) /\ Sees(w, Now(w).row)
        <4>1. tx' = [tx EXCEPT ![w] = Done(w)]
          BY <3>1, <3>4
        <4>2. Now(w).row \in catalogue \union Writes(w)'
          BY <3>1, <3>3, <3>4 DEF Sees, Writes
        <4>3. Writes(w) = Writes(w)'
          BY <3>1 DEF Writes
        <4> QED
          BY <1>1, <2>2, <3>1, <4>1, <4>2, <4>3, StatementEnds DEF Running, CatalogueTypeOK
      <3>5. CASE \E goes \in {"insert", "update"} :
                   /\ After(w, fresh) = [tx[w] EXCEPT !.pc = goes]
                   /\ goes = "insert" => Now(w).op \in {"get", "conclude", "put"}
                   /\ goes = "update" => Now(w).op \in {"put", "cache"}
        <4>1. PICK goes \in {"insert", "update"} :
                   /\ After(w, fresh) = [tx[w] EXCEPT !.pc = goes]
                   /\ goes = "insert" => Now(w).op \in {"get", "conclude", "put"}
                   /\ goes = "update" => Now(w).op \in {"put", "cache"}
          BY <3>5
        <4>2. PICK t : t = [tx[w] EXCEPT !.pc = goes]
          OBVIOUS
        <4>3. /\ t \in Transactions /\ t.pc = goes /\ t.report = tx[w].report
              /\ t.todo = tx[w].todo /\ t.fresh = tx[w].fresh /\ t.aborted = tx[w].aborted
          BY <1>1, <4>2 DEF Transactions
        <4>4. tx' = [tx EXCEPT ![w] = t] /\ tx'[w] = t
          BY <1>1, <3>1, <4>1, <4>2 DEF CatalogueTypeOK
        <4>5. OnCourse(w)'
          <5>1. Writes(w)' = Writes(w) /\ Now(w)' = Now(w)
            BY <3>1, <4>3, <4>4 DEF Writes, Now
          <5>2. /\ OwnRows(t.report) = t.fresh \union OwnRows(t.todo)
                /\ Needed(t.report) \subseteq catalogue \union Writes(w) \union Needed(t.todo)
            BY <1>1, <2>2, <3>1, <4>3 DEF OnCourse, Running
          <5> QED
            BY <2>2, <3>1, <4>1, <4>3, <4>4, <5>1, <5>2 DEF OnCourse
        <4>6. Left(w)'
          BY <1>1, <3>1, <4>3, <4>4 DEF Left
        <4> QED
          BY <1>1, <3>1, <4>3, <4>4, <4>5, <4>6, OthersKeep DEF CatalogueTypeOK
      <3> QED
        BY <3>3, <3>4, <3>5 DEF After
    <2> QED
      BY <2>1, <2>2
  <1>6. ASSUME NEW w \in Writers, InsertShared(w) \/ Upsert(w)
        PROVE  CatalogueInv'
    \* The waits are over: no other transaction writes the row.
    <2> SUFFICES ASSUME ~Fail(w) PROVE CatalogueInv'
      BY <1>6, FailKeeps DEF InsertShared, Upsert
    <2>1. /\ ~Waits(w) /\ tx' = [tx EXCEPT ![w] = Done(w)] /\ UNCHANGED <<catalogue, rows>>
          /\ writing' = [writing EXCEPT ![Now(w).row] = w]
          /\ tx[w].pc \in {"insert", "update"}
      BY <1>6 DEF InsertShared, Upsert
    <2>2. tx[w].todo # <<>> /\ Now(w).op \in {"get", "conclude", "put", "cache"}
      BY <1>1, <2>1 DEF OnCourse
    <2>3. Now(w) \in Statements
      BY <1>1, <2>2, RowsOfList DEF Now, Transactions
    <2>4. PICK k : k = Now(w).row
      OBVIOUS
    <2>5. k \in Shared
      BY <2>2, <2>3, <2>4 DEF Statements
    <2>6. writing[k] \in {Nobody, w}
      BY <2>1, <2>4 DEF Waits, WaitsFor
    <2>7. /\ writing' \in [Shared -> Writers \union {Nobody}]
          /\ \A r \in Shared : writing'[r] = IF r = k THEN w ELSE writing[r]
      BY <1>1, <2>1, <2>4, <2>5 DEF CatalogueTypeOK
    <2>8. Writes(w) \subseteq Writes(w)' /\ k \in Writes(w)'
      BY <2>5, <2>7 DEF Writes
    <2>9. /\ \A r \in Shared : writing[r] \notin {w, Nobody} => writing'[r] = writing[r]
          /\ Now(w).op # "insert" /\ Running(tx[w])
      BY <2>1, <2>2, <2>6, <2>7 DEF Running
    <2>10. ~tx[w].aborted
      BY <1>1, <2>1 DEF OnCourse
    <2> QED
      BY <2>1, <2>2, <2>4, <2>7, <2>8, <2>9, <2>10, StatementEnds
  <1>7. ASSUME NEW w \in Writers, BreakDeadlock(w)
        PROVE  CatalogueInv'
    <2>1. tx[w].pc \in {"insert", "update"}
      BY <1>7, CatalogueAssumption DEF BreakDeadlock, InCircle, Waits, WaitsFor
    <2>2. CASE Now(w).op # "cache"
      BY <1>7, <2>1, <2>2, FailKeeps DEF BreakDeadlock
    <2>3. CASE Now(w).op = "cache"
      <3>1. PICK t : t = [tx[w] EXCEPT !.pc = "at", !.aborted = TRUE,
                                       !.todo = SubSeq(@, 3, Len(@))]
        OBVIOUS
      <3>2. tx[w].todo \in Seq(Statements)
        BY <1>1 DEF Transactions
      <3>3. SubSeq(tx[w].todo, 3, Len(tx[w].todo)) \in Seq(Statements)
        BY <3>2
      <3>4. t \in Transactions /\ t.pc = "at" /\ t.aborted
        BY <1>1, <3>1, <3>3 DEF Transactions
      <3>5. tx' = [tx EXCEPT ![w] = t] /\ tx'[w] = t
        BY <1>1, <1>7, <2>3, <3>1 DEF BreakDeadlock, CatalogueTypeOK
      <3>6. /\ UNCHANGED <<catalogue, rows>>
            /\ writing' \in [Shared -> Writers \union {Nobody}]
            /\ \A k \in Shared : writing[k] \notin {w, Nobody} => writing'[k] = writing[k]
        BY <1>1, <1>7, <2>3 DEF BreakDeadlock, GiveUp, CatalogueTypeOK
      <3>7. OnCourse(w)' /\ Left(w)'
        BY <1>1, <2>1, <3>4, <3>5, <3>6 DEF OnCourse, Left
      <3> QED
        BY <1>1, <3>4, <3>5, <3>6, <3>7, OthersKeep DEF CatalogueTypeOK
    <2> QED
      BY <2>2, <2>3
  <1>8. ASSUME NEW w \in Writers, Commit(w)
        PROVE  CatalogueInv'
    <2>1. PICK t : t = [tx[w] EXCEPT !.pc = "committed"]
      OBVIOUS
    <2>2. /\ t \in Transactions /\ t.pc = "committed" /\ t.report = tx[w].report
          /\ t.fresh = tx[w].fresh /\ t.aborted = tx[w].aborted
      BY <1>1, <2>1 DEF Transactions
    <2>3. /\ tx' = [tx EXCEPT ![w] = t] /\ tx'[w] = t /\ tx[w].pc = "at" /\ tx[w].todo = <<>>
          /\ writing' \in [Shared -> Writers \union {Nobody}]
          /\ \A k \in Shared : writing[k] \notin {w, Nobody} => writing'[k] = writing[k]
      BY <1>1, <1>8, <2>1 DEF Commit, GiveUp, CatalogueTypeOK
    <2>4. OnCourse(w)'
      BY <2>2, <2>3 DEF OnCourse, Running
    <2>5. CASE tx[w].aborted
      <3>1. UNCHANGED <<catalogue, rows>>
        BY <1>8, <2>5 DEF Commit
      <3>2. Left(w)'
        BY <1>1, <2>2, <2>3, <2>5, <3>1 DEF Left
      <3> QED
        BY <1>1, <2>2, <2>3, <2>4, <3>1, <3>2, OthersKeep DEF CatalogueTypeOK
    <2>6. CASE ~tx[w].aborted
      <3>1. /\ catalogue' = catalogue \union Writes(w)
            /\ rows' = [rows EXCEPT ![w] = tx[w].fresh]
        BY <1>8, <2>6 DEF Commit, Writes
      <3>2. /\ OwnRows(t.report) = tx[w].fresh
            /\ Needed(t.report) \subseteq catalogue'
        BY <1>1, <2>2, <2>3, <2>6, <3>1, RowsOfNothing DEF OnCourse, Running
      <3>3. Left(w)'
        BY <1>1, <2>2, <2>3, <2>6, <3>1, <3>2 DEF Left, CatalogueTypeOK
      <3>4. /\ catalogue \subseteq catalogue' /\ catalogue' \subseteq Shared
            /\ rows' \in [Writers -> SUBSET Own] /\ \A q \in Writers : q # w => rows'[q] = rows[q]
        BY <1>1, <3>1 DEF CatalogueTypeOK, Writes, Transactions
      <3> QED
        BY <2>2, <2>3, <2>4, <3>3, <3>4, OthersKeep
    <2> QED
      BY <2>5, <2>6
  <1>9. ASSUME NEW w \in Writers, LoseWriter(w)
        PROVE  CatalogueInv'
    BY <1>9, FailKeeps DEF LoseWriter, InProgress
  <1>10. ASSUME UNCHANGED catalogueVars
        PROVE  CatalogueInv'
    BY <1>10 DEF catalogueVars, CatalogueInv, CatalogueTypeOK, OnCourse, Left, Writes, Now
  <1> QED
    BY <1>2, <1>3, <1>4, <1>5, <1>6, <1>7, <1>8, <1>9, <1>10 DEF CatalogueNext, Statement

\* The catalogue, the rows being written, the rows of the scans and the transactions
\* stay in their domains.
THEOREM CatalogueTypeCorrect == CatalogueSpec => []CatalogueTypeOK
  <1>1. CatalogueInv => CatalogueTypeOK
    BY DEF CatalogueInv
  <1> QED
    BY <1>1, CatalogueInvInit, CatalogueInvStep, PTL DEF CatalogueSpec

\* A scan shows all of its report or none of it, however many transactions insert
\* the same shared rows, in whatever order, and whichever the server aborts.
THEOREM ReportsAreAllOrNothing == CatalogueSpec => []AllOrNothing
  <1>1. CatalogueInv => AllOrNothing
    BY DEF CatalogueInv, Left, AllOrNothing
  <1> QED
    BY <1>1, CatalogueInvInit, CatalogueInvStep, PTL DEF CatalogueSpec

-------------------------------------------------------------------------------
(***************************************************************************)
(* Waiting in the catalogue.  A row being written is a transaction's in    *)
(* progress (OwnersRun), so each that waits leads to another in progress,  *)
(* and, as they are finitely many, to one that does not wait or round a    *)
(* circle, which the server breaks.                                        *)
(***************************************************************************)

\* Rows are written by transactions in progress.
OwnersRun == \A k \in Shared : writing[k] # Nobody => InProgress(writing[k])

LEMMA OwnersKept ==
  ASSUME CatalogueTypeOK, OwnersRun, NEW w \in Writers, NEW t, tx' = [tx EXCEPT ![w] = t],
         \/ GiveUp(w)
         \/ Running(t) /\ \A k \in Shared : writing'[k] \in {writing[k], w}
  PROVE  OwnersRun'
  <1>1. \A q \in Writers : tx'[q] = IF q = w THEN t ELSE tx[q]
    BY DEF CatalogueTypeOK
  <1>2. \A k \in Shared : writing[k] \in Writers \union {Nobody}
    BY DEF CatalogueTypeOK
  <1>3. CASE GiveUp(w)
    <2>1. \A k \in Shared : writing'[k] = IF writing[k] = w THEN Nobody ELSE writing[k]
      BY <1>3 DEF GiveUp
    <2> QED
      BY <1>1, <1>2, <2>1 DEF OwnersRun, InProgress
  <1>4. CASE Running(t) /\ \A k \in Shared : writing'[k] \in {writing[k], w}
    BY <1>1, <1>2, <1>4 DEF OwnersRun, InProgress, Running
  <1> QED
    BY <1>3, <1>4

LEMMA OwnersStep ==
  ASSUME CatalogueInv, OwnersRun, [CatalogueNext]_catalogueVars
  PROVE  OwnersRun'
  <1>1. CatalogueTypeOK
    BY DEF CatalogueInv
  <1>2. ASSUME NEW w \in Writers, Fail(w) PROVE OwnersRun'
    <2>1. tx' = [tx EXCEPT ![w] = [tx[w] EXCEPT !.pc = "failed"]] /\ GiveUp(w)
      BY <1>1, <1>2 DEF Fail, CatalogueTypeOK
    <2> QED
      BY <1>1, <2>1, OwnersKept
  <1>3. ASSUME NEW w \in Writers, NEW t, Running(t), tx' = [tx EXCEPT ![w] = t],
               \/ UNCHANGED writing
               \/ writing' = [writing EXCEPT ![Now(w).row] = w]
        PROVE  OwnersRun'
    <2>1. \A k \in Shared : writing'[k] \in {writing[k], w}
      BY <1>1, <1>3 DEF CatalogueTypeOK
    <2> QED
      BY <1>1, <1>3, <2>1, OwnersKept
  <1>4. \A w \in Writers : Running(Done(w))
    BY <1>1 DEF Done, Running, CatalogueTypeOK, Transactions
  <1>5. ASSUME NEW w \in Writers, NEW report \in Reports, Begin(w, report) PROVE OwnersRun'
    <2> DEFINE t == [tx[w] EXCEPT !.pc = "at", !.report = report, !.todo = report]
    <2>1. Running(t) /\ tx' = [tx EXCEPT ![w] = t] /\ UNCHANGED writing
      BY <1>1, <1>5 DEF Begin, Running, CatalogueTypeOK, Transactions
    <2> QED
      BY <1>3, <2>1
  <1>6. ASSUME NEW w \in Writers, AddRow(w), ~Fail(w) PROVE OwnersRun'
    <2> DEFINE t == [tx[w] EXCEPT !.todo = Tail(@), !.fresh = @ \union {Now(w).row}]
    <2>1. Running(t) /\ tx' = [tx EXCEPT ![w] = t] /\ UNCHANGED writing
      BY <1>1, <1>6 DEF AddRow, Running, CatalogueTypeOK, Transactions
    <2> QED
      BY <1>3, <2>1
  <1>7. ASSUME NEW w \in Writers, NoLicence(w) PROVE OwnersRun'
    BY <1>3, <1>4, <1>7 DEF NoLicence
  <1>8. ASSUME NEW w \in Writers, NEW fresh \in BOOLEAN, Select(w, fresh), ~Fail(w)
        PROVE  OwnersRun'
    <2>1. Running(After(w, fresh))
      BY <1>1, <1>4 DEF After, Running, CatalogueTypeOK, Transactions
    <2> QED
      BY <1>3, <1>8, <2>1 DEF Select
  <1>9. ASSUME NEW w \in Writers, InsertShared(w) \/ Upsert(w), ~Fail(w) PROVE OwnersRun'
    BY <1>3, <1>4, <1>9 DEF InsertShared, Upsert
  <1>10. ASSUME NEW w \in Writers, BreakDeadlock(w), ~Fail(w) PROVE OwnersRun'
    <2> DEFINE t == [tx[w] EXCEPT !.pc = "at", !.aborted = TRUE, !.todo = SubSeq(@, 3, Len(@))]
    <2>1. tx' = [tx EXCEPT ![w] = t] /\ GiveUp(w)
      BY <1>1, <1>10 DEF BreakDeadlock, CatalogueTypeOK
    <2> QED
      BY <1>1, <2>1, OwnersKept
  <1>11. ASSUME NEW w \in Writers, Commit(w) PROVE OwnersRun'
    <2>1. tx' = [tx EXCEPT ![w] = [tx[w] EXCEPT !.pc = "committed"]] /\ GiveUp(w)
      BY <1>1, <1>11 DEF Commit, CatalogueTypeOK
    <2> QED
      BY <1>1, <2>1, OwnersKept
  <1>12. CASE UNCHANGED catalogueVars
    BY <1>12 DEF catalogueVars, OwnersRun, InProgress
  <1> QED
    BY <1>2, <1>5, <1>6, <1>7, <1>8, <1>9, <1>10, <1>11, <1>12
    DEF CatalogueNext, Statement, LoseWriter

\* Who waits is in progress, and so is the one it waits for.
LEMMA WaitedForRuns ==
  ASSUME CatalogueInv, OwnersRun, NEW w \in Writers, Waits(w)
  PROVE  InProgress(w) /\ WaitsFor(w) \in Writers /\ InProgress(WaitsFor(w))
  <1>1. tx[w].pc \in {"insert", "update"} /\ WaitsFor(w) = writing[Now(w).row]
    BY DEF Waits, WaitsFor
  <1>2. /\ tx[w].todo \in Seq(Statements) /\ tx[w].todo # <<>>
        /\ Now(w).op \in {"get", "conclude", "put", "cache"}
    BY <1>1 DEF CatalogueInv, CatalogueTypeOK, OnCourse, Transactions
  <1>3. Now(w) \in Statements
    BY <1>2, RowsOfList DEF Now
  <1>4. Now(w).row \in Shared
    BY <1>2, <1>3 DEF Statements
  <1>5. writing[Now(w).row] \in Writers
    BY <1>1, <1>4 DEF CatalogueInv, CatalogueTypeOK, Waits
  <1> QED
    BY <1>1, <1>4, <1>5, CatalogueAssumption DEF OwnersRun, InProgress

LEMMA GoesOn ==
  ASSUME CatalogueInv, OwnersRun
  PROVE  SomeoneGoesOn
  <1> SUFFICES ASSUME NEW S \in SUBSET Writers, \E w \in S : InProgress(w),
                      \A w \in S : Waits(w) => WaitsFor(w) \in S,
                      \A w \in S : InProgress(w) => Waits(w) /\ ~InCircle(w)
               PROVE  FALSE
    BY DEF SomeoneGoesOn
  <1>1. PICK R : R = {w \in S : InProgress(w)}
    OBVIOUS
  <1>2. IsFiniteSet(R) /\ R # {} /\ R \subseteq Writers
    BY <1>1, CatalogueAssumption, FS_Subset
  <1>3. \A w \in R : Waits(w) /\ WaitsFor(w) \in R
    BY <1>1, WaitedForRuns
  <1>4. PICK f : f = [w \in R |-> WaitsFor(w)]
    OBVIOUS
  <1>5. f \in [R -> R]
    BY <1>3, <1>4
  <1>6. PICK C \in SUBSET R : C # {} /\ {f[x] : x \in C} = C
    BY <1>2, <1>5, CircleInFinite
  <1>7. {WaitsFor(q) : q \in C} = C
    BY <1>4, <1>6
  <1>8. C \in SUBSET {q \in Writers : Waits(q)}
    BY <1>2, <1>3, <1>6
  <1>9. PICK w : w \in C
    BY <1>6
  <1>10. InCircle(w)
    BY <1>7, <1>8, <1>9 DEF InCircle
  <1> QED
    BY <1>1, <1>6, <1>9, <1>10

LEMMA RunsOut ==
  ASSUME CatalogueInv, [CatalogueNext]_catalogueVars, NEW w \in Writers,
         InProgress(w), tx'[w] # tx[w]
  PROVE  ToDo(w)' < ToDo(w)
  <1>1. CatalogueTypeOK /\ tx[w] \in Transactions /\ OnCourse(w)
    BY DEF CatalogueInv, CatalogueTypeOK
  <1>2. tx[w].todo \in Seq(Statements)
    BY <1>1 DEF Transactions
  <1>3. PICK n \in Nat : n = Len(tx[w].todo)
    BY <1>2
  <1>4. /\ tx[w].todo # <<>> => n > 0 /\ Len(Tail(tx[w].todo)) = n - 1
        /\ tx[w].pc \in {"insert", "update"} => n > 0
    BY <1>1, <1>2, <1>3 DEF OnCourse
  <1>5. /\ tx[w].pc = "at" => ToDo(w) = 2 * n + 1
        /\ tx[w].pc # "at" => ToDo(w) = 2 * n
        /\ tx[w].pc \in {"at", "insert", "update"}
    BY <1>3 DEF ToDo, InProgress
  <1>6. ASSUME tx'[w].pc \in {"failed", "committed"}
        PROVE  ToDo(w)' < ToDo(w)
    <2>1. ToDo(w)' = 0
      BY <1>6 DEF ToDo, InProgress
    <2> QED
      BY <1>4, <1>5, <2>1
  <1>7. ASSUME NEW m \in Nat, m < n, tx'[w].pc = "at", Len(tx'[w].todo) = m
        PROVE  ToDo(w)' < ToDo(w)
    <2>1. ToDo(w)' = 2 * m + 1
      BY <1>7 DEF ToDo, InProgress
    <2> QED
      BY <1>5, <1>7, <2>1
  <1>8. ASSUME tx'[w].pc = "at", tx'[w].todo = Tail(tx[w].todo), tx[w].todo # <<>>
        PROVE  ToDo(w)' < ToDo(w)
    BY <1>4, <1>7, <1>8
  <1>9. ASSUME tx' = [tx EXCEPT ![w] = Done(w)], tx[w].todo # <<>>
        PROVE  ToDo(w)' < ToDo(w)
    <2>1. tx'[w].pc = "at" /\ tx'[w].todo = Tail(tx[w].todo)
      BY <1>1, <1>9 DEF Done, CatalogueTypeOK, Transactions
    <2> QED
      BY <1>8, <1>9, <2>1
  <1>10. ASSUME Fail(w) PROVE ToDo(w)' < ToDo(w)
    <2>1. tx'[w].pc = "failed"
      BY <1>1, <1>10 DEF Fail, CatalogueTypeOK, Transactions
    <2> QED
      BY <1>6, <2>1
  \* The step is one of w's.
  <1>11. PICK q \in Writers :
           \/ \E report \in Reports : Begin(q, report)
           \/ Statement(q) \/ LoseWriter(q)
    BY DEF CatalogueNext, catalogueVars
  <1>12. q = w
    <2> SUFFICES ASSUME q # w PROVE tx'[w] = tx[w]
      OBVIOUS
    <2>1. tx \in [Writers -> Transactions]
      BY <1>1 DEF CatalogueTypeOK
    <2>2. \E t : tx' = [tx EXCEPT ![q] = t]
      BY <1>11, <2>1 DEF Statement, LoseWriter, Begin, AddRow, NoLicence, InsertShared, Upsert,
         BreakDeadlock, Commit, Select, Fail
    <2> QED
      BY <2>1, <2>2
  <1>13. ~\E report \in Reports : Begin(w, report)
    BY DEF Begin, InProgress
  <1>14. ASSUME AddRow(w), ~Fail(w) PROVE ToDo(w)' < ToDo(w)
    <2>1. tx'[w].pc = "at" /\ tx'[w].todo = Tail(tx[w].todo) /\ tx[w].todo # <<>>
      BY <1>1, <1>14 DEF AddRow, CatalogueTypeOK, Transactions
    <2> QED
      BY <1>8, <2>1
  <1>15. ASSUME NoLicence(w) PROVE ToDo(w)' < ToDo(w)
    BY <1>9, <1>15 DEF NoLicence
  <1>16. ASSUME NEW fresh \in BOOLEAN, Select(w, fresh), ~Fail(w) PROVE ToDo(w)' < ToDo(w)
    <2>1. tx' = [tx EXCEPT ![w] = After(w, fresh)] /\ tx[w].pc = "at" /\ tx[w].todo # <<>>
      BY <1>16 DEF Select
    <2>2. CASE After(w, fresh) = Done(w)
      BY <1>9, <2>1, <2>2
    <2>3. CASE \E goes \in {"insert", "update"} : After(w, fresh) = [tx[w] EXCEPT !.pc = goes]
      <3>1. PICK goes \in {"insert", "update"} : After(w, fresh) = [tx[w] EXCEPT !.pc = goes]
        BY <2>3
      <3>2. tx'[w] = [tx[w] EXCEPT !.pc = goes]
        BY <1>1, <2>1, <3>1 DEF CatalogueTypeOK
      <3>3. tx'[w].pc = goes /\ tx'[w].todo = tx[w].todo
        BY <1>1, <3>2 DEF Transactions
      <3>4. ToDo(w)' = 2 * n
        BY <1>3, <3>3 DEF ToDo, InProgress
      <3> QED
        BY <1>5, <2>1, <3>4
    <2> QED
      BY <2>2, <2>3 DEF After
  <1>17. ASSUME InsertShared(w) \/ Upsert(w), ~Fail(w) PROVE ToDo(w)' < ToDo(w)
    <2>1. tx' = [tx EXCEPT ![w] = Done(w)] /\ tx[w].pc \in {"insert", "update"}
      BY <1>17 DEF InsertShared, Upsert
    <2> QED
      BY <1>1, <1>9, <2>1 DEF OnCourse
  <1>18. ASSUME BreakDeadlock(w), ~Fail(w) PROVE ToDo(w)' < ToDo(w)
    <2>1. Waits(w)
      BY <1>18 DEF BreakDeadlock, InCircle
    <2>2. n > 0
      BY <1>4, <2>1 DEF Waits, WaitsFor
    <2>3. tx'[w].pc = "at" /\ tx'[w].todo = SubSeq(tx[w].todo, 3, n)
      BY <1>1, <1>3, <1>18 DEF BreakDeadlock, CatalogueTypeOK, Transactions
    <2>4. CASE n > 2
      <3>1. Len(SubSeq(tx[w].todo, 3, n)) = n - 2
        BY <1>2, <1>3, <2>4
      <3> QED
        BY <1>7, <2>3, <2>4, <3>1
    <2>5. CASE n <= 2
      <3>1. Len(SubSeq(tx[w].todo, 3, n)) = 0
        BY <1>2, <1>3, <2>5
      <3> QED
        BY <1>7, <2>2, <2>3, <3>1
    <2> QED
      BY <2>4, <2>5
  <1>19. ASSUME Commit(w) PROVE ToDo(w)' < ToDo(w)
    <2>1. tx'[w].pc = "committed"
      BY <1>1, <1>19 DEF Commit, CatalogueTypeOK, Transactions
    <2> QED
      BY <1>6, <2>1
  <1> QED
    BY <1>10, <1>11, <1>12, <1>13, <1>14, <1>15, <1>16, <1>17, <1>18, <1>19
    DEF Statement, LoseWriter

\* Of the transactions of any number of scans, with reports in any order, one in
\* progress can always go on, and among any of them that wait only for each other.
THEOREM NobodyWaitsForGood == CatalogueSpec => []SomeoneGoesOn
  <1>1. CatalogueInit => OwnersRun
    BY DEF CatalogueInit, OwnersRun
  <1>2. CatalogueInv /\ OwnersRun => SomeoneGoesOn
    BY GoesOn
  <1> QED
    BY <1>1, <1>2, CatalogueInvInit, CatalogueInvStep, OwnersStep, PTL DEF CatalogueSpec

\* Each step of a transaction in progress, and each error, brings it closer to its end.
THEOREM TransactionsRunOut == CatalogueSpec => StatementsRunOut
  <1>1. CatalogueInv /\ [CatalogueNext]_catalogueVars =>
          [\A w \in Writers : InProgress(w) /\ tx'[w] # tx[w] => ToDo(w)' < ToDo(w)]_catalogueVars
    BY RunsOut
  <1> QED
    BY <1>1, CatalogueInvInit, CatalogueInvStep, PTL DEF CatalogueSpec, StatementsRunOut

-------------------------------------------------------------------------------
(***************************************************************************)
(* The composition that TLC runs.  Each part, seen alone, behaves as its   *)
(* own specification says, so that what is proved of the parts holds of    *)
(* the whole.                                                              *)
(***************************************************************************)

\* A step of the composition is a step of each part, or leaves it alone.
LEMMA StepOfEach ==
  ASSUME [TasksNext]_tasksVars
  PROVE  /\ [Next]_vars
         /\ [CleanupNext]_cleanupVars
         /\ [NoticeNext]_noticeVars
         /\ [CatalogueNext]_catalogueVars
  BY DEF TasksNext, tasksVars

\* What TLC runs is the circuit breaker, the orphan clean-up, the notifications and
\* the catalogue, each as specified: no step of one disturbs another, and nothing
\* is added to their fairness.
THEOREM TasksImplementParts ==
  TasksSpec => Spec /\ CleanupSpec /\ NoticeSpec /\ CatalogueSpec
  <1>1. TasksInit => Init /\ CleanupInit /\ NoticeInit /\ CatalogueInit
    BY DEF TasksInit
  <1> QED
    BY <1>1, StepOfEach, PTL
    DEF TasksSpec, TasksFairness, Spec, CleanupSpec, NoticeSpec, CatalogueSpec

\* The variables of every background task stay in their domains, whichever runs.
THEOREM TasksTypeCorrect == TasksSpec => []TasksTypeOK
  <1>1. TypeOK /\ CleanupTypeOK /\ NoticeTypeOK /\ CatalogueTypeOK => TasksTypeOK
    BY DEF TasksTypeOK
  <1> QED
    BY <1>1, TasksImplementParts, BreakerTypeCorrect, CleanupTypeCorrect, NoticeTypeCorrect,
       CatalogueTypeCorrect, PTL

\* Every safety property that TLC checks of the tasks on a few callers, projects,
\* notices and reports holds of the composition for any number of them, and so do the
\* two that are proved only.
THEOREM TasksKeepPromises ==
  TasksSpec =>
    /\ [](/\ ChosenAreAccounted /\ DoneMeansDelivered /\ CopiesHaveCause
          /\ AllOrNothing /\ SomeoneGoesOn)
    /\ OnlyOrphansGo /\ ImplementsLease /\ StatementsRunOut
  BY TasksImplementParts, ChosenAccounted, SentIsDelivered, CopiesCounted,
     ReportsAreAllOrNothing, NobodyWaitsForGood, OrphansOnly, KeyIsLease,
     TransactionsRunOut, PTL
===============================================================================
