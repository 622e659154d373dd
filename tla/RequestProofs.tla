---------------------------- MODULE RequestProofs -----------------------------
(***************************************************************************)
(* Theorems about requests that meet: on an approval, on the deliveries of *)
(* a webhook, on the last super admin, on the last team_admin and on a     *)
(* finding, and on the scan whose findings the policy gate counts.         *)
(***************************************************************************)
EXTENDS Approvals, Deliveries, SuperAdmins, TeamMembers, PolicyGate, NumberLemmas,
        FiniteSetTheorems, TLAPS

-------------------------------------------------------------------------------
(***************************************************************************)
(* Proofs about Approvals for every set of clients, rows and pairs.        *)
(***************************************************************************)

\* What a request under way carries.
LEMMA RequestShape ==
  \A r \in ApprovalRequests :
    /\ r.pc = "insert" => r.pair \in Pairs
    /\ r.pc = "commit" => r.id \in Ids /\ r.to \in Present
    /\ r.pc = "delete" => r.id \in Ids
  BY DEF ApprovalRequests, NoReq

\* Every variable stays in its domain, for any number of clients and rows.
THEOREM ApprovalTypeCorrect == Spec => []TypeOK
  <1> USE DEF TypeOK, Open, Decided, Present, cols
  <1>1. Init => TypeOK
    BY DEF Init, NoTag, NoReq, Tags, ApprovalRequests
  <1>2. TypeOK /\ [Next]_vars => TypeOK'
    <2> SUFFICES ASSUME TypeOK, [Next]_vars PROVE TypeOK'
      OBVIOUS
    <2> USE DEF Request, Done
    <2>0. NoReq \in ApprovalRequests
      BY DEF NoReq, ApprovalRequests
    <2>1. ASSUME NEW c \in Clients, NEW i \in Ids, Look(c, i) PROVE TypeOK'
      <3>1. Tag(i) \in Tags
        BY <2>1 DEF Look, Tag, Tags
      <3> QED
        BY <2>1, <3>1 DEF Look
    <2>2. ASSUME NEW c \in Clients, NEW i \in Ids, Insert(c, i) PROVE TypeOK'
      BY <2>0, <2>2, RequestShape DEF Insert
    <2>3. ASSUME NEW c \in Clients, NEW i \in Ids, ReadToDelete(c, i)
          PROVE TypeOK'
      BY <2>3 DEF ReadToDelete, ApprovalRequests
    <2>4. ASSUME NEW c \in Clients, NEW i \in Ids, NEW to \in Present,
                 Lock(c, i, to)
          PROVE TypeOK'
      BY <2>4 DEF Lock, ApprovalRequests
    <2>5. ASSUME NEW c \in Clients, NEW p \in Pairs, Preflight(c, p)
          PROVE TypeOK'
      BY <2>5 DEF Preflight, ApprovalRequests
    <2>6. ASSUME NEW c \in Clients, InsertRefused(c) PROVE TypeOK'
      BY <2>0, <2>6 DEF InsertRefused
    <2>7. ASSUME NEW c \in Clients, Commit(c) PROVE TypeOK'
      <3>1. req[c].id \in Ids /\ req[c].to \in Present
        BY <2>7, RequestShape DEF Commit
      <3> QED
        BY <2>0, <2>7, <3>1 DEF Commit, Tags
    <2>8. ASSUME NEW c \in Clients, Abort(c) PROVE TypeOK'
      BY <2>0, <2>8 DEF Abort
    <2>9. ASSUME NEW c \in Clients, Delete(c) PROVE TypeOK'
      BY <2>0, <2>9 DEF Delete
    <2>10. CASE UNCHANGED vars
      BY <2>10 DEF vars
    <2> QED
      BY <2>1, <2>2, <2>3, <2>4, <2>5, <2>6, <2>7, <2>8, <2>9, <2>10 DEF Next
  <1> QED
    BY <1>1, <1>2, PTL DEF Spec

-----------------------------------------------------------------------------
(***************************************************************************)
(* What a transition relies on between its SELECT FOR UPDATE and its       *)
(* COMMIT: the lock keeps the guards true.                                 *)
(***************************************************************************)

\* A request about to commit a transition of row i.
Committing(c, i) == req[c].pc = "commit" /\ req[c].id = i

\* It holds the row, and its guards still pass.
RowIsHeld ==
  \A c \in Clients, i \in Ids : Committing(c, i) =>
    /\ lock[i] = c
    /\ etag[c].id = i
    /\ status[i] \in Present
    /\ Passes(c, i, req[c].to)

\* No step of another request takes the lock away, or touches a locked row.
LEMMA LockedInvariant == Spec => []RowIsHeld
  <1> USE DEF RowIsHeld, Committing, Passes
  <1>1. Init => RowIsHeld
    BY DEF Init, NoReq
  <1>2. TypeOK /\ RowIsHeld /\ [Next]_vars => RowIsHeld'
    <2> SUFFICES ASSUME TypeOK, RowIsHeld, [Next]_vars PROVE RowIsHeld'
      OBVIOUS
    <2> USE DEF TypeOK, Request, Done, NoReq, cols
    <2>1. ASSUME NEW c \in Clients, NEW i \in Ids, Look(c, i)
          PROVE  RowIsHeld'
      BY <2>1 DEF Look
    <2>2. ASSUME NEW c \in Clients, NEW i \in Ids, Insert(c, i)
          PROVE  RowIsHeld'
      BY <2>2 DEF Insert, Present, Open, Decided
    <2>3. ASSUME NEW c \in Clients, NEW i \in Ids, ReadToDelete(c, i)
          PROVE  RowIsHeld'
      BY <2>3 DEF ReadToDelete
    <2>4. ASSUME NEW c \in Clients, NEW i \in Ids, NEW to \in Present,
                 Lock(c, i, to)
          PROVE  RowIsHeld'
      BY <2>4, ClientsAssumption DEF Lock
    <2>5. ASSUME NEW c \in Clients, NEW p \in Pairs, Preflight(c, p)
          PROVE  RowIsHeld'
      BY <2>5 DEF Preflight
    <2>6. ASSUME NEW c \in Clients, InsertRefused(c)
          PROVE  RowIsHeld'
      BY <2>6 DEF InsertRefused
    <2>7. ASSUME NEW c \in Clients, Commit(c)
          PROVE  RowIsHeld'
      BY <2>7, RequestShape DEF Commit
    <2>8. ASSUME NEW c \in Clients, Abort(c)
          PROVE  RowIsHeld'
      BY <2>8 DEF Abort
    <2>9. ASSUME NEW c \in Clients, Delete(c)
          PROVE  RowIsHeld'
      BY <2>9, ClientsAssumption, RequestShape DEF Delete
    <2>10. CASE UNCHANGED vars
      BY <2>10 DEF vars
    <2> QED
      BY <2>1, <2>2, <2>3, <2>4, <2>5, <2>6, <2>7, <2>8, <2>9, <2>10
         DEF Next
  <1> QED
    BY <1>1, <1>2, ApprovalTypeCorrect, PTL DEF Spec
(***************************************************************************)
(* At most one open approval of a pair.  Only INSERT makes a row open; a   *)
(* transition may keep an open row open.                                   *)
(***************************************************************************)

\* What the workflow can move a row to, by the status it comes from.
LEMMA OpenFromOpen ==
  ASSUME NEW from \in Present, NEW to \in Allowed[from]
  PROVE  /\ to \in {"under_review", "approved", "rejected"}
         /\ to = "under_review" => from = "pending"
         /\ to = "approved" => from = "under_review"
         /\ to = "rejected" => from \in {"pending", "under_review"}
  BY DEF Allowed, Present, Open, Decided

\* Two requests that both found no open approval of a pair do not both open
\* one, for any number of requests, rows and pairs.
THEOREM OnePerPair == Spec => []OneOpen
  <1> USE DEF OneOpen, OpenFor
  <1>1. Init => OneOpen
    BY DEF Init, Open
  <1>2. TypeOK /\ RowIsHeld /\ OneOpen /\ [Next]_vars => OneOpen'
    <2> SUFFICES ASSUME TypeOK, RowIsHeld, OneOpen, [Next]_vars PROVE OneOpen'
      OBVIOUS
    <2> USE DEF TypeOK, cols
    <2>1. ASSUME NEW c \in Clients, NEW i \in Ids, Look(c, i)
          PROVE  OneOpen'
      BY <2>1 DEF Look
    <2>2. ASSUME NEW c \in Clients, NEW i \in Ids, Insert(c, i)
          PROVE  OneOpen'
      BY <2>2 DEF Insert
    <2>3. ASSUME NEW c \in Clients, NEW i \in Ids, ReadToDelete(c, i)
          PROVE  OneOpen'
      BY <2>3 DEF ReadToDelete
    <2>4. ASSUME NEW c \in Clients, NEW i \in Ids, NEW to \in Present,
                 Lock(c, i, to)
          PROVE  OneOpen'
      BY <2>4 DEF Lock
    <2>5. ASSUME NEW c \in Clients, NEW p \in Pairs, Preflight(c, p)
          PROVE  OneOpen'
      BY <2>5 DEF Preflight
    <2>6. ASSUME NEW c \in Clients, InsertRefused(c)
          PROVE  OneOpen'
      BY <2>6 DEF InsertRefused
    <2>7. ASSUME NEW c \in Clients, Commit(c)
          PROVE  OneOpen'
      <3> DEFINE i == req[c].id
                 to == req[c].to
      <3>1. /\ i \in Ids
            /\ status[i] \in Present
            /\ to \in Allowed[status[i]]
        BY <2>7, RequestShape DEF Commit, RowIsHeld, Committing, Passes
      <3>2. to \in Open => status[i] \in Open
        BY <3>1, OpenFromOpen DEF Open
      <3>3. status' = [status EXCEPT ![i] = to] /\ pair' = pair
        BY <2>7 DEF Commit
      <3> QED
        BY <3>1, <3>2, <3>3
    <2>8. ASSUME NEW c \in Clients, Abort(c)
          PROVE  OneOpen'
      BY <2>8 DEF Abort
    <2>9. ASSUME NEW c \in Clients, Delete(c)
          PROVE  OneOpen'
      BY <2>9 DEF Delete, Open
    <2>10. CASE UNCHANGED vars
      BY <2>10 DEF vars
    <2> QED
      BY <2>1, <2>2, <2>3, <2>4, <2>5, <2>6, <2>7, <2>8, <2>9, <2>10
         DEF Next
  <1> QED
    BY <1>1, <1>2, ApprovalTypeCorrect, LockedInvariant, PTL DEF Spec

-----------------------------------------------------------------------------
(***************************************************************************)
(* The version counts the steps of the workflow.                           *)
(***************************************************************************)

\* A row that was not inserted yet has no decider.
Undecided == \A i \in Ids : status[i] = "absent" => decider[i] = None

\* An approval is approved out of a review, by an admin.
THEOREM InOrder == Spec => []DecidedInOrder
  <1> USE DEF DecidedInOrder, Undecided, Open, Decided
  <1>1. Init => DecidedInOrder /\ Undecided
    BY DEF Init
  <1>2. TypeOK /\ RowIsHeld /\ DecidedInOrder /\ Undecided /\ [Next]_vars
          => DecidedInOrder' /\ Undecided'
    <2> SUFFICES ASSUME TypeOK, RowIsHeld, DecidedInOrder, Undecided, [Next]_vars
                 PROVE  DecidedInOrder' /\ Undecided'
      OBVIOUS
    <2> USE DEF TypeOK, cols
    <2>1. ASSUME NEW c \in Clients, NEW i \in Ids, Look(c, i)
          PROVE  DecidedInOrder' /\ Undecided'
      BY <2>1 DEF Look
    <2>2. ASSUME NEW c \in Clients, NEW i \in Ids, Insert(c, i)
          PROVE  DecidedInOrder' /\ Undecided'
      BY <2>2 DEF Insert
    <2>3. ASSUME NEW c \in Clients, NEW i \in Ids, ReadToDelete(c, i)
          PROVE  DecidedInOrder' /\ Undecided'
      BY <2>3 DEF ReadToDelete
    <2>4. ASSUME NEW c \in Clients, NEW i \in Ids, NEW to \in Present,
                 Lock(c, i, to)
          PROVE  DecidedInOrder' /\ Undecided'
      BY <2>4 DEF Lock
    <2>5. ASSUME NEW c \in Clients, NEW p \in Pairs, Preflight(c, p)
          PROVE  DecidedInOrder' /\ Undecided'
      BY <2>5 DEF Preflight
    <2>6. ASSUME NEW c \in Clients, InsertRefused(c)
          PROVE  DecidedInOrder' /\ Undecided'
      BY <2>6 DEF InsertRefused
    <2>7. ASSUME NEW c \in Clients, Commit(c)
          PROVE  DecidedInOrder' /\ Undecided'
      <3> DEFINE i == req[c].id
                 to == req[c].to
      <3>1. /\ i \in Ids
            /\ status[i] \in Present
            /\ to \in Allowed[status[i]]
            /\ c \in Admins
        BY <2>7, RequestShape DEF Commit, RowIsHeld, Committing, Passes
      <3>2. /\ to \in {"under_review", "approved", "rejected"}
            /\ to = "under_review" => status[i] = "pending"
            /\ to = "approved" => status[i] = "under_review"
            /\ to = "rejected" => status[i] \in {"pending", "under_review"}
        BY <3>1, OpenFromOpen
      <3>3. /\ status' = [status EXCEPT ![i] = to]
            /\ version' = [version EXCEPT ![i] = @ + 1]
            /\ decider' = [decider EXCEPT ![i] =
                              IF to \in Decided THEN c ELSE @]
        BY <2>7 DEF Commit
      <3> QED
        BY <3>1, <3>2, <3>3
    <2>8. ASSUME NEW c \in Clients, Abort(c)
          PROVE  DecidedInOrder' /\ Undecided'
      BY <2>8 DEF Abort
    <2>9. ASSUME NEW c \in Clients, Delete(c)
          PROVE  DecidedInOrder' /\ Undecided'
      BY <2>9 DEF Delete
    <2>10. CASE UNCHANGED vars
      BY <2>10 DEF vars
    <2> QED
      BY <2>1, <2>2, <2>3, <2>4, <2>5, <2>6, <2>7, <2>8, <2>9, <2>10
         DEF Next
  <1> QED
    BY <1>1, <1>2, ApprovalTypeCorrect, LockedInvariant, PTL DEF Spec
-----------------------------------------------------------------------------
(***************************************************************************)
(* The ETag.  Versions of a row only grow, and a row keeps its status as   *)
(* long as it keeps its version, unless it is deleted: so equal versions   *)
(* mean that the client was shown the status the row has now.              *)
(***************************************************************************)

Shown ==
  \A c \in Clients, i \in Ids : etag[c].id = i =>
    /\ status[i] # "absent"
    /\ etag[c].version <= version[i]
    /\ etag[c].version = version[i] =>
         status[i] = etag[c].status \/ status[i] = "deleted"

\* What a client was shown is the row's present or its past.
LEMMA ShownInvariant == Spec => []Shown
  <1> USE DEF Shown
  <1>1. Init => Shown
    BY ClientsAssumption DEF Init, NoTag
  <1>2. TypeOK /\ RowIsHeld /\ Shown /\ [Next]_vars => Shown'
    <2> SUFFICES ASSUME TypeOK, RowIsHeld, Shown, [Next]_vars PROVE Shown'
      OBVIOUS
    <2> USE DEF TypeOK, Tags, cols
    <2>1. ASSUME NEW c \in Clients, NEW i \in Ids, Look(c, i)
          PROVE  Shown'
      BY <2>1 DEF Look, Tag, Present, Open, Decided
    <2>2. ASSUME NEW c \in Clients, NEW i \in Ids, Insert(c, i)
          PROVE  Shown'
      BY <2>2 DEF Insert
    <2>3. ASSUME NEW c \in Clients, NEW i \in Ids, ReadToDelete(c, i)
          PROVE  Shown'
      BY <2>3 DEF ReadToDelete
    <2>4. ASSUME NEW c \in Clients, NEW i \in Ids, NEW to \in Present,
                 Lock(c, i, to)
          PROVE  Shown'
      BY <2>4 DEF Lock
    <2>5. ASSUME NEW c \in Clients, NEW p \in Pairs, Preflight(c, p)
          PROVE  Shown'
      BY <2>5 DEF Preflight
    <2>6. ASSUME NEW c \in Clients, InsertRefused(c)
          PROVE  Shown'
      BY <2>6 DEF InsertRefused
    <2>7. ASSUME NEW c \in Clients, Commit(c)
          PROVE  Shown'
      <3> DEFINE i == req[c].id
                 to == req[c].to
      <3>1. /\ i \in Ids
            /\ to \in Present
            /\ status[i] # "absent"
        BY <2>7, RequestShape
           DEF Commit, RowIsHeld, Committing, Present, Open, Decided
      <3>2. /\ status' = [status EXCEPT ![i] = to]
            /\ version' = [version EXCEPT ![i] = @ + 1]
            /\ etag' = [etag EXCEPT ![c] = [id |-> i,
                                           version |-> version[i] + 1,
                                           status |-> to]]
        BY <2>7 DEF Commit
      <3> QED
        BY <3>1, <3>2 DEF Present, Open, Decided
    <2>8. ASSUME NEW c \in Clients, Abort(c)
          PROVE  Shown'
      BY <2>8 DEF Abort
    <2>9. ASSUME NEW c \in Clients, Delete(c)
          PROVE  Shown'
      BY <2>9 DEF Delete
    <2>10. CASE UNCHANGED vars
      BY <2>10 DEF vars
    <2> QED
      BY <2>1, <2>2, <2>3, <2>4, <2>5, <2>6, <2>7, <2>8, <2>9, <2>10
         DEF Next
  <1> QED
    BY <1>1, <1>2, ApprovalTypeCorrect, LockedInvariant, PTL DEF Spec

\* Whoever acted in between, a transition that commits starts from the status
\* the client was shown.
THEOREM CommitsWhatWasSeen == Spec => DecidedAsSeen
  <1> DEFINE AsSeen ==
        \A c \in Clients :
          req[c].pc = "commit" /\ etag'[c] # etag[c]
            => etag[c].id = req[c].id /\ etag[c].status = status[req[c].id]
  <1>1. TypeOK /\ RowIsHeld /\ Shown /\ [Next]_vars => [AsSeen]_vars
    <2> SUFFICES ASSUME TypeOK, RowIsHeld, Shown,
                        NEW c \in Clients, req[c].pc = "commit"
                 PROVE  /\ etag[c].id = req[c].id
                        /\ etag[c].status = status[req[c].id]
      OBVIOUS
    <2>1. req[c].id \in Ids
      BY RequestShape DEF TypeOK
    <2>2. /\ etag[c].id = req[c].id
          /\ etag[c].version = version[req[c].id]
          /\ status[req[c].id] \in Present
      BY <2>1 DEF RowIsHeld, Committing, Passes
    <2>3. status[req[c].id] # "deleted"
      BY <2>2 DEF Present, Open, Decided
    <2> QED
      BY <2>1, <2>2, <2>3 DEF Shown
  <1> QED
    BY <1>1, ApprovalTypeCorrect, LockedInvariant, ShownInvariant, PTL
       DEF Spec, DecidedAsSeen

\* Of two reviewers who decide at the same time one is refused: no decision is
\* overwritten (a DELETE may still remove it).
THEOREM FinalDecision == Spec => DecisionIsFinal
  <1> DEFINE Kept == \A i \in Ids : status[i] \in Decided =>
                       /\ status'[i] \in {status[i], "deleted"}
                       /\ decider'[i] = decider[i]
  <1>1. TypeOK /\ RowIsHeld /\ [Next]_vars => [Kept]_vars
    <2> SUFFICES ASSUME TypeOK, RowIsHeld, [Next]_vars PROVE Kept
      OBVIOUS
    <2> USE DEF TypeOK, cols, Decided
    <2>1. ASSUME NEW c \in Clients, NEW i \in Ids, Look(c, i)
          PROVE  Kept
      BY <2>1 DEF Look
    <2>2. ASSUME NEW c \in Clients, NEW i \in Ids, Insert(c, i)
          PROVE  Kept
      BY <2>2 DEF Insert
    <2>3. ASSUME NEW c \in Clients, NEW i \in Ids, ReadToDelete(c, i)
          PROVE  Kept
      BY <2>3 DEF ReadToDelete
    <2>4. ASSUME NEW c \in Clients, NEW i \in Ids, NEW to \in Present,
                 Lock(c, i, to)
          PROVE  Kept
      BY <2>4 DEF Lock
    <2>5. ASSUME NEW c \in Clients, NEW p \in Pairs, Preflight(c, p)
          PROVE  Kept
      BY <2>5 DEF Preflight
    <2>6. ASSUME NEW c \in Clients, InsertRefused(c)
          PROVE  Kept
      BY <2>6 DEF InsertRefused
    <2>7. ASSUME NEW c \in Clients, Commit(c)
          PROVE  Kept
      <3>1. /\ req[c].id \in Ids
            /\ status[req[c].id] \in Present
            /\ req[c].to \in Allowed[status[req[c].id]]
        BY <2>7, RequestShape DEF Commit, RowIsHeld, Committing, Passes
      <3>2. status[req[c].id] \notin Decided
        BY <3>1 DEF Allowed
      <3> QED
        BY <2>7, <3>1, <3>2 DEF Commit
    <2>8. ASSUME NEW c \in Clients, Abort(c)
          PROVE  Kept
      BY <2>8 DEF Abort
    <2>9. ASSUME NEW c \in Clients, Delete(c)
          PROVE  Kept
      BY <2>9 DEF Delete
    <2>10. CASE UNCHANGED vars
      BY <2>10 DEF vars
    <2> QED
      BY <2>1, <2>2, <2>3, <2>4, <2>5, <2>6, <2>7, <2>8, <2>9, <2>10
         DEF Next
  <1> QED
    BY <1>1, ApprovalTypeCorrect, LockedInvariant, PTL DEF Spec, DecisionIsFinal

-------------------------------------------------------------------------------
(***************************************************************************)
(* Theorems of Deliveries for any number of deliveries, handlers and       *)
(* scans: its type invariant, that a push is scanned at most once and      *)
(* never silently dropped, and that the webhooks implement the scan board. *)
(*                                                                         *)
(* The argument: a handler that goes on to insert a scan is the only one   *)
(* that recorded its delivery, and no scan is from that delivery yet       *)
(* (OneRecorder, RecordedIsNew); the partial unique index leaves one scan  *)
(* in flight (OneInFlight), which is what the board asks of a step that    *)
(* takes a scan up.                                                        *)
(***************************************************************************)

\* A handler that moves on keeps its delivery and its scan, and disturbs no other.
LEMMA HandlerMoves ==
  ASSUME DeliveryTypeOK, NEW r \in Requests, wreq[r] # Idle,
         NEW pc \in {"found", "recorded", "inserted", "linking", "end"}, Handler(r, pc)
  PROVE  /\ wreq' \in [Requests -> {Idle} \union Handlers]
         /\ wreq[r] \in Handlers /\ wreq'[r] \in Handlers
         /\ wreq'[r].pc = pc /\ wreq'[r].d = wreq[r].d /\ wreq'[r].n = wreq[r].n
         /\ \A q \in Requests \ {r} : wreq'[q] = wreq[q]
  <1> DEFINE w == [wreq[r] EXCEPT !.pc = pc]
  <1>1. wreq[r] \in Handlers
    BY DEF DeliveryTypeOK
  <1>2. w \in Handlers /\ w.pc = pc /\ w.d = wreq[r].d /\ w.n = wreq[r].n
    BY <1>1 DEF Handlers
  <1>3. wreq' = [wreq EXCEPT ![r] = w]
    BY DEF Handler
  <1> HIDE DEF w
  <1> QED
    BY <1>1, <1>2, <1>3 DEF DeliveryTypeOK

\* A handler that inserts a scan keeps its delivery, and disturbs no other.
LEMMA HandlerInserts ==
  ASSUME DeliveryTypeOK, NEW r \in Requests, wreq[r] # Idle, NEW n \in WebScans,
         wreq' = [wreq EXCEPT ![r] = [@ EXCEPT !.pc = "inserted", !.n = n]]
  PROVE  /\ wreq' \in [Requests -> {Idle} \union Handlers]
         /\ wreq[r] \in Handlers /\ wreq'[r] \in Handlers
         /\ wreq'[r].pc = "inserted" /\ wreq'[r].d = wreq[r].d /\ wreq'[r].n = n
         /\ \A q \in Requests \ {r} : wreq'[q] = wreq[q]
  <1> DEFINE w == [wreq[r] EXCEPT !.pc = "inserted", !.n = n]
  <1>1. wreq[r] \in Handlers
    BY DEF DeliveryTypeOK
  <1>2. n \in 0..MaxWebScans
    BY WebScansAssumption DEF WebScans
  <1>3. w \in Handlers /\ w.pc = "inserted" /\ w.d = wreq[r].d /\ w.n = n
    BY <1>1, <1>2 DEF Handlers
  <1>4. wreq' = [wreq EXCEPT ![r] = w]
    OBVIOUS
  <1> HIDE DEF w
  <1> QED
    BY <1>1, <1>3, <1>4 DEF DeliveryTypeOK

ScanRows ==
  [from   : Pushes \union {"nobody", "hand"},
   status : {"none", "queued", "running", "succeeded", "failed"}]

\* Every variable of Deliveries starts in its domain.
LEMMA DeliveryTypeInit == DeliveryInit => DeliveryTypeOK
  <1>1. NoWebScan \in ScanRows /\ 0 \in 0..MaxWebScans
    BY WebScansAssumption DEF NoWebScan, ScanRows
  <1> QED
    BY <1>1 DEF DeliveryInit, DeliveryTypeOK, ScanRows

\* Every step keeps every variable of Deliveries in its domain.
LEMMA DeliveryTypeStep ==
  ASSUME DeliveryTypeOK, [DeliveryNext]_deliveryVars
  PROVE  DeliveryTypeOK'
  <1>1. CASE Configure
    BY <1>1 DEF Configure, DeliveryTypeOK
  <1>2. ASSUME NEW r \in Requests, NEW d \in Pushes, Receive(r, d)
        PROVE  DeliveryTypeOK'
    <2>1. [pc |-> "found", d |-> d, n |-> 0] \in Handlers
      BY WebScansAssumption DEF Handlers
    <2> QED
      BY <1>2, <2>1 DEF Receive, DeliveryTypeOK
  <1>3. ASSUME NEW r \in Requests, RecordDelivery(r)
        PROVE  DeliveryTypeOK'
    <2> DEFINE to == IF ledger[wreq[r].d] # "absent" \/ wreq[r].d \in Ignored
                     THEN "end" ELSE "recorded"
    <2>0. wreq[r] # Idle /\ Handler(r, to) /\ to \in {"end", "recorded"}
      BY <1>3 DEF RecordDelivery, Idle
    <2> HIDE DEF to
    <2>1. wreq' \in [Requests -> {Idle} \union Handlers] /\ wreq[r] \in Handlers
      BY <2>0, HandlerMoves
    <2>2. wreq[r].d \in Pushes
      BY <2>1 DEF Handlers
    <2> QED
      BY <1>3, <2>1, <2>2 DEF RecordDelivery, DeliveryTypeOK
  <1>4. ASSUME NEW r \in Requests, InsertScan(r)
        PROVE  DeliveryTypeOK'
    <2>0. wreq[r].pc = "recorded"
      BY <1>4 DEF InsertScan
    <2>1. wreq[r] # Idle
      BY <2>0 DEF Idle
    <2>2. wreq[r] \in Handlers
      BY <2>1 DEF DeliveryTypeOK
    <2>3. wreq[r].d \in Pushes
      BY <2>2 DEF Handlers
    <2>4. CASE Handler(r, "end") /\ UNCHANGED <<webscan, newest>>
      BY <1>4, <2>1, <2>3, <2>4, HandlerMoves DEF InsertScan, DeliveryTypeOK
    <2>5. ASSUME NEW n \in WebScans,
                 webscan' = [webscan EXCEPT ![n] = [from |-> wreq[r].d, status |-> "queued"]],
                 newest' = n,
                 wreq' = [wreq EXCEPT ![r] = [@ EXCEPT !.pc = "inserted", !.n = n]],
                 UNCHANGED excused
          PROVE  DeliveryTypeOK'
      <3>1. wreq' \in [Requests -> {Idle} \union Handlers]
        BY <2>1, <2>5, HandlerInserts
      <3>2. newest' \in 0..MaxWebScans
        BY <2>5, WebScansAssumption DEF WebScans
      <3> QED
        BY <1>4, <2>3, <2>5, <3>1, <3>2 DEF InsertScan, DeliveryTypeOK
    <2> QED
      BY <1>4, <2>4, <2>5 DEF InsertScan
  <1>5. ASSUME NEW r \in Requests, NEW taken \in BOOLEAN, PublishScan(r, taken)
        PROVE  DeliveryTypeOK'
    <2>1. wreq' \in [Requests -> {Idle} \union Handlers]
      BY <1>5, HandlerMoves DEF PublishScan, Idle
    <2>2. webscan' \in [WebScans -> ScanRows]
      BY <1>5 DEF PublishScan, DeliveryTypeOK, ScanRows
    <2> QED
      BY <1>5, <2>1, <2>2 DEF PublishScan, DeliveryTypeOK, ScanRows
  <1>6. ASSUME NEW r \in Requests, LinkDelivery(r)
        PROVE  DeliveryTypeOK'
    <2>1. wreq' \in [Requests -> {Idle} \union Handlers]
      BY <1>6, HandlerMoves DEF LinkDelivery, Idle
    <2> QED
      BY <1>6, <2>1 DEF LinkDelivery, DeliveryTypeOK
  <1>7. ASSUME NEW r \in Requests, AnswerDelivery(r)
        PROVE  DeliveryTypeOK'
    BY <1>7 DEF AnswerDelivery, DeliveryTypeOK
  <1>8. ASSUME NEW r \in Requests, LoseHandler(r)
        PROVE  DeliveryTypeOK'
    <2>1. wreq[r] \in Handlers
      BY <1>8 DEF LoseHandler, DeliveryTypeOK
    <2>2. wreq[r].d \in Pushes
      BY <2>1 DEF Handlers
    <2> QED
      BY <1>8, <2>2 DEF LoseHandler, DeliveryTypeOK
  <1>9. ASSUME NEW n \in WebScans, ScanByHand(n)
        PROVE  DeliveryTypeOK'
    <2>1. newest' \in 0..MaxWebScans
      BY <1>9, WebScansAssumption DEF ScanByHand, WebScans
    <2> QED
      BY <1>9, <2>1 DEF ScanByHand, DeliveryTypeOK
  <1>10. ASSUME NEW n \in WebScans, NEW to \in {"running", "succeeded", "failed"},
                WorkOnScan(n, to)
         PROVE  DeliveryTypeOK'
    BY <1>10 DEF WorkOnScan, DeliveryTypeOK
  <1>11. CASE UNCHANGED deliveryVars
    BY <1>11 DEF deliveryVars, DeliveryTypeOK
  <1> QED
    BY <1>1, <1>2, <1>3, <1>4, <1>5, <1>6, <1>7, <1>8, <1>9, <1>10, <1>11
       DEF DeliveryNext

\* Every variable of Deliveries stays in its domain.
THEOREM DeliveryTypeCorrect == DeliverySpec => []DeliveryTypeOK
  BY DeliveryTypeInit, DeliveryTypeStep, PTL DEF DeliverySpec

-------------------------------------------------------------------------------

\* Who goes on to insert the scan of a delivery is alone, and comes first.
OneRecorder ==
  \A q, r \in Requests :
    /\ wreq[q].pc = "recorded"
    /\ wreq[r].pc = "recorded"
    /\ wreq[q].d = wreq[r].d
    => q = r

RecordedIsNew ==
  \A r \in Requests :
    wreq[r].pc = "recorded" => \A n \in WebScans : webscan[n].from # wreq[r].d

\* The delivery of such a handler, and of a scan, is in the ledger.
HandledIsKept ==
  \A r \in Requests :
    wreq[r].pc \in {"recorded", "inserted", "linking"} => ledger[wreq[r].d] # "absent"

ScannedIsKept ==
  \A n \in WebScans : webscan[n].from \in Pushes => ledger[webscan[n].from] # "absent"

BlankRows ==
  \A n \in WebScans : webscan[n].status = "none" => webscan[n].from = "nobody"

InsertedHasScan ==
  \A r \in Requests : wreq[r].pc = "inserted" => wreq[r].n \in WebScans

InFlightScan(n) == webscan[n].status \in {"queued", "running"}

OneInFlight ==
  \A m, n \in WebScans : InFlightScan(m) /\ InFlightScan(n) => m = n

DeliveryInv ==
  /\ OneRecorder
  /\ RecordedIsNew
  /\ HandledIsKept
  /\ ScannedIsKept
  /\ BlankRows
  /\ InsertedHasScan
  /\ OneInFlight
  /\ OneScanPerPush
  /\ PushIsScanned

\* DeliveryInv holds at the start.
LEMMA DeliveryInvInit == DeliveryInit => DeliveryInv
  BY PushesAssumption
     DEF DeliveryInit, DeliveryInv, OneRecorder, RecordedIsNew, HandledIsKept, ScannedIsKept,
         BlankRows, InsertedHasScan, InFlightScan, OneInFlight, OneScanPerPush,
         PushIsScanned, Idle, NoWebScan

\* A handler that only stops being under way, or goes on to a place where it
\* inserts nothing, leaves DeliveryInv as it was.
LEMMA QuietMove ==
  ASSUME DeliveryTypeOK, DeliveryInv, NEW r \in Requests,
         wreq[r].pc # "recorded",
         wreq'[r].pc \notin {"recorded", "inserted"},
         wreq'[r].pc = "linking" => wreq[r].pc = "inserted" /\ wreq'[r].d = wreq[r].d,
         \A q \in Requests \ {r} : wreq'[q] = wreq[q],
         \A d \in Pushes : (ledger[d] = "absent") <=> (ledger'[d] = "absent"),
         UNCHANGED <<webscan, excused>>
  PROVE  DeliveryInv'
  <1> USE DEF DeliveryInv, DeliveryTypeOK
  <1>1. OneRecorder'
    BY DEF OneRecorder
  <1>2. \A q \in Requests : wreq[q].pc = "recorded" => wreq[q].d \in Pushes
    BY DEF Handlers, Idle
  <1>3. RecordedIsNew' /\ HandledIsKept'
    <2>1. \A q \in Requests : wreq[q] \in Handlers \/ wreq[q].pc = "idle"
      BY DEF Idle
    <2>2. \A q \in Requests :
            wreq[q].pc \in {"recorded", "inserted", "linking"} => wreq[q].d \in Pushes
      BY <2>1 DEF Handlers
    <2> QED
      BY <1>2, <2>2 DEF RecordedIsNew, HandledIsKept
  <1>4. ScannedIsKept' /\ BlankRows' /\ InsertedHasScan'
    BY DEF ScannedIsKept, BlankRows, InsertedHasScan
  <1>5. OneInFlight' /\ OneScanPerPush'
    BY DEF OneInFlight, InFlightScan, OneScanPerPush
  <1>6. PushIsScanned'
    BY DEF PushIsScanned
  <1> QED
    BY <1>1, <1>3, <1>4, <1>5, <1>6

\* A scan that moves on, with no other in flight, leaves DeliveryInv as it was.
LEMMA QuietScan ==
  ASSUME DeliveryTypeOK, DeliveryInv, NEW n \in WebScans,
         \A m \in WebScans : webscan'[m].from = webscan[m].from,
         \A m \in WebScans \ {n} : webscan'[m].status = webscan[m].status,
         webscan'[n].status # "none",
         InFlightScan(n)' => InFlightScan(n),
         UNCHANGED <<ledger, excused>>,
         \A q \in Requests :
           \/ wreq'[q] = wreq[q]
           \/ /\ wreq[q].pc = "inserted" /\ wreq'[q].pc = "linking"
              /\ wreq'[q].d = wreq[q].d
  PROVE  DeliveryInv'
  <1> USE DEF DeliveryInv, DeliveryTypeOK
  <1>1. OneRecorder'
    BY DEF OneRecorder
  <1>2. RecordedIsNew' /\ HandledIsKept'
    BY DEF RecordedIsNew, HandledIsKept
  <1>3. ScannedIsKept' /\ BlankRows' /\ InsertedHasScan'
    BY DEF ScannedIsKept, BlankRows, InsertedHasScan
  <1>4. OneInFlight'
    BY DEF OneInFlight, InFlightScan
  <1>5. OneScanPerPush'
    BY DEF OneScanPerPush
  <1>6. PushIsScanned'
    BY DEF PushIsScanned
  <1> QED
    BY <1>1, <1>2, <1>3, <1>4, <1>5, <1>6

\* _record_delivery keeps DeliveryInv: the delivery was in nobody's hands.
LEMMA RecordStep ==
  ASSUME DeliveryTypeOK, DeliveryInv, NEW r \in Requests, RecordDelivery(r)
  PROVE  DeliveryInv'
  <1> DEFINE to == IF ledger[wreq[r].d] # "absent" \/ wreq[r].d \in Ignored
                   THEN "end" ELSE "recorded"
  <1>1. /\ wreq[r] # Idle /\ wreq[r].pc = "found" /\ Handler(r, to)
        /\ to \in {"end", "recorded"} /\ UNCHANGED <<webscan, excused>>
    BY DEF RecordDelivery, Idle
  <1>2. (to = "recorded") => /\ ledger[wreq[r].d] = "absent" /\ wreq[r].d \notin Ignored
    OBVIOUS
  <1>3. (to = "end") => (ledger[wreq[r].d] # "absent" \/ wreq[r].d \in Ignored)
    OBVIOUS
  <1> HIDE DEF to
  <1>4. /\ wreq[r] \in Handlers /\ wreq'[r] \in Handlers
        /\ wreq'[r].pc = to /\ wreq'[r].d = wreq[r].d
        /\ \A q \in Requests \ {r} : wreq'[q] = wreq[q]
    BY <1>1, HandlerMoves
  <1>5. wreq[r].d \in Pushes
    BY <1>4 DEF Handlers
  <1>6. /\ ledger'[wreq[r].d] # "absent"
        /\ \A d \in Pushes \ {wreq[r].d} : ledger'[d] = ledger[d]
    BY <1>5 DEF RecordDelivery, DeliveryTypeOK
  <1>7. \A q \in Requests :
          wreq[q].pc \in {"recorded", "inserted", "linking"} => wreq[q].d \in Pushes
    BY DEF DeliveryTypeOK, Handlers, Idle
  <1> USE DEF DeliveryInv
  <1>8. OneRecorder'
    BY <1>1, <1>2, <1>4 DEF OneRecorder, HandledIsKept
  <1>9. RecordedIsNew'
    BY <1>1, <1>2, <1>4, <1>5, <1>6, <1>7 DEF RecordedIsNew, ScannedIsKept
  <1>10. HandledIsKept'
    BY <1>1, <1>4, <1>6, <1>7 DEF HandledIsKept
  <1>11. ScannedIsKept'
    BY <1>1, <1>6 DEF ScannedIsKept
  <1>12. BlankRows' /\ InsertedHasScan'
    BY <1>1, <1>4 DEF BlankRows, InsertedHasScan
  <1>13. OneInFlight' /\ OneScanPerPush'
    BY <1>1 DEF OneInFlight, InFlightScan, OneScanPerPush
  <1>14. PushIsScanned'
    <2> SUFFICES ASSUME NEW d \in Pushes \ (Ignored \union excused),
                        ledger'[d] # "absent",
                        \A n \in WebScans : webscan[n].from # d
                 PROVE  \E q \in Requests : /\ wreq'[q] # Idle
                                            /\ wreq'[q].d = d
                                            /\ wreq'[q].pc = "recorded"
      BY <1>1 DEF PushIsScanned
    <2>1. CASE ledger[d] # "absent"
      <3>1. PICK q \in Requests : wreq[q] # Idle /\ wreq[q].d = d /\ wreq[q].pc = "recorded"
        BY <2>1 DEF PushIsScanned
      <3> QED
        BY <1>1, <1>4, <3>1
    <2>2. CASE ledger[d] = "absent"
      <3>1. d = wreq[r].d
        BY <1>6, <2>2
      <3>2. to = "recorded"
        BY <1>1, <1>3, <2>2, <3>1
      <3> QED
        BY <1>4, <3>1, <3>2 DEF Idle
    <2> QED
      BY <2>1, <2>2
  <1> QED
    BY <1>8, <1>9, <1>10, <1>11, <1>12, <1>13, <1>14

\* _enqueue_source_scan keeps DeliveryInv: only this handler has the delivery.
LEMMA InsertStep ==
  ASSUME DeliveryTypeOK, DeliveryInv, NEW r \in Requests, InsertScan(r)
  PROVE  DeliveryInv'
  <1>1. wreq[r].pc = "recorded" /\ UNCHANGED ledger
    BY DEF InsertScan
  <1>2. wreq[r] # Idle
    BY <1>1 DEF Idle
  <1>3. wreq[r] \in Handlers
    BY <1>2 DEF DeliveryTypeOK
  <1>4. wreq[r].d \in Pushes
    BY <1>3 DEF Handlers
  <1> USE DEF DeliveryInv
  <1>5. CASE /\ excused' = excused \union {wreq[r].d}
             /\ Handler(r, "end")
             /\ UNCHANGED <<webscan, newest>>
    <2>1. wreq'[r].pc = "end" /\ \A q \in Requests \ {r} : wreq'[q] = wreq[q]
      BY <1>2, <1>5, HandlerMoves
    <2>2. OneRecorder' /\ RecordedIsNew' /\ HandledIsKept'
      BY <1>1, <1>5, <2>1 DEF OneRecorder, RecordedIsNew, HandledIsKept
    <2>3. ScannedIsKept' /\ BlankRows' /\ InsertedHasScan'
      BY <1>1, <1>5, <2>1 DEF ScannedIsKept, BlankRows, InsertedHasScan
    <2>4. OneInFlight' /\ OneScanPerPush'
      BY <1>5 DEF OneInFlight, InFlightScan, OneScanPerPush
    <2>5. PushIsScanned'
      BY <1>1, <1>5, <2>1 DEF PushIsScanned
    <2> QED
      BY <2>2, <2>3, <2>4, <2>5
  <1>6. ASSUME NEW n \in WebScans, ~InFlightWeb, Fresh(n),
               webscan' = [webscan EXCEPT ![n] = [from |-> wreq[r].d, status |-> "queued"]],
               wreq' = [wreq EXCEPT ![r] = [@ EXCEPT !.pc = "inserted", !.n = n]],
               UNCHANGED excused
        PROVE  DeliveryInv'
    <2>1. /\ wreq'[r].pc = "inserted" /\ wreq'[r].n = n /\ wreq'[r].d = wreq[r].d
          /\ \A q \in Requests \ {r} : wreq'[q] = wreq[q]
      BY <1>2, <1>6, HandlerInserts
    <2>2. /\ webscan'[n].from = wreq[r].d /\ webscan'[n].status = "queued"
          /\ \A m \in WebScans \ {n} : webscan'[m] = webscan[m]
      BY <1>6 DEF DeliveryTypeOK
    <2>3. \A m \in WebScans : ~InFlightScan(m)
      BY <1>6 DEF InFlightWeb, InFlightScan
    <2>4. OneRecorder'
      BY <2>1 DEF OneRecorder
    <2>5. RecordedIsNew' /\ HandledIsKept'
      BY <1>1, <2>1, <2>2 DEF RecordedIsNew, OneRecorder, HandledIsKept
    <2>6. ScannedIsKept'
      BY <1>1, <2>2 DEF ScannedIsKept, HandledIsKept
    <2>7. BlankRows' /\ InsertedHasScan'
      BY <1>6, <2>1, <2>2 DEF BlankRows, InsertedHasScan
    <2>8. OneInFlight'
      BY <2>2, <2>3 DEF OneInFlight, InFlightScan
    <2>9. OneScanPerPush'
      BY <1>1, <2>2 DEF OneScanPerPush, RecordedIsNew
    <2>10. PushIsScanned'
      <3> SUFFICES ASSUME NEW d \in Pushes \ (Ignored \union excused),
                          ledger[d] # "absent",
                          \A m \in WebScans : webscan'[m].from # d
                   PROVE  \E q \in Requests : /\ wreq'[q] # Idle
                                              /\ wreq'[q].d = d
                                              /\ wreq'[q].pc = "recorded"
        BY <1>1, <1>6 DEF PushIsScanned
      <3>1. d # wreq[r].d
        BY <2>2
      <3>2. webscan[n].from # d
        BY <1>6, PushesAssumption DEF Fresh, BlankRows
      <3>3. \A m \in WebScans : webscan[m].from # d
        BY <2>2, <3>2
      <3>4. PICK q \in Requests : wreq[q] # Idle /\ wreq[q].d = d /\ wreq[q].pc = "recorded"
        BY <3>3 DEF PushIsScanned
      <3> QED
        BY <2>1, <3>1, <3>4
    <2> QED
      BY <2>4, <2>5, <2>6, <2>7, <2>8, <2>9, <2>10
  <1> QED
    BY <1>5, <1>6 DEF InsertScan

\* Every step keeps DeliveryInv.
LEMMA DeliveryInvStep ==
  ASSUME DeliveryTypeOK, DeliveryInv, [DeliveryNext]_deliveryVars
  PROVE  DeliveryInv'
  <1>1. CASE Configure \/ UNCHANGED deliveryVars
    BY <1>1 DEF Configure, deliveryVars, DeliveryInv, OneRecorder, RecordedIsNew,
                HandledIsKept, ScannedIsKept, BlankRows, InsertedHasScan, InFlightScan, OneInFlight,
                OneScanPerPush, PushIsScanned
  <1>2. ASSUME NEW r \in Requests, NEW d \in Pushes, Receive(r, d)
        PROVE  DeliveryInv'
    <2>1. /\ wreq[r].pc = "idle" /\ wreq'[r].pc = "found"
          /\ \A q \in Requests \ {r} : wreq'[q] = wreq[q]
          /\ UNCHANGED <<ledger, webscan, excused>>
      BY <1>2 DEF Receive, Idle, DeliveryTypeOK
    <2> QED
      BY <2>1, QuietMove
  <1>3. ASSUME NEW r \in Requests, RecordDelivery(r)
        PROVE  DeliveryInv'
    BY <1>3, RecordStep
  <1>4. ASSUME NEW r \in Requests, InsertScan(r)
        PROVE  DeliveryInv'
    BY <1>4, InsertStep
  <1>5. ASSUME NEW r \in Requests, NEW taken \in BOOLEAN, PublishScan(r, taken)
        PROVE  DeliveryInv'
    <2>1. /\ wreq[r].pc = "inserted" /\ wreq'[r].pc = "linking"
          /\ wreq'[r].d = wreq[r].d
          /\ \A q \in Requests \ {r} : wreq'[q] = wreq[q]
          /\ UNCHANGED <<ledger, excused>>
      BY <1>5, HandlerMoves DEF PublishScan, Idle
    <2>2. CASE taken
      BY <1>5, <2>1, <2>2, QuietMove DEF PublishScan
    <2>3. CASE ~taken
      <3>1. wreq[r].n \in WebScans
        BY <2>1 DEF DeliveryInv, InsertedHasScan
      <3>2. webscan' = [webscan EXCEPT ![wreq[r].n] = [@ EXCEPT !.status = "failed"]]
        BY <1>5, <2>3 DEF PublishScan
      <3>3. /\ webscan'[wreq[r].n].from = webscan[wreq[r].n].from
            /\ webscan'[wreq[r].n].status = "failed"
            /\ \A m \in WebScans \ {wreq[r].n} : webscan'[m] = webscan[m]
        BY <3>1, <3>2 DEF DeliveryTypeOK
      <3> QED
        BY <2>1, <3>1, <3>3, QuietScan DEF InFlightScan
    <2> QED
      BY <2>2, <2>3
  <1>6. ASSUME NEW r \in Requests, LinkDelivery(r)
        PROVE  DeliveryInv'
    <2>1. /\ wreq[r].pc = "linking" /\ wreq'[r].pc = "end"
          /\ \A q \in Requests \ {r} : wreq'[q] = wreq[q]
          /\ UNCHANGED <<webscan, excused>>
          /\ wreq[r] \in Handlers
      BY <1>6, HandlerMoves DEF LinkDelivery, Idle
    <2>2. wreq[r].d \in Pushes /\ ledger[wreq[r].d] # "absent"
      BY <2>1 DEF Handlers, DeliveryInv, HandledIsKept
    <2>3. \A d \in Pushes : (ledger[d] = "absent") <=> (ledger'[d] = "absent")
      BY <1>6, <2>2 DEF LinkDelivery, DeliveryTypeOK
    <2> QED
      BY <2>1, <2>3, QuietMove
  <1>7. ASSUME NEW r \in Requests, AnswerDelivery(r)
        PROVE  DeliveryInv'
    <2>1. /\ wreq[r].pc = "end" /\ wreq'[r].pc = "idle"
          /\ \A q \in Requests \ {r} : wreq'[q] = wreq[q]
          /\ UNCHANGED <<ledger, webscan, excused>>
      BY <1>7 DEF AnswerDelivery, Idle, DeliveryTypeOK
    <2> QED
      BY <2>1, QuietMove
  <1>8. ASSUME NEW r \in Requests, LoseHandler(r)
        PROVE  DeliveryInv'
    <2>1. /\ wreq'[r].pc = "idle"
          /\ \A q \in Requests \ {r} : wreq'[q] = wreq[q]
          /\ UNCHANGED <<ledger, webscan>>
      BY <1>8 DEF LoseHandler, Idle, DeliveryTypeOK
    <2>2. CASE wreq[r].pc # "recorded"
      BY <1>8, <2>1, <2>2, QuietMove DEF LoseHandler
    <2>3. CASE wreq[r].pc = "recorded"
      <3>1. excused' = excused \union {wreq[r].d}
        BY <1>8, <2>3 DEF LoseHandler
      <3> USE DEF DeliveryInv
      <3>2. OneRecorder' /\ RecordedIsNew' /\ HandledIsKept'
        BY <2>1 DEF OneRecorder, RecordedIsNew, HandledIsKept
      <3>3. ScannedIsKept' /\ BlankRows' /\ InsertedHasScan'
        BY <2>1 DEF ScannedIsKept, BlankRows, InsertedHasScan
      <3>4. OneInFlight' /\ OneScanPerPush'
        BY <2>1 DEF OneInFlight, InFlightScan, OneScanPerPush
      <3>5. PushIsScanned'
        BY <2>1, <3>1 DEF PushIsScanned
      <3> QED
        BY <3>2, <3>3, <3>4, <3>5
    <2> QED
      BY <2>2, <2>3
  <1>9. ASSUME NEW n \in WebScans, ScanByHand(n)
        PROVE  DeliveryInv'
    <2>1. /\ webscan'[n].from = "hand" /\ webscan'[n].status = "queued"
          /\ \A m \in WebScans \ {n} : webscan'[m] = webscan[m]
          /\ webscan[n].status = "none"
          /\ UNCHANGED <<ledger, excused, wreq>>
      BY <1>9 DEF ScanByHand, Fresh, DeliveryTypeOK
    <2>2. \A m \in WebScans : ~InFlightScan(m)
      BY <1>9 DEF ScanByHand, InFlightWeb, InFlightScan
    <2> USE DEF DeliveryInv
    <2>3. \A q \in Requests : wreq[q].pc = "recorded" => wreq[q].d \in Pushes
      BY DEF DeliveryTypeOK, Handlers, Idle
    <2>4. OneRecorder' /\ RecordedIsNew' /\ HandledIsKept'
      BY <2>1, <2>3, PushesAssumption DEF OneRecorder, RecordedIsNew, HandledIsKept
    <2>5. ScannedIsKept' /\ BlankRows' /\ InsertedHasScan'
      BY <2>1, PushesAssumption DEF ScannedIsKept, BlankRows, InsertedHasScan
    <2>6. OneInFlight'
      BY <2>1, <2>2 DEF OneInFlight, InFlightScan
    <2>7. OneScanPerPush'
      BY <2>1, PushesAssumption DEF OneScanPerPush
    <2>8. PushIsScanned'
      BY <2>1, PushesAssumption DEF PushIsScanned, BlankRows
    <2> QED
      BY <2>4, <2>5, <2>6, <2>7, <2>8
  <1>10. ASSUME NEW n \in WebScans, NEW to \in {"running", "succeeded", "failed"},
                WorkOnScan(n, to)
         PROVE  DeliveryInv'
    <2>1. /\ webscan'[n].from = webscan[n].from /\ webscan'[n].status = to
          /\ \A m \in WebScans \ {n} : webscan'[m] = webscan[m]
          /\ InFlightScan(n)
          /\ UNCHANGED <<ledger, excused, wreq>>
      BY <1>10 DEF WorkOnScan, InFlightScan, DeliveryTypeOK
    <2> QED
      BY <2>1, QuietScan
  <1> QED
    BY <1>1, <1>2, <1>3, <1>4, <1>5, <1>6, <1>7, <1>8, <1>9, <1>10 DEF DeliveryNext

\* DeliveryInv holds always.
LEMMA DeliveryInvHolds == DeliverySpec => []DeliveryInv
  BY DeliveryInvInit, DeliveryInvStep, DeliveryTypeCorrect, PTL DEF DeliverySpec

\* A push is scanned at most once, however often and to how many handlers it is
\* delivered; and one that was recorded is scanned, unless a scan in flight stands for
\* it or the process died between the two commits.
THEOREM PushesAreScanned == DeliverySpec => []PushesScannedOnce
  <1>1. DeliveryInv => PushesScannedOnce
    BY DEF DeliveryInv, PushesScannedOnce
  <1> QED
    BY <1>1, DeliveryInvHolds, PTL

-------------------------------------------------------------------------------

\* A step that gives one scan another status, and no project another latest
\* scan, as the board sees it.
LEMMA BoardMove ==
  ASSUME DeliveryTypeOK, NEW n \in WebScans, NEW from, NEW to,
         webscan[n].status \in from,
         webscan'[n].status = to,
         \A m \in WebScans \ {n} : webscan'[m].status = webscan[m].status
  PROVE  HookBoard!Move(n, from, to)
  <1>1. [m \in WebScans |-> webscan'[m].status]
          = [[m \in WebScans |-> webscan[m].status] EXCEPT ![n] = to]
    OBVIOUS
  <1>2. [m \in WebScans |-> webscan[m].status][n] = webscan[n].status
    OBVIOUS
  <1> QED
    BY <1>1, <1>2 DEF HookBoard!Move

\* A new row is the project's only scan in flight, and its latest.
LEMMA BoardQueue ==
  ASSUME DeliveryTypeOK, NEW n \in WebScans, ~InFlightWeb, Fresh(n),
         webscan'[n].status = "queued",
         \A m \in WebScans \ {n} : webscan'[m].status = webscan[m].status,
         newest' = n
  PROVE  HookBoard!Queue(n)
  <1>1. webscan[n].status \in {"none"}
    BY DEF Fresh
  <1>2. HookBoard!Move(n, {"none"}, "queued")
    BY <1>1, BoardMove
  <1>3. HookBoard!Free(n)
    BY DEF HookBoard!Free, HookBoard!InFlight, InFlightWeb
  <1>4. [p \in {"hooked"} |-> newest']
          = [[p \in {"hooked"} |-> newest] EXCEPT
               ![[m \in WebScans |-> "hooked"][n]] = n]
    OBVIOUS
  <1> QED
    BY <1>2, <1>3, <1>4 DEF HookBoard!Queue

\* Every step of the webhooks is a step of the board, or none.
LEMMA BoardStep ==
  ASSUME DeliveryTypeOK, DeliveryInv, [DeliveryNext]_deliveryVars
  PROVE  [HookBoard!Next]_(HookBoard!vars)
  <1> USE DEF HookBoard!Next
  <1>1. ASSUME UNCHANGED <<webscan, newest>>
        PROVE  UNCHANGED HookBoard!vars
    BY <1>1 DEF HookBoard!vars
  <1>2. ASSUME NEW r \in Requests, InsertScan(r)
        PROVE  [HookBoard!Next]_(HookBoard!vars)
    <2>1. CASE UNCHANGED <<webscan, newest>>
      BY <1>1, <2>1
    <2>2. ASSUME NEW n \in WebScans, ~InFlightWeb, Fresh(n),
                 webscan' = [webscan EXCEPT ![n] = [from |-> wreq[r].d, status |-> "queued"]],
                 newest' = n
          PROVE  HookBoard!Next
      <3>1. /\ webscan'[n].status = "queued"
            /\ \A m \in WebScans \ {n} : webscan'[m].status = webscan[m].status
        BY <2>2 DEF DeliveryTypeOK
      <3> QED
        BY <2>2, <3>1, BoardQueue
    <2> QED
      BY <1>2, <2>1, <2>2 DEF InsertScan
  <1>3. ASSUME NEW r \in Requests, NEW taken \in BOOLEAN, PublishScan(r, taken)
        PROVE  [HookBoard!Next]_(HookBoard!vars)
    <2>1. CASE taken
      BY <1>1, <1>3, <2>1 DEF PublishScan
    <2>2. ASSUME NEW n \in WebScans, n = wreq[r].n, ~taken
          PROVE  HookBoard!Next
      <3>1. webscan[n].status \in {"queued", "running", "cancelled"}
        BY <1>3, <2>2 DEF PublishScan
      <3>2. webscan' = [webscan EXCEPT ![n] = [@ EXCEPT !.status = "failed"]]
            /\ UNCHANGED newest
        BY <1>3, <2>2 DEF PublishScan
      <3>3. /\ webscan'[n].status = "failed"
            /\ \A m \in WebScans \ {n} : webscan'[m].status = webscan[m].status
        BY <3>2 DEF DeliveryTypeOK
      <3>4. HookBoard!Move(n, {"queued", "running", "cancelled"}, "failed")
        BY <3>1, <3>3, BoardMove
      <3>5. HookBoard!Fail(n)
        BY <3>2, <3>4 DEF HookBoard!Fail
      <3> QED
        BY <3>5
    <2>3. wreq[r].n \in WebScans
      BY <1>3 DEF PublishScan, DeliveryInv, InsertedHasScan
    <2> QED
      BY <2>1, <2>2, <2>3
  <1>4. ASSUME NEW n \in WebScans, ScanByHand(n)
        PROVE  HookBoard!Next
    <2>1. /\ webscan'[n].status = "queued" /\ newest' = n
          /\ \A m \in WebScans \ {n} : webscan'[m].status = webscan[m].status
          /\ ~InFlightWeb /\ Fresh(n)
      BY <1>4 DEF ScanByHand, DeliveryTypeOK
    <2> QED
      BY <2>1, BoardQueue
  <1>5. ASSUME NEW n \in WebScans, NEW to \in {"running", "succeeded", "failed"},
               WorkOnScan(n, to)
        PROVE  HookBoard!Next
    <2>1. /\ webscan'[n].status = to /\ UNCHANGED newest
          /\ \A m \in WebScans \ {n} : webscan'[m].status = webscan[m].status
      BY <1>5 DEF WorkOnScan, DeliveryTypeOK
    <2>2. UNCHANGED [p \in {"hooked"} |-> newest]
      BY <2>1
    <2>3. CASE to = "running"
      <3>1. webscan[n].status = "queued"
        BY <1>5, <2>3 DEF WorkOnScan
      <3>2. HookBoard!Free(n)
        BY <3>1 DEF HookBoard!Free, HookBoard!InFlight, DeliveryInv, OneInFlight,
                    InFlightScan
      <3>3. HookBoard!Move(n, {"queued", "failed", "cancelled"}, "running")
        BY <2>1, <2>3, <3>1, BoardMove
      <3> QED
        BY <2>2, <3>2, <3>3 DEF HookBoard!Run
    <2>4. CASE to = "succeeded"
      <3>1. webscan[n].status = "running"
        BY <1>5, <2>4 DEF WorkOnScan
      <3>2. HookBoard!Move(n, {"running", "cancelled"}, "succeeded")
        BY <2>1, <2>4, <3>1, BoardMove
      <3> QED
        BY <2>2, <3>2 DEF HookBoard!Succeed
    <2>5. CASE to = "failed"
      <3>1. webscan[n].status = "running"
        BY <1>5, <2>5 DEF WorkOnScan
      <3>2. HookBoard!Move(n, {"queued", "running", "cancelled"}, "failed")
        BY <2>1, <2>5, <3>1, BoardMove
      <3> QED
        BY <2>2, <3>2 DEF HookBoard!Fail
    <2> QED
      BY <2>3, <2>4, <2>5
  <1> QED
    BY <1>1, <1>2, <1>3, <1>4, <1>5
       DEF DeliveryNext, deliveryVars, Configure, Receive, RecordDelivery,
           LinkDelivery, AnswerDelivery, LoseHandler

\* The webhooks implement the scan board.
THEOREM HooksImplementBoard == DeliverySpec => HooksKeepBoard
  <1>1. DeliveryInit => HookBoard!Init
    BY DEF DeliveryInit, HookBoard!Init, NoWebScan
  <1> QED
    BY <1>1, BoardStep, DeliveryInvHolds, DeliveryTypeCorrect, PTL
       DEF DeliverySpec, HooksKeepBoard, HookBoard!Spec

-------------------------------------------------------------------------------
(***************************************************************************)
(* Theorems of SuperAdmins for any number of users and requests: its type  *)
(* invariant, and that an active super admin remains until a deactivation  *)
(* takes one away that it read as an ordinary user.                        *)
(*                                                                         *)
(* The argument: whoever holds the lock holds every active super admin, so *)
(* there is one holder at a time (OneHolder), and until then only a holder *)
(* takes an active super admin away (HolderIfMust).  What the trigger saw  *)
(* at the UPDATE therefore still stands at the COMMIT (LeavesSomebody).    *)
(* The count under the lock is not needed for this.                        *)
(***************************************************************************)

\* Every variable of SuperAdmins stays in its domain.
THEOREM AdminTypeCorrect == AdminSpec => []AdminTypeOK
  <1>1. AdminInit => AdminTypeOK
    BY DEF AdminInit, AdminTypeOK
  <1>2. AdminTypeOK /\ [AdminNext]_adminVars => AdminTypeOK'
    <2> SUFFICES ASSUME AdminTypeOK, [AdminNext]_adminVars
                 PROVE  AdminTypeOK'
      OBVIOUS
    <2> USE DEF AdminTypeOK, AdminRequests
    <2>1. ASSUME NEW c \in Requests, NEW op \in AdminOps, NEW u \in Users,
                 LoadUser(c, op, u)
          PROVE  AdminTypeOK'
      <3>1. super[u] \in BOOLEAN /\ active[u] \in BOOLEAN
        BY <2>1
      <3>2. [pc |-> "loaded", op |-> op, u |-> u, super |-> super[u],
             active |-> active[u], rows |-> {}] \in AdminRequests
        BY <2>1, <3>1
      <3>3. areq' \in [Requests -> {Idle} \union AdminRequests]
        <4> DEFINE r == [pc |-> "loaded", op |-> op, u |-> u,
                         super |-> super[u], active |-> active[u],
                         rows |-> {}]
        <4>1. r \in AdminRequests /\ areq' = [areq EXCEPT ![c] = r]
          BY <2>1, <3>2 DEF LoadUser
        <4> HIDE DEF r, AdminRequests
        <4> QED
          BY <4>1
      <3> QED
        BY <2>1, <3>3 DEF LoadUser
    <2>2. ASSUME NEW c \in Requests, LockSupers(c)
          PROVE  AdminTypeOK'
      <3>1. areq[c] \in AdminRequests /\ ActiveSupers \in SUBSET Users
        BY <2>2 DEF LockSupers, ActiveSupers, Idle
      <3>2. [areq[c] EXCEPT !.pc = "locked", !.rows = ActiveSupers]
              \in AdminRequests
        BY <3>1
      <3> QED
        BY <2>2, <3>2 DEF LockSupers
    <2>3. ASSUME NEW c \in Requests, FlushUser(c)
          PROVE  AdminTypeOK'
      BY <2>3 DEF FlushUser, Idle
    <2>4. ASSUME NEW c \in Requests, CommitUser(c)
          PROVE  AdminTypeOK'
      BY <2>4 DEF CommitUser, Idle
    <2>5. ASSUME NEW c \in Requests, EndAdminReq(c)
          PROVE  AdminTypeOK'
      BY <2>5 DEF EndAdminReq
    <2>6. CASE UNCHANGED adminVars
      BY <2>6 DEF adminVars
    <2> QED
      BY <2>1, <2>2, <2>3, <2>4, <2>5, <2>6 DEF AdminNext
  <1> QED
    BY <1>1, <1>2, PTL DEF AdminSpec

\* Request c holds the lock on the active super admins.
Holder(c) == areq[c] # Idle /\ areq[c].rows # {}

\* What is locked stays an active super admin, and is locked once.
OneHolder ==
  /\ \A c \in Requests : Holder(c) => areq[c].rows \subseteq ActiveSupers
  /\ \A c, d \in Requests : Holder(c) /\ Holder(d) => c = d

\* A request is about to take an active super admin away.
Takes(c) ==
  /\ areq[c] # Idle
  /\ areq[c].u \in ActiveSupers
  /\ TakesSuper(c) \/ TakesActive(c)

\* Who loaded a super admin to take him away is a holder past its lock.
HolderIfMust ==
  \A c \in Requests :
    areq[c] # Idle /\ MustLock(c) /\ areq[c].pc # "loaded" => Holder(c)

\* A holder that has sent its UPDATE leaves somebody behind.
LeavesSomebody ==
  \A c \in Requests :
    Holder(c) /\ Takes(c) /\ areq[c].pc = "flushed" => ActiveSupers \ {areq[c].u} # {}

\* Nobody has a user that another request holds.
HeldOnce ==
  \A c, d \in Requests, u \in Users : HoldsUser(c, u) /\ HoldsUser(d, u) => c = d

AdminCore ==
  /\ ActiveSupers # {}
  /\ OneHolder
  /\ HolderIfMust
  /\ LeavesSomebody
  /\ HeldOnce

AdminInv == AdminTypeOK /\ (overtaken \/ AdminCore)

\* AdminInv holds at the start.
LEMMA AdminInvInit == AdminInit => AdminInv
  BY DEF AdminInit, AdminInv, AdminCore, AdminTypeOK, OneHolder,
         HolderIfMust, LeavesSomebody, HeldOnce, Holder, HoldsUser, Takes

\* Every step that overtakes nobody keeps AdminCore.
LEMMA AdminCoreStep ==
  ASSUME AdminTypeOK, AdminCore, [AdminNext]_adminVars, ~overtaken'
  PROVE  AdminCore'
  <1> USE DEF AdminCore
  <1>1. ASSUME NEW c \in Requests, NEW op \in AdminOps, NEW u \in Users,
               LoadUser(c, op, u)
        PROVE  AdminCore'
    <2> USE <1>1 DEF LoadUser, AdminTypeOK, AdminRequests
    <2>1. ActiveSupers' = ActiveSupers /\ UNCHANGED super
      BY DEF ActiveSupers
    <2>2. \A d \in Requests : d # c => areq'[d] = areq[d]
      OBVIOUS
    <2>3. areq'[c].pc = "loaded" /\ areq'[c].rows = {} /\ areq'[c].u = u
          /\ areq'[c].super = super[u] /\ areq[c] = Idle
      OBVIOUS
    <2>4. (ActiveSupers # {})' /\ OneHolder'
      BY <2>1, <2>2, <2>3 DEF OneHolder, Holder
    <2>5. HolderIfMust'
      BY <2>1, <2>2, <2>3 DEF HolderIfMust, Holder, MustLock, TakesActive
    <2>6. \A d \in Requests, v \in Users : HoldsUser(d, v)' = HoldsUser(d, v)
      BY <2>2, <2>3 DEF HoldsUser
    <2>7. LeavesSomebody'
      BY <2>1, <2>2, <2>3 DEF LeavesSomebody, Holder, Takes, TakesSuper, TakesActive
    <2>8. HeldOnce'
      BY <2>6 DEF HeldOnce
    <2> QED
      BY <2>4, <2>5, <2>7, <2>8
  <1>2. ASSUME NEW c \in Requests, LockSupers(c)
        PROVE  AdminCore'
    <2> USE <1>2 DEF LockSupers, AdminTypeOK, AdminRequests
    <2>1. ActiveSupers' = ActiveSupers /\ UNCHANGED super
      BY DEF ActiveSupers
    <2>2. \A d \in Requests : d # c => areq'[d] = areq[d]
      OBVIOUS
    <2>3. areq[c] # Idle
      BY DEF Idle
    <2>4. areq'[c] # Idle /\ areq'[c].pc = "locked"
          /\ areq'[c].rows = ActiveSupers /\ areq'[c].u = areq[c].u
          /\ areq'[c].super = areq[c].super /\ areq'[c].op = areq[c].op
      <3> DEFINE r == areq[c]
      <3>1. r \in AdminRequests
        BY <2>3
      <3>2. areq'[c] = [r EXCEPT !.pc = "locked", !.rows = ActiveSupers]
        OBVIOUS
      <3> HIDE DEF r
      <3> QED
        BY <3>1, <3>2 DEF Idle, r
    <2>5. ASSUME NEW d \in Requests, d # c, Holder(d)
          PROVE  FALSE
      <3>1. PICK v \in areq[d].rows : v \in ActiveSupers
        BY <2>5 DEF OneHolder, Holder
      <3>2. HoldsUser(d, v)
        BY <2>5, <3>1 DEF HoldsUser, Holder
      <3>3. ~HoldsUser(d, v)
        BY <2>5, <3>1, d \in Requests \ {c} DEF FreeFor
      <3> QED
        BY <3>2, <3>3
    <2>6. (ActiveSupers # {})' /\ OneHolder'
      BY <2>1, <2>2, <2>4, <2>5 DEF OneHolder, Holder
    <2>7. HolderIfMust'
      BY <2>1, <2>2, <2>3, <2>4 DEF HolderIfMust, Holder, MustLock
    <2>8. \A d \in Requests \ {c}, v \in Users : HoldsUser(d, v)' = HoldsUser(d, v)
      BY <2>2 DEF HoldsUser
    <2>9. \A v \in Users : HoldsUser(c, v)' <=> v \in ActiveSupers
      BY <2>4 DEF HoldsUser
    <2>10. LeavesSomebody'
      BY <2>1, <2>2, <2>4 DEF LeavesSomebody, Holder, Takes, TakesSuper, TakesActive
    <2>11. \A d \in Requests \ {c}, v \in ActiveSupers : ~HoldsUser(d, v)
      BY DEF FreeFor
    <2>12. HeldOnce'
      BY <2>8, <2>9, <2>11 DEF HeldOnce
    <2> QED
      BY <2>6, <2>7, <2>10, <2>12
  <1>3. ASSUME NEW c \in Requests, FlushUser(c)
        PROVE  AdminCore'
    <2> USE <1>3 DEF FlushUser, AdminTypeOK, AdminRequests
    <2>1. ActiveSupers' = ActiveSupers /\ UNCHANGED super
      BY DEF ActiveSupers
    <2>2. \A d \in Requests : d # c => areq'[d] = areq[d]
      OBVIOUS
    <2>3. areq[c] # Idle
      BY DEF Idle
    <2>4. areq'[c] # Idle /\ areq'[c].pc = "flushed"
          /\ areq'[c].rows = areq[c].rows /\ areq'[c].u = areq[c].u
          /\ areq'[c].super = areq[c].super /\ areq'[c].op = areq[c].op
      BY <2>3 DEF Idle
    <2>5. (ActiveSupers # {})' /\ OneHolder'
      BY <2>1, <2>2, <2>3, <2>4 DEF OneHolder, Holder
    <2>6. HolderIfMust'
      BY <2>1, <2>2, <2>3, <2>4 DEF HolderIfMust, Holder, MustLock, TakesActive
    <2>7. \A d \in Requests \ {c}, v \in Users : HoldsUser(d, v)' = HoldsUser(d, v)
      BY <2>2 DEF HoldsUser
    <2>8. \A v \in Users : HoldsUser(c, v)' => HoldsUser(c, v) \/ v = areq[c].u
      BY <2>3, <2>4 DEF HoldsUser
    <2>9. Takes(c)' => ActiveSupers \ {areq[c].u} # {}
      BY <2>1, <2>4 DEF Takes, TakesSuper, TakesActive, TriggerAllows
    <2>10. \A d \in Requests, v \in Users :
             d # c /\ HoldsUser(c, v)' => ~HoldsUser(d, v)'
      BY <2>7, <2>8 DEF HeldOnce, FreeFor
    <2>11. LeavesSomebody'
      BY <2>1, <2>2, <2>4, <2>9
         DEF LeavesSomebody, Holder, Takes, TakesSuper, TakesActive
    <2>12. HeldOnce'
      BY <2>7, <2>10 DEF HeldOnce
    <2> QED
      BY <2>5, <2>6, <2>11, <2>12
  <1>4. ASSUME NEW c \in Requests, CommitUser(c)
        PROVE  AdminCore'
    <2> DEFINE u == areq[c].u
    <2> USE <1>4 DEF CommitUser, AdminTypeOK, AdminRequests
    <2>1. areq[c] # Idle /\ areq'[c] = Idle /\ u \in Users
      BY DEF Idle
    <2>2. \A d \in Requests : d # c => areq'[d] = areq[d]
      OBVIOUS
    <2>3. \A v \in Users \ {u} : /\ super'[v] = super[v]
                                 /\ active'[v] = active[v]
      OBVIOUS
    <2>4. HoldsUser(c, u)
      BY <2>1 DEF HoldsUser
    <2>5. \A d \in Requests \ {c} : Holder(d) => u \notin areq[d].rows
      BY <2>1, <2>4 DEF HeldOnce, HoldsUser, Holder
    <2>6. ActiveSupers \ {u} \subseteq ActiveSupers'
      BY <2>3 DEF ActiveSupers
    <2>7. ActiveSupers' \subseteq ActiveSupers \union {u}
      BY <2>3 DEF ActiveSupers
    <2>8. ~Takes(c) => ActiveSupers \subseteq ActiveSupers'
      <3> SUFFICES ASSUME ~Takes(c), u \in ActiveSupers
                   PROVE  u \in ActiveSupers'
        BY <2>6
      <3>1. ~TakesSuper(c) /\ ~TakesActive(c)
        BY <2>1 DEF Takes
      <3> QED
        BY <2>1, <3>1 DEF ActiveSupers
    <2>9. Takes(c) => Holder(c)
      BY <2>1 DEF Takes, HolderIfMust, MustLock, TakesSuper, TakesActive, Overtakes
    <2>10. (ActiveSupers # {})'
      BY <2>6, <2>8, <2>9 DEF LeavesSomebody
    <2>11. \A d \in Requests : Holder(d)' => d # c /\ Holder(d)
      BY <2>1, <2>2 DEF Holder
    <2>12. OneHolder'
      BY <2>2, <2>5, <2>6, <2>11 DEF OneHolder
    <2>13. HolderIfMust'
      BY <2>1, <2>2 DEF HolderIfMust, MustLock, Holder
    <2>14. \A d \in Requests, v \in Users :
             HoldsUser(d, v)' => d # c /\ HoldsUser(d, v)
      BY <2>1, <2>2 DEF HoldsUser
    <2>15. ASSUME NEW d \in Requests, Holder(d)', Takes(d)',
                  areq'[d].pc = "flushed"
           PROVE  ActiveSupers' \ {areq'[d].u} # {}
      <3>1. d # c /\ areq'[d] = areq[d] /\ areq[d] # Idle
        BY <2>1, <2>2, <2>15 DEF Takes
      <3>2. HoldsUser(d, areq[d].u) /\ areq[d].u \in Users
        BY <3>1, <2>15 DEF HoldsUser
      <3>3. areq[d].u # u
        BY <3>1, <3>2, <2>1, <2>4 DEF HeldOnce
      <3>4. Takes(d)
        BY <2>7, <2>15, <3>1, <3>3 DEF Takes, TakesSuper, TakesActive
      <3>5. Holder(d)
        BY <2>11, <2>15
      <3>6. ActiveSupers \ {areq[d].u} # {}
        BY <2>15, <3>1, <3>4, <3>5 DEF LeavesSomebody
      <3>7. ~Holder(c)
        BY <3>1, <3>5 DEF OneHolder
      <3>8. ~Takes(c)
        BY <3>7, <2>9
      <3> QED
        BY <2>8, <3>1, <3>6, <3>8
    <2>16. LeavesSomebody' /\ HeldOnce'
      BY <2>14, <2>15 DEF LeavesSomebody, HeldOnce
    <2> QED
      BY <2>10, <2>12, <2>13, <2>16
  <1>5. ASSUME NEW c \in Requests, EndAdminReq(c)
        PROVE  AdminCore'
    <2> USE <1>5 DEF EndAdminReq, AdminTypeOK
    <2>1. ActiveSupers' = ActiveSupers /\ UNCHANGED super
      BY DEF ActiveSupers
    <2>2. areq'[c] = Idle /\ \A d \in Requests : d # c => areq'[d] = areq[d]
      OBVIOUS
    <2>3. (ActiveSupers # {})' /\ OneHolder'
      BY <2>1, <2>2 DEF OneHolder, Holder
    <2>4. HolderIfMust'
      BY <2>1, <2>2 DEF HolderIfMust, Holder, MustLock, TakesActive
    <2>5. LeavesSomebody'
      BY <2>1, <2>2 DEF LeavesSomebody, Holder, Takes, TakesSuper, TakesActive
    <2>6. HeldOnce'
      BY <2>2 DEF HeldOnce, HoldsUser
    <2> QED
      BY <2>3, <2>4, <2>5, <2>6
  <1>6. CASE UNCHANGED adminVars
    BY <1>6 DEF adminVars, OneHolder, HolderIfMust,
                LeavesSomebody, HeldOnce, Holder, HoldsUser, Takes, TakesSuper, TakesActive,
                MustLock, ActiveSupers, AdminTypeOK
  <1> QED
    BY <1>1, <1>2, <1>3, <1>4, <1>5, <1>6 DEF AdminNext

\* Every step keeps AdminInv.
LEMMA AdminInvStep ==
  ASSUME AdminInv, AdminTypeOK', [AdminNext]_adminVars
  PROVE  AdminInv'
  <1>1. overtaken => overtaken'
    BY DEF AdminNext, adminVars, LoadUser, LockSupers, FlushUser, CommitUser,
           EndAdminReq
  <1> QED
    BY <1>1, AdminCoreStep DEF AdminInv

\* The portal always has an active super admin, unless a deactivation took one
\* away that it had read as an ordinary user.
THEOREM SuperAdminStays == AdminSpec => []SuperAdminRemains
  <1>1. AdminInv /\ AdminTypeOK' /\ [AdminNext]_adminVars => AdminInv'
    BY AdminInvStep
  <1>2. AdminInv => SuperAdminRemains
    BY DEF AdminInv, AdminCore, SuperAdminRemains
  <1> QED
    BY <1>1, <1>2, AdminInvInit, AdminTypeCorrect, PTL DEF AdminSpec

-------------------------------------------------------------------------------
(***************************************************************************)
(* Theorems of TeamMembers for any number of users, teams and requests:    *)
(* its type invariant, and that the guard on the last team_admin holds     *)
(* against requests that are under way at once.                            *)
(*                                                                         *)
(* The argument: the request that counted holds the rows of the admins it  *)
(* counted until it commits, so they keep the roles it saw (Counted).      *)
(* Either it counted another admin, who is one still, or it counted no     *)
(* other member.  That the rows of the other members are not locked does   *)
(* no harm.                                                                *)
(***************************************************************************)

AnyRole == Roles \union {"none"}

\* A set with somebody in it has somebody else in it, or nobody.
LEMMA SomebodyElse ==
  ASSUME NEW S, IsFiniteSet(S), NEW x \in S
  PROVE  /\ Cardinality(S) > 1 => \E y \in S : y # x
         /\ Cardinality(S) <= 1 => \A y \in S : y = x
  <1>1. ASSUME \A y \in S : y = x
        PROVE  Cardinality(S) = 1
    <2>1. S = {x}
      BY <1>1
    <2> QED
      BY <2>1, FS_Singleton
  <1>2. ASSUME NEW y \in S, y # x
        PROVE  Cardinality(S) > 1
    <2>1. IsFiniteSet(S \ {x}) /\ Cardinality(S \ {x}) = Cardinality(S) - 1
      BY FS_RemoveElement
    <2>2. Cardinality(S \ {x}) \in Nat
      BY <2>1, FS_CardinalityType
    <2>3. Cardinality(S \ {x}) # 0
      <3>1. S \ {x} # {}
        BY <1>2
      <3> QED
        BY <2>1, <3>1, FS_EmptySet
    <2>4. Cardinality(S) \in Nat
      BY FS_CardinalityType
    <2> QED
      BY <2>1, <2>2, <2>3, <2>4
  <1>3. Cardinality(S) \in Nat
    BY FS_CardinalityType
  <1> QED
    BY <1>1, <1>2, <1>3

\* Every variable of TeamMembers starts in its domain.
LEMMA MemberTypeInit == MemberInit => MemberTypeOK
  <1>1. Nobody \in [Users -> AnyRole]
    BY DEF Nobody, AnyRole
  <1> QED
    BY <1>1 DEF MemberInit, MemberTypeOK, AnyRole

\* Every step keeps every variable of TeamMembers in its domain.
LEMMA MemberTypeStep ==
  ASSUME MemberTypeOK, [MemberNext]_memberVars
  PROVE  MemberTypeOK'
  <1> USE DEF MemberTypeOK
  <1>0. Nobody \in [Users -> AnyRole]
    BY DEF Nobody, AnyRole
  <1>1. ASSUME NEW t \in Teams, CreateTeam(t)
        PROVE  MemberTypeOK'
    BY <1>1 DEF CreateTeam
  <1>2. ASSUME NEW c \in Requests, NEW t \in Teams, NEW op \in MemberOps,
               NEW u \in Users, NEW to \in AnyRole, ReadMember(c, op, t, u, to)
        PROVE  MemberTypeOK'
    <2> DEFINE r == [pc |-> "read", op |-> op, t |-> t, u |-> u, to |-> to,
                     seen |-> role[t][u], rows |-> {}, counted |-> Nobody]
    <2>1. role[t][u] \in AnyRole
      BY DEF AnyRole
    <2>2. r \in MemberRequests
      BY <1>0, <2>1 DEF MemberRequests, AnyRole
    <2>3. mreq' = [mreq EXCEPT ![c] = r] /\ UNCHANGED <<team, role>>
      BY <1>2 DEF ReadMember
    <2> HIDE DEF r
    <2> QED
      BY <2>2, <2>3
  <1>3. ASSUME NEW c \in Requests, LockAdmins(c)
        PROVE  MemberTypeOK'
    <2>1. mreq[c] \in MemberRequests
      BY <1>3 DEF LockAdmins, Idle
    <2>2. mreq[c].t \in Teams
      BY <2>1 DEF MemberRequests
    <2>3. TeamAdmins(mreq[c].t) \in SUBSET Users /\ role[mreq[c].t] \in [Users -> AnyRole]
      BY <2>2 DEF TeamAdmins, AnyRole
    <2> DEFINE r == [mreq[c] EXCEPT !.pc = "locked",
                                    !.rows = TeamAdmins(mreq[c].t),
                                    !.counted = role[mreq[c].t]]
    <2>4. r \in MemberRequests
      BY <2>1, <2>3 DEF MemberRequests, AnyRole
    <2>5. mreq' = [mreq EXCEPT ![c] = r] /\ UNCHANGED <<team, role>>
      BY <1>3 DEF LockAdmins
    <2> HIDE DEF r
    <2> QED
      BY <2>4, <2>5
  <1>4. ASSUME NEW c \in Requests, CommitMember(c)
        PROVE  MemberTypeOK'
    <2>1. mreq[c] \in MemberRequests
      BY <1>4 DEF CommitMember, Idle
    <2>2. mreq[c].t \in Teams /\ mreq[c].u \in Users /\ mreq[c].to \in AnyRole
      BY <2>1 DEF MemberRequests, AnyRole
    <2>3. role' \in [Teams -> [Users -> AnyRole]]
      BY <1>4, <2>2 DEF CommitMember, AnyRole
    <2> QED
      BY <1>4, <2>3 DEF CommitMember, AnyRole
  <1>5. ASSUME NEW c \in Requests, NEW t \in Teams, LockTeam(c, t)
        PROVE  MemberTypeOK'
    BY <1>5 DEF LockTeam
  <1>6. ASSUME NEW c \in Requests, DeleteTeam(c)
        PROVE  MemberTypeOK'
    <2>1. role' \in [Teams -> [Users -> AnyRole]]
      BY <1>0, <1>6 DEF DeleteTeam, AnyRole
    <2> QED
      BY <1>6, <2>1 DEF DeleteTeam, AnyRole
  <1>7. ASSUME NEW c \in Requests, EndMemberReq(c)
        PROVE  MemberTypeOK'
    BY <1>7 DEF EndMemberReq
  <1>8. CASE UNCHANGED memberVars
    BY <1>8 DEF memberVars
  <1> QED
    BY <1>1, <1>2, <1>3, <1>4, <1>5, <1>6, <1>7, <1>8 DEF MemberNext, AnyRole

\* Every variable of TeamMembers stays in its domain.
THEOREM MemberTypeCorrect == MemberSpec => []MemberTypeOK
  BY MemberTypeInit, MemberTypeStep, PTL DEF MemberSpec

-------------------------------------------------------------------------------

\* A request that counted holds the rows of the admins it counted, who are
\* admins still; its user is one of them; and he is not the last one, or is
\* the only member.
CountedBy(r, roles) ==
  /\ r.rows = {v \in Users : r.counted[v] = "team_admin"}
  /\ \A v \in r.rows : roles[r.t][v] = "team_admin"
  /\ r.counted[r.u] = "team_admin" =>
       \/ \E v \in r.rows : v # r.u
       \/ \A v \in Users \ {r.u} : r.counted[v] = "none"

Counted == \A c \in Requests : mreq[c].pc = "locked" => CountedBy(mreq[c], role)

\* The step that locks establishes what Counted says of its request.
LEMMA LockCounts ==
  ASSUME MemberTypeOK, NEW c \in Requests, LockAdmins(c)
  PROVE  CountedBy(mreq'[c], role)
  <1> DEFINE t == mreq[c].t
  <1> USE DEF MemberTypeOK
  <1>1. mreq[c] \in MemberRequests
    BY DEF LockAdmins, Idle
  <1>2. t \in Teams /\ mreq[c].u \in Users
    BY <1>1 DEF MemberRequests
  <1>3. /\ mreq'[c].rows = TeamAdmins(t)
        /\ mreq'[c].counted = role[t]
        /\ mreq'[c].t = t
        /\ mreq'[c].u = mreq[c].u
    BY <1>1 DEF LockAdmins, MemberRequests
  <1>4. ASSUME role[t][mreq[c].u] = "team_admin"
        PROVE  \/ \E v \in TeamAdmins(t) : v # mreq[c].u
               \/ \A v \in Users \ {mreq[c].u} : role[t][v] = "none"
    <2>1. IsFiniteSet(TeamAdmins(t)) /\ IsFiniteSet(Members(t))
      BY UsersAssumption, FS_Subset DEF TeamAdmins, Members
    <2>2. mreq[c].u \in TeamAdmins(t) /\ mreq[c].u \in Members(t)
      BY <1>2, <1>4 DEF TeamAdmins, Members
    <2>3. NotTheLastAdmin(t)
      BY DEF LockAdmins
    <2>4. CASE Cardinality(TeamAdmins(t)) > 1
      BY <2>1, <2>2, <2>4, SomebodyElse
    <2>5. CASE Cardinality(Members(t)) <= 1
      <3>1. \A v \in Members(t) : v = mreq[c].u
        BY <2>1, <2>2, <2>5, SomebodyElse
      <3> QED
        BY <3>1 DEF Members
    <2> QED
      BY <2>3, <2>4, <2>5 DEF NotTheLastAdmin
  <1> QED
    BY <1>2, <1>3, <1>4 DEF CountedBy, TeamAdmins

\* A step of another request, or of nobody's, that writes no row that r holds
\* takes no admin away from those it counted.
LEMMA HeldStands ==
  ASSUME NEW r, NEW roles, NEW later, CountedBy(r, roles),
         \A v \in r.rows : later[r.t][v] = roles[r.t][v]
  PROVE  CountedBy(r, later)
  BY DEF CountedBy

\* Counted holds after every step.
LEMMA CountedStep ==
  ASSUME MemberTypeOK, Counted, [MemberNext]_memberVars
  PROVE  Counted'
  <1> USE DEF MemberTypeOK
  <1>0. SUFFICES ASSUME NEW d \in Requests, mreq'[d].pc = "locked"
                 PROVE  CountedBy(mreq'[d], role')
    BY DEF Counted
  <1>1. CASE LockAdmins(d)
    BY <1>1, LockCounts DEF LockAdmins
  <1>2. ASSUME ~LockAdmins(d)
        PROVE  mreq'[d] = mreq[d]
    <2>1. ASSUME NEW c \in Requests, NEW t \in Teams, NEW op \in MemberOps,
                 NEW u \in Users, NEW to \in AnyRole, ReadMember(c, op, t, u, to)
          PROVE  mreq'[d] = mreq[d]
      BY <1>0, <2>1 DEF ReadMember
    <2>2. ASSUME NEW c \in Requests, LockAdmins(c)
          PROVE  mreq'[d] = mreq[d]
      BY <1>2, <2>2 DEF LockAdmins
    <2>3. ASSUME NEW c \in Requests, NEW t \in Teams, LockTeam(c, t)
          PROVE  mreq'[d] = mreq[d]
      BY <1>0, <2>3 DEF LockTeam
    <2>4. ASSUME NEW c \in Requests, CommitMember(c) \/ DeleteTeam(c) \/ EndMemberReq(c)
          PROVE  mreq'[d] = mreq[d]
      BY <1>0, <2>4 DEF CommitMember, DeleteTeam, EndMemberReq, Idle
    <2> QED
      BY <2>1, <2>2, <2>3, <2>4 DEF MemberNext, AnyRole, CreateTeam, memberVars
  <1>3. CASE ~LockAdmins(d)
    <2>1. mreq'[d] = mreq[d] /\ CountedBy(mreq[d], role)
      BY <1>0, <1>2, <1>3 DEF Counted
    <2>2. mreq[d] \in MemberRequests
      BY <1>0, <2>1 DEF Idle
    <2>3. mreq[d].t \in Teams /\ mreq[d].rows \subseteq Users
      BY <2>2 DEF MemberRequests
    <2>4. ASSUME NEW c \in Requests, CommitMember(c), NEW v \in mreq[d].rows
          PROVE  role'[mreq[d].t][v] = role[mreq[d].t][v]
      <3>1. c # d
        BY <1>0, <2>4 DEF CommitMember, Idle
      <3>2. ~(mreq[d].t = mreq[c].t /\ mreq[c].u \in mreq[d].rows)
        BY <1>0, <2>1, <2>4, <3>1 DEF CommitMember, RowHeld
      <3>3. mreq[c] \in MemberRequests
        BY <2>4 DEF CommitMember, Idle
      <3>4. mreq[c].t \in Teams /\ mreq[c].u \in Users
        BY <3>3 DEF MemberRequests
      <3> QED
        BY <2>3, <2>4, <3>2, <3>4 DEF CommitMember
    <2>5. ASSUME NEW c \in Requests, DeleteTeam(c), NEW v \in mreq[d].rows
          PROVE  role'[mreq[d].t][v] = role[mreq[d].t][v]
      <3>1. c # d
        BY <1>0, <2>5 DEF DeleteTeam, Idle
      <3>2. role[mreq[d].t][v] = "team_admin"
        BY <2>1, <2>5 DEF CountedBy
      <3>3. ASSUME mreq[d].t = mreq[c].t
            PROVE  FALSE
        BY <1>0, <2>1, <2>3, <2>5, <3>1, <3>2, <3>3 DEF DeleteTeam, RowHeld, Members
      <3> QED
        BY <2>3, <2>5, <3>3 DEF DeleteTeam
    <2>6. \A v \in mreq[d].rows : role'[mreq[d].t][v] = role[mreq[d].t][v]
      BY <2>4, <2>5 DEF MemberNext, CreateTeam, ReadMember, LockAdmins, LockTeam,
                        EndMemberReq, memberVars
    <2> QED
      BY <2>1, <2>6, HeldStands
  <1> QED
    BY <1>1, <1>3

\* Of requests that remove or demote admins of a team at once, none takes the
\* last one from the other members it counted.
THEOREM LastAdminStaysSafe == MemberSpec => LastAdminStays
  <1>1. MemberInit => Counted
    BY DEF MemberInit, Counted, Idle
  <1>2. ASSUME MemberTypeOK, Counted, [MemberNext]_memberVars,
               NEW c \in Requests, NEW t \in Teams,
               mreq[c].pc = "locked", mreq[c].t = t,
               mreq[c].counted[mreq[c].u] = "team_admin",
               mreq'[c] = Idle, TeamAdmins(t) # {}, TeamAdmins(t)' = {},
               NEW v \in Users \ {mreq[c].u}, mreq[c].counted[v] # "none"
        PROVE  role'[t][v] = "none"
    <2> USE DEF MemberTypeOK
    <2>1. mreq[c] \in MemberRequests /\ CountedBy(mreq[c], role)
      BY <1>2 DEF Counted, Idle
    <2>2. PICK w \in mreq[c].rows : w # mreq[c].u
      BY <1>2, <2>1 DEF CountedBy
    <2>3. role[t][w] = "team_admin" /\ w \in Users
      BY <1>2, <2>1, <2>2 DEF CountedBy
    <2>4. role' = role \/ CommitMember(c)
      <3>1. ASSUME NEW d \in Requests, CommitMember(d) \/ DeleteTeam(d)
            PROVE  d = c
        BY <1>2, <2>1, <3>1 DEF CommitMember, DeleteTeam, Idle
      <3>2. ~DeleteTeam(c)
        BY <1>2 DEF DeleteTeam
      <3> QED
        BY <1>2, <3>1, <3>2 DEF MemberNext, CreateTeam, ReadMember, LockAdmins,
                                LockTeam, EndMemberReq, memberVars
    <2>5. mreq[c].u \in Users
      BY <2>1 DEF MemberRequests
    <2>6. role'[t][w] = "team_admin"
      BY <1>2, <2>2, <2>3, <2>4, <2>5 DEF CommitMember
    <2> QED
      BY <1>2, <2>3, <2>6 DEF TeamAdmins
  <1>3. MemberTypeOK /\ Counted /\ [MemberNext]_memberVars
          => [\A c \in Requests, t \in Teams :
                /\ mreq[c].pc = "locked"
                /\ mreq[c].t = t
                /\ mreq[c].counted[mreq[c].u] = "team_admin"
                /\ mreq'[c] = Idle
                /\ TeamAdmins(t) # {}
                /\ TeamAdmins(t)' = {}
                => \A v \in Users \ {mreq[c].u} :
                     mreq[c].counted[v] # "none" => role'[t][v] = "none"]_memberVars
    BY <1>2
  <1> QED
    BY <1>1, <1>3, CountedStep, MemberTypeCorrect, PTL DEF MemberSpec, LastAdminStays

-------------------------------------------------------------------------------
(***************************************************************************)
(* Theorems of Triage and PolicyGate, for any number of scans, CVEs and    *)
(* requests.                                                               *)
(*                                                                         *)
(* MovesAreSeen: a request checks the row after it has locked it, and what *)
(* it checked still stands when it commits (LockedStands), for a row is    *)
(* locked once (LockedOnce) and only the scan itself, which has ended by   *)
(* then, writes without the lock (Unpublished).                            *)
(*                                                                         *)
(* VerdictHeld: an evaluation has noted every verdict its scan had since   *)
(* it began (Watched).  Of these, the one of the moment of its second      *)
(* query is what the third query makes of the count, whichever way it      *)
(* comes out (CountedRight).                                               *)
(***************************************************************************)

\* The findings.

Viewing == [pc : {"viewing"}, s : Scans, v : Vulns, run : 0..2, seen : Rows]
Patching == [pc : {"begun", "locked"}, s : Scans, v : Vulns, run : 0..2, seen : Rows,
             to : FindingStatuses, match : BOOLEAN, at : Nat, found : Rows]

\* What the program counter of a request says of its other fields.
LEMMA PatchKinds ==
  ASSUME TriageTypeOK, NEW c \in Requests
  PROVE  /\ treq[c] \in PatchRequests
         /\ treq[c].pc = "viewing" => treq[c] \in Viewing
         /\ treq[c].pc \in {"begun", "locked"} => treq[c] \in Patching
  BY DEF TriageTypeOK, PatchRequests, Viewing, Patching, Idle

LEMMA PatchUpdate ==
  ASSUME TriageTypeOK, NEW c \in Requests, NEW r \in PatchRequests
  PROVE  [treq EXCEPT ![c] = r] \in [Requests -> PatchRequests]
  BY DEF TriageTypeOK

LEMMA RowsOfFindings ==
  /\ NoFinding \in Rows /\ NewFinding \in Rows
  /\ NoFindings \in [Vulns -> Rows]
  /\ \A reported : FindingsFor(reported) \in [Vulns -> Rows]
  <1>1. NoFinding \in Rows /\ NewFinding \in Rows
    BY DEF NoFinding, NewFinding, Rows, FindingStatuses
  <1> QED
    BY <1>1 DEF NoFindings, FindingsFor

\* Every step of the analysts, the scans and the resync keeps the domains.
LEMMA TriageTypeStep ==
  ASSUME TriageTypeOK, [TriageNext]_triageVars
  PROVE  TriageTypeOK'
  <1> USE DEF TriageTypeOK
  <1>1. ASSUME NEW v \in Vulns, NEW severity \in Severities, Resync(v, severity)
        PROVE  TriageTypeOK'
    BY <1>1 DEF Resync
  <1>2. ASSUME NEW s \in Scans, StartScan(s)
        PROVE  TriageTypeOK'
    <2>1. scan[s].run + 1 \in 0..2
      BY <1>2 DEF StartScan
    <2> QED
      BY <1>2, <2>1, RowsOfFindings DEF StartScan
  <1>3. ASSUME NEW s \in Scans, FailScan(s)
        PROVE  TriageTypeOK'
    BY <1>3 DEF FailScan
  <1>4. ASSUME NEW s \in Scans, NEW reported \in SUBSET Vulns, NEW blocked \in BOOLEAN,
               PublishSource(s, reported, blocked)
        PROVE  TriageTypeOK'
    BY <1>4, RowsOfFindings DEF PublishSource
  <1>5. ASSUME NEW s \in Scans, NEW v \in Vulns, NEW severity \in Severities,
               PublishImage(s, v, severity)
        PROVE  TriageTypeOK'
    BY <1>5, RowsOfFindings DEF PublishImage
  <1>6. ASSUME NEW c \in Requests, NEW s \in Scans, NEW v \in Vulns, OpenFinding(c, s, v)
        PROVE  TriageTypeOK'
    <2> DEFINE r == [pc |-> "viewing", s |-> s, v |-> v, run |-> scan[s].run,
                     seen |-> finding[s][v]]
    <2>1. r \in PatchRequests
      BY DEF PatchRequests
    <2> QED
      BY <1>6, <2>1, PatchUpdate DEF OpenFinding
  <1>7. ASSUME NEW c \in Requests, NEW to \in FindingStatuses, NEW match \in BOOLEAN,
               SendPatch(c, to, match)
        PROVE  TriageTypeOK'
    <2> DEFINE r == [pc |-> "begun", s |-> treq[c].s, v |-> treq[c].v,
                     run |-> treq[c].run, seen |-> treq[c].seen, to |-> to,
                     match |-> match, at |-> clock, found |-> NoFinding]
    <2>1. r \in Patching
      BY <1>7, PatchKinds, RowsOfFindings DEF SendPatch, Viewing, Patching
    <2>2. r \in PatchRequests
      BY <2>1 DEF PatchRequests, Patching
    <2> QED
      BY <1>7, <2>2, PatchUpdate, TriageAssumption DEF SendPatch
  <1>8. ASSUME NEW c \in Requests, NEW admin \in BOOLEAN, LockFinding(c, admin)
        PROVE  TriageTypeOK'
    <2> DEFINE r == [treq[c] EXCEPT !.pc = "locked",
                       !.found = finding[treq[c].s][treq[c].v]]
    <2>0. treq[c] \in Patching
      BY <1>8, PatchKinds DEF LockFinding
    <2>3. finding[treq[c].s][treq[c].v] \in Rows
      BY <2>0 DEF Patching
    <2>1. r \in Patching
      BY <2>0, <2>3 DEF Patching
    <2>2. r \in PatchRequests
      BY <2>1 DEF PatchRequests, Patching
    <2> QED
      BY <1>8, <2>2, PatchUpdate DEF LockFinding
  <1>9. ASSUME NEW c \in Requests, CommitStatus(c)
        PROVE  TriageTypeOK'
    <2> DEFINE k == treq[c]
               row == finding[k.s][k.v]
               new == [status |-> k.to, log |-> row.log \union {[at |-> k.at, to |-> k.to]}]
    <2>1. k \in Patching
      BY <1>9, PatchKinds DEF CommitStatus
    <2>2. new \in Rows
      BY <2>1 DEF Patching, Rows
    <2>3. finding' = [finding EXCEPT ![k.s][k.v] = new] /\ treq' = [treq EXCEPT ![c] = Idle]
      BY <1>9 DEF CommitStatus
    <2>4. Idle \in PatchRequests
      BY DEF PatchRequests
    <2>5. finding' \in [Scans -> [Vulns -> Rows]]
      <3> HIDE DEF new, k
      <3> QED
        BY <2>1, <2>2, <2>3 DEF Patching
    <2> QED
      BY <1>9, <2>3, <2>4, <2>5 DEF CommitStatus
  <1>10. ASSUME NEW c \in Requests, EndPatch(c)
         PROVE  TriageTypeOK'
    BY <1>10 DEF EndPatch, PatchRequests
  <1>11. CASE UNCHANGED triageVars
    BY <1>11 DEF triageVars
  <1> QED
    BY <1>1, <1>2, <1>3, <1>4, <1>5, <1>6, <1>7, <1>8, <1>9, <1>10, <1>11
       DEF TriageNext, Publishes, Analyses

\* The row of the finding that request c is about.
RowOf(c) == finding[treq[c].s][treq[c].v]

\* Only a scan that has succeeded has findings.
Unpublished ==
  \A s \in Scans : scan[s].status # "succeeded" => finding[s] = NoFindings

\* What was checked when the row was locked still holds.
LockedStands ==
  \A c \in Requests : treq[c].pc = "locked" =>
    /\ RowOf(c) # NoFinding
    /\ treq[c].match => treq[c].seen = RowOf(c)
    /\ treq[c].to \in Transitions(RowOf(c).status)

\* A row is locked once.
LockedOnce ==
  \A c, d \in Requests :
    /\ treq[c].pc = "locked" /\ treq[d].pc = "locked"
    /\ treq[c].s = treq[d].s /\ treq[c].v = treq[d].v
    => c = d

FindingsInv == TriageTypeOK /\ Unpublished /\ LockedStands /\ LockedOnce

LEMMA FindingsInit == TriageInit => FindingsInv
  <1> SUFFICES ASSUME TriageInit PROVE FindingsInv
    OBVIOUS
  <1>1. TriageTypeOK
    BY RowsOfFindings, TriageAssumption DEF TriageInit, TriageTypeOK, PatchRequests
  <1>2. Unpublished /\ LockedStands /\ LockedOnce
    BY DEF TriageInit, Unpublished, LockedStands, LockedOnce, Idle
  <1> QED
    BY <1>1, <1>2 DEF FindingsInv

\* While a row is locked, its scan has succeeded.
LEMMA LockedSucceeded ==
  ASSUME FindingsInv, NEW c \in Requests, treq[c].pc = "locked"
  PROVE  /\ treq[c] \in Patching
         /\ scan[treq[c].s].status = "succeeded"
  <1>1. treq[c] \in Patching
    BY PatchKinds DEF FindingsInv
  <1>2. treq[c].s \in Scans /\ treq[c].v \in Vulns
    BY <1>1 DEF Patching
  <1> QED
    BY <1>1, <1>2 DEF FindingsInv, Unpublished, LockedStands, RowOf, NoFindings

\* A step that changes neither requests nor the rows that are locked.
LEMMA RequestsUntouched ==
  ASSUME FindingsInv, UNCHANGED treq,
         \A c \in Requests : treq[c].pc = "locked" => RowOf(c)' = RowOf(c)
  PROVE  LockedStands' /\ LockedOnce'
  BY DEF FindingsInv, LockedStands, LockedOnce, RowOf

\* A step after which request c holds no lock, and that changes no row that another
\* request holds.
LEMMA OneRequestFree ==
  ASSUME FindingsInv, NEW c \in Requests, NEW r, r.pc # "locked",
         treq' = [treq EXCEPT ![c] = r],
         \A d \in Requests \ {c} : treq[d].pc = "locked" => RowOf(d)' = RowOf(d)
  PROVE  LockedStands' /\ LockedOnce'
  <1>1. treq'[c].pc # "locked" /\ \A d \in Requests \ {c} : treq'[d] = treq[d]
    BY DEF FindingsInv, TriageTypeOK
  <1>2. LockedStands'
    BY <1>1 DEF FindingsInv, LockedStands, RowOf
  <1>3. LockedOnce'
    BY <1>1 DEF FindingsInv, LockedOnce
  <1> QED
    BY <1>2, <1>3

LEMMA FindingsStep ==
  ASSUME FindingsInv, [TriageNext]_triageVars
  PROVE  FindingsInv'
  <1>0. TriageTypeOK /\ TriageTypeOK'
    BY TriageTypeStep DEF FindingsInv
  <1> SUFFICES Unpublished' /\ LockedStands' /\ LockedOnce'
    BY <1>0 DEF FindingsInv
  <1>1. ASSUME NEW v \in Vulns, NEW severity \in Severities, Resync(v, severity)
        PROVE  Unpublished' /\ LockedStands' /\ LockedOnce'
    BY <1>1, RequestsUntouched DEF Resync, RowOf, FindingsInv, Unpublished
  <1>2. ASSUME NEW s \in Scans, StartScan(s)
        PROVE  Unpublished' /\ LockedStands' /\ LockedOnce'
    <2>1. \A r \in Scans : r # s => scan'[r] = scan[r] /\ finding'[r] = finding[r]
      BY <1>0, <1>2 DEF StartScan, TriageTypeOK
    <2>2. finding'[s] = NoFindings
      BY <1>0, <1>2 DEF StartScan, TriageTypeOK
    <2>3. Unpublished'
      BY <2>1, <2>2 DEF FindingsInv, Unpublished
    <2>4. ASSUME NEW c \in Requests, treq[c].pc = "locked"
          PROVE  RowOf(c)' = RowOf(c)
      <3>1. treq[c].s \in Scans /\ treq[c].v \in Vulns
        BY <2>4, LockedSucceeded DEF Patching
      <3>2. treq[c].s # s
        BY <1>2, <2>4, <3>1 DEF StartScan, Locked
      <3> QED
        BY <1>2, <2>1, <3>1, <3>2 DEF StartScan, RowOf
    <2> QED
      BY <1>2, <2>3, <2>4, RequestsUntouched DEF StartScan
  <1>3. ASSUME NEW s \in Scans, scan[s].status = "running", UNCHANGED treq,
               \A r \in Scans : r # s => scan'[r] = scan[r] /\ finding'[r] = finding[r],
               scan'[s].status = "succeeded" \/ finding'[s] = finding[s]
        PROVE  Unpublished' /\ LockedStands' /\ LockedOnce'
    <2>1. Unpublished'
      BY <1>3 DEF FindingsInv, Unpublished
    <2>2. ASSUME NEW c \in Requests, treq[c].pc = "locked"
          PROVE  RowOf(c)' = RowOf(c)
      BY <1>3, <2>2, LockedSucceeded DEF RowOf, Patching
    <2> QED
      BY <1>3, <2>1, <2>2, RequestsUntouched
  <1>4. ASSUME NEW s \in Scans, FailScan(s)
        PROVE  Unpublished' /\ LockedStands' /\ LockedOnce'
    BY <1>0, <1>3, <1>4 DEF FailScan, TriageTypeOK
  <1>5. ASSUME NEW s \in Scans, NEW reported \in SUBSET Vulns, NEW blocked \in BOOLEAN,
               PublishSource(s, reported, blocked)
        PROVE  Unpublished' /\ LockedStands' /\ LockedOnce'
    BY <1>0, <1>3, <1>5 DEF PublishSource, TriageTypeOK
  <1>6. ASSUME NEW s \in Scans, NEW v \in Vulns, NEW severity \in Severities,
               PublishImage(s, v, severity)
        PROVE  Unpublished' /\ LockedStands' /\ LockedOnce'
    BY <1>0, <1>3, <1>6 DEF PublishImage, TriageTypeOK
  <1>7. ASSUME UNCHANGED <<scan, finding>>, NEW c \in Requests, NEW r, r.pc # "locked",
               treq' = [treq EXCEPT ![c] = r]
        PROVE  Unpublished' /\ LockedStands' /\ LockedOnce'
    <2>1. \A d \in Requests \ {c} : treq[d].pc = "locked" => RowOf(d)' = RowOf(d)
      BY <1>0, <1>7 DEF RowOf, TriageTypeOK
    <2>2. Unpublished'
      BY <1>7 DEF FindingsInv, Unpublished
    <2> QED
      BY <1>7, <2>1, <2>2, OneRequestFree
  <1>8. ASSUME NEW c \in Requests, NEW s \in Scans, NEW v \in Vulns, OpenFinding(c, s, v)
        PROVE  Unpublished' /\ LockedStands' /\ LockedOnce'
    BY <1>7, <1>8 DEF OpenFinding
  <1>9. ASSUME NEW c \in Requests, NEW to \in FindingStatuses, NEW match \in BOOLEAN,
               SendPatch(c, to, match)
        PROVE  Unpublished' /\ LockedStands' /\ LockedOnce'
    BY <1>7, <1>9 DEF SendPatch
  <1>10. ASSUME NEW c \in Requests, NEW admin \in BOOLEAN, LockFinding(c, admin)
         PROVE  Unpublished' /\ LockedStands' /\ LockedOnce'
    <2>1. treq[c] \in Patching
      BY <1>0, <1>10, PatchKinds DEF LockFinding
    <2>2. /\ treq'[c].pc = "locked" /\ treq'[c].s = treq[c].s /\ treq'[c].v = treq[c].v
          /\ treq'[c].match = treq[c].match /\ treq'[c].seen = treq[c].seen
          /\ treq'[c].to = treq[c].to
      BY <1>0, <1>10, <2>1 DEF LockFinding, TriageTypeOK, Patching
    <2>3. \A d \in Requests \ {c} : treq'[d] = treq[d]
      BY <1>0, <1>10 DEF LockFinding, TriageTypeOK
    <2>4. LockedOnce'
      BY <1>10, <2>2, <2>3 DEF LockFinding, Locked, LockedOnce, FindingsInv
    <2>5. \A d \in Requests : RowOf(d)' = RowOf(d)
      BY <1>10, <2>2, <2>3 DEF LockFinding, RowOf
    <2>6. /\ RowOf(c) # NoFinding
          /\ treq[c].match => treq[c].seen = RowOf(c)
          /\ treq[c].to \in Transitions(RowOf(c).status)
      BY <1>10 DEF LockFinding, Admits, MayMove, RowOf
    <2>7. LockedStands'
      BY <2>2, <2>3, <2>5, <2>6 DEF LockedStands, FindingsInv
    <2>8. Unpublished'
      BY <1>10 DEF LockFinding, FindingsInv, Unpublished
    <2> QED
      BY <2>4, <2>7, <2>8
  <1>11. ASSUME NEW c \in Requests, CommitStatus(c)
         PROVE  Unpublished' /\ LockedStands' /\ LockedOnce'
    <2> DEFINE k == treq[c]
    <2>1. k \in Patching /\ scan[k.s].status = "succeeded" /\ k.pc = "locked"
      BY <1>11, LockedSucceeded DEF CommitStatus
    <2>2. k.s \in Scans /\ k.v \in Vulns
      BY <2>1 DEF Patching
    <2>3. /\ \A s \in Scans : s # k.s => finding'[s] = finding[s]
          /\ \A v \in Vulns : v # k.v => finding'[k.s][v] = finding[k.s][v]
      BY <1>0, <1>11, <2>2 DEF CommitStatus, TriageTypeOK
    <2>4. Unpublished'
      BY <1>11, <2>1, <2>3 DEF CommitStatus, FindingsInv, Unpublished
    <2>5. ASSUME NEW d \in Requests \ {c}, treq[d].pc = "locked"
          PROVE  RowOf(d)' = RowOf(d)
      <3>1. treq[d].s \in Scans /\ treq[d].v \in Vulns /\ treq'[d] = treq[d]
        BY <1>0, <1>11, <2>5, LockedSucceeded DEF Patching, CommitStatus, TriageTypeOK
      <3>2. treq[d].s # k.s \/ treq[d].v # k.v
        BY <2>1, <2>5 DEF FindingsInv, LockedOnce
      <3> QED
        BY <2>3, <3>1, <3>2 DEF RowOf
    <2>6. treq' = [treq EXCEPT ![c] = Idle] /\ Idle.pc # "locked"
      BY <1>11 DEF CommitStatus, Idle
    <2> QED
      BY <2>4, <2>5, <2>6, OneRequestFree
  <1>12. ASSUME NEW c \in Requests, EndPatch(c)
         PROVE  Unpublished' /\ LockedStands' /\ LockedOnce'
    <2>1. Idle.pc # "locked"
      BY DEF Idle
    <2> QED
      BY <1>7, <1>12, <2>1 DEF EndPatch
  <1>13. CASE UNCHANGED triageVars
    BY <1>13, RequestsUntouched DEF triageVars, RowOf, FindingsInv, Unpublished
  <1> QED
    BY <1>1, <1>2, <1>4, <1>5, <1>6, <1>8, <1>9, <1>10, <1>11, <1>12, <1>13
       DEF TriageNext, Publishes, Analyses

\* What one step may do to a finding.
MoveIsSeen(s, v) ==
  LET old == finding[s][v]
      new == finding'[s][v] IN
  old # NoFinding /\ new # old /\ scan'[s] = scan[s] =>
    /\ new.status \in Transitions(old.status)
    /\ \E c \in Requests :
         treq[c].pc = "locked" /\ treq'[c] = Idle
           /\ (treq[c].match => treq[c].seen = old)

LEMMA MovesStep ==
  ASSUME FindingsInv, [TriageNext]_triageVars
  PROVE  \A s \in Scans, v \in Vulns : MoveIsSeen(s, v)
  <1> SUFFICES ASSUME NEW s \in Scans, NEW v \in Vulns,
                      finding[s][v] # NoFinding, finding'[s][v] # finding[s][v],
                      scan'[s] = scan[s]
               PROVE  /\ finding'[s][v].status \in Transitions(finding[s][v].status)
                      /\ \E c \in Requests :
                           treq[c].pc = "locked" /\ treq'[c] = Idle
                             /\ (treq[c].match => treq[c].seen = finding[s][v])
    BY DEF MoveIsSeen
  <1>1. PICK c \in Requests : CommitStatus(c)
    <2>1. ASSUME NEW q \in Scans, scan'[q] # scan[q],
                 \A r \in Scans : r # q => finding'[r] = finding[r]
          PROVE  FALSE
      BY <2>1
    <2>2. ASSUME NEW q \in Scans, StartScan(q) PROVE FALSE
      BY <2>1, <2>2 DEF StartScan, FindingsInv, TriageTypeOK
    <2>3. ASSUME NEW q \in Scans, NEW reported, NEW blocked, PublishSource(q, reported, blocked)
          PROVE  FALSE
      BY <2>1, <2>3 DEF PublishSource, FindingsInv, TriageTypeOK
    <2>4. ASSUME NEW q \in Scans, NEW w, NEW severity, PublishImage(q, w, severity)
          PROVE  FALSE
      BY <2>1, <2>4 DEF PublishImage, FindingsInv, TriageTypeOK
    <2> QED
      BY <2>2, <2>3, <2>4
         DEF TriageNext, triageVars, Resync, Publishes, FailScan, Analyses, OpenFinding,
             SendPatch, LockFinding, EndPatch
  <1> DEFINE k == treq[c]
  <1>2. k \in Patching /\ k.pc = "locked"
    BY <1>1, LockedSucceeded DEF CommitStatus
  <1>3. s = k.s /\ v = k.v /\ finding'[s][v].status = k.to /\ treq'[c] = Idle
    BY <1>1, <1>2 DEF CommitStatus, FindingsInv, TriageTypeOK, Patching
  <1> QED
    BY <1>2, <1>3 DEF FindingsInv, LockedStands, RowOf

LEMMA FindingsInvariant == TriageSpec => []FindingsInv
  BY FindingsInit, FindingsStep, PTL DEF TriageSpec

\* Every variable of Triage stays in its domain.
THEOREM TriageTypeCorrect == TriageSpec => []TriageTypeOK
  BY FindingsInvariant, PTL DEF FindingsInv

\* A finding is moved along the matrix and, with if_match, from what the analyst saw.
THEOREM MovesSeen == TriageSpec => MovesAreSeen
  <1>1. FindingsInv /\ [TriageNext]_triageVars
          => [\A s \in Scans, v \in Vulns :
                LET old == finding[s][v]
                    new == finding'[s][v] IN
                old # NoFinding /\ new # old /\ scan'[s] = scan[s] =>
                  /\ new.status \in Transitions(old.status)
                  /\ \E c \in Requests :
                       treq[c].pc = "locked" /\ treq'[c] = Idle
                         /\ (treq[c].match => treq[c].seen = old)]_triageVars
    BY MovesStep DEF MoveIsSeen
  <1> QED
    BY <1>1, FindingsInvariant, PTL DEF TriageSpec, MovesAreSeen

-------------------------------------------------------------------------------
\* The gate.

LEMMA LatestIsScan ==
  ASSUME Succeeded # {}
  PROVE  LatestSucceeded \in Scans /\ scan[LatestSucceeded].status = "succeeded"
  <1>1. Succeeded \subseteq Scans /\ Succeeded \in SUBSET Nat /\ IsFiniteSet(Succeeded)
    BY TriageAssumption, FS_Subset DEF Succeeded
  <1>2. \E m \in Succeeded : \A k \in Succeeded : k <= m
    BY <1>1, LargestOfSome
  <1>3. LatestSucceeded \in Succeeded
    BY <1>2 DEF LatestSucceeded
  <1> QED
    BY <1>3 DEF Succeeded

Evaluating ==
  [pc : {"chosen", "counted", "decided"}, s : Scans \union {0}, run : 0..2,
   held : SUBSET Verdicts, gate : Verdicts \union {"none"}, open : SUBSET Vulns]
Commenting == [pc : {"listed"}, found : BOOLEAN]

LEMMA GateKinds ==
  ASSUME GateTypeOK, NEW c \in Requests
  PROVE  /\ greq[c] \in GateRequests
         /\ greq[c].pc \in {"chosen", "counted", "decided"} <=> greq[c] \in Evaluating
         /\ greq[c].pc = "listed" <=> greq[c] \in Commenting
         /\ greq[c].pc \in {"idle", "chosen", "counted", "decided", "listed"}
  BY DEF GateTypeOK, GateRequests, Evaluating, Commenting, Idle

\* The evaluation of c is of the execution that the scan still shows.
Same(c) == scan[greq[c].s].run = greq[c].run

VerdictOf(c) == Verdict(finding[greq[c].s], catalogue, greq[c].s \in forbidden)

Watched ==
  \A c \in Requests : greq[c].pc \in {"chosen", "counted"} =>
    /\ greq[c].s \in Scans /\ greq[c].run <= scan[greq[c].s].run
    /\ VerdictOf(c) \in greq[c].held
    /\ Same(c) => scan[greq[c].s].status = "succeeded"

\* What the count of CVEs leaves to the licences: either answer was a verdict.
CountedRight ==
  \A c \in Requests : greq[c].pc = "counted" =>
    /\ greq[c].open # {} => "fail" \in greq[c].held
    /\ Same(c) /\ greq[c].open = {} /\ greq[c].s \notin forbidden => "pass" \in greq[c].held

DecidedRight ==
  \A c \in Requests : greq[c].pc = "decided" =>
    \/ greq[c].s = 0 /\ greq[c].gate \in greq[c].held
    \/ /\ greq[c].s \in Scans /\ greq[c].run <= scan[greq[c].s].run
       /\ Same(c) => greq[c].gate \in greq[c].held

\* Posts that are under way and know of no comment.
Unaware == {c \in Requests : greq[c].pc = "listed" /\ ~greq[c].found}

CommentsCounted ==
  comments \in Nat /\ comments + Cardinality(Unaware) <= MaxComments

GateRequestsOK == greq \in [Requests -> GateRequests]

GateInv ==
  TriageTypeOK /\ GateRequestsOK /\ CommentsCounted /\ Watched /\ CountedRight /\ DecidedRight

LEMMA GateInvType == GateInv => GateTypeOK
  <1> SUFFICES ASSUME GateInv PROVE comments \in 0..MaxComments
    BY DEF GateInv, GateRequestsOK, GateTypeOK
  <1>1. Cardinality(Unaware) \in Nat /\ MaxComments \in Nat
    BY GateAssumption, FS_Subset, FS_CardinalityType DEF Unaware, MaxComments
  <1> QED
    BY <1>1 DEF GateInv, CommentsCounted

\* How a scan changes: an execution has a number of its own, and a scan that has
\* succeeded changes by another execution only.
LEMMA ScanMoves ==
  ASSUME TriageTypeOK, [TriageNext]_triageVars, NEW s \in Scans
  PROVE  /\ scan[s].run <= scan'[s].run
         /\ scan'[s].run = scan[s].run /\ scan[s].status = "succeeded"
              => scan'[s] = scan[s] /\ (s \in forbidden' <=> s \in forbidden)
  <1> DEFINE Moved == /\ scan[s].run <= scan'[s].run
                      /\ scan'[s].run = scan[s].run /\ scan[s].status = "succeeded"
                           => scan'[s] = scan[s] /\ (s \in forbidden' <=> s \in forbidden)
  <1>0. scan[s].run \in Nat
    BY DEF TriageTypeOK
  <1>1. ASSUME NEW q \in Scans, StartScan(q) PROVE Moved
    BY <1>0, <1>1 DEF StartScan, TriageTypeOK
  <1>2. ASSUME NEW q \in Scans, NEW reported, NEW blocked, PublishSource(q, reported, blocked)
        PROVE  Moved
    BY <1>0, <1>2 DEF PublishSource, TriageTypeOK
  <1>3. ASSUME NEW q \in Scans, NEW w, NEW severity, PublishImage(q, w, severity)
        PROVE  Moved
    BY <1>0, <1>3 DEF PublishImage, TriageTypeOK
  <1>4. ASSUME NEW q \in Scans, FailScan(q) PROVE Moved
    BY <1>0, <1>4 DEF FailScan, TriageTypeOK
  <1>5. ASSUME UNCHANGED <<scan, forbidden>> PROVE Moved
    BY <1>0, <1>5
  <1> QED
    BY <1>1, <1>2, <1>3, <1>4, <1>5
       DEF TriageNext, triageVars, Resync, Publishes, Analyses, OpenFinding, SendPatch,
           LockFinding, CommitStatus, EndPatch

\* The evaluations of a step that is of Triage: they note the new verdict.
TriageWatched ==
  /\ [TriageNext]_triageVars
  /\ Watch
  /\ UNCHANGED comments

LEMMA WatchedOne ==
  ASSUME GateInv, TriageWatched, NEW c \in Requests
  PROVE  IF greq[c].pc \in {"chosen", "counted"}
           THEN /\ greq[c].s \in Scans
                /\ greq'[c] = [greq[c] EXCEPT !.held = @ \union {VerdictOf(c)'}]
                /\ greq'[c] \in Evaluating
                /\ VerdictOf(c)' \in greq'[c].held
                /\ greq[c].held \subseteq greq'[c].held
                /\ \A f \in {"pc", "s", "run", "gate", "open"} : greq'[c][f] = greq[c][f]
           ELSE greq'[c] = greq[c]
  <1>1. CASE greq[c].pc \in {"chosen", "counted"}
    <2>1. greq[c] \in Evaluating
      BY <1>1, GateInvType, GateKinds
    <2>2. greq[c].s \in Scans
      BY <1>1 DEF GateInv, Watched
    <2> DEFINE V == Verdict(finding'[greq[c].s], catalogue', greq[c].s \in forbidden')
    <2>3. greq'[c] = [greq[c] EXCEPT !.held = @ \union {V}]
      BY <1>1 DEF TriageWatched, Watch
    <2>4. V \in Verdicts
      BY DEF Verdict, Verdicts
    <2> HIDE DEF V
    <2>5. /\ greq'[c] \in Evaluating
          /\ greq'[c].held = greq[c].held \union {V}
          /\ greq'[c].pc = greq[c].pc /\ greq'[c].s = greq[c].s /\ greq'[c].run = greq[c].run
          /\ greq'[c].gate = greq[c].gate /\ greq'[c].open = greq[c].open
      BY <2>1, <2>3, <2>4 DEF Evaluating
    <2>6. VerdictOf(c)' = V
      BY <2>5 DEF VerdictOf, V
    <2> QED
      BY <1>1, <2>2, <2>3, <2>5, <2>6
  <1>2. CASE greq[c].pc \notin {"chosen", "counted"}
    BY <1>2 DEF TriageWatched, Watch
  <1> QED
    BY <1>1, <1>2

LEMMA GateTriageStep ==
  ASSUME GateInv, TriageWatched
  PROVE  GateInv'
  <1>0. TriageTypeOK /\ TriageTypeOK'
    BY TriageTypeStep DEF GateInv, TriageWatched
  <1>1. GateRequestsOK'
    <2>1. greq' = [c \in Requests |-> greq'[c]]
      BY DEF TriageWatched, Watch
    <2>2. ASSUME NEW c \in Requests PROVE greq'[c] \in GateRequests
      BY WatchedOne DEF GateInv, GateRequestsOK, GateRequests, Evaluating
    <2> QED
      BY <2>1, <2>2 DEF GateRequestsOK
  <1>2. CommentsCounted'
    <2>1. \A c \in Requests : greq[c].pc = "listed" \/ greq'[c].pc = "listed"
                                => greq'[c] = greq[c]
      BY WatchedOne
    <2>2. Unaware' = Unaware
      BY <2>1 DEF Unaware
    <2> QED
      BY <2>2 DEF GateInv, CommentsCounted, TriageWatched, MaxComments
  <1>3. ASSUME NEW c \in Requests, greq'[c].pc \in {"chosen", "counted", "decided"}
        PROVE  /\ greq'[c].pc = greq[c].pc /\ greq'[c].s = greq[c].s
               /\ greq'[c].run = greq[c].run /\ greq'[c].gate = greq[c].gate
               /\ greq'[c].open = greq[c].open /\ greq[c].held \subseteq greq'[c].held
               /\ greq'[c].pc # "decided" => VerdictOf(c)' \in greq'[c].held
    BY <1>3, WatchedOne
  <1>4. ASSUME NEW c \in Requests, greq[c].s \in Scans, greq[c].run <= scan[greq[c].s].run,
               greq'[c].s = greq[c].s, greq'[c].run = greq[c].run, greq[c].run \in Nat
        PROVE  /\ greq'[c].run <= scan'[greq'[c].s].run
               /\ Same(c)' => Same(c)
               /\ Same(c)' /\ scan[greq[c].s].status = "succeeded" =>
                    /\ scan'[greq'[c].s].status = "succeeded"
                    /\ greq'[c].s \in forbidden' <=> greq[c].s \in forbidden
    <2>1. scan[greq[c].s].run \in 0..2 /\ scan'[greq[c].s].run \in 0..2
      <3>1. scan[greq[c].s].run \in 0..2
        BY <1>0, <1>4 DEF TriageTypeOK
      <3>2. scan'[greq[c].s].run \in 0..2
        BY <1>0, <1>4 DEF TriageTypeOK
      <3> QED
        BY <3>1, <3>2
    <2>2. /\ scan[greq[c].s].run <= scan'[greq[c].s].run
          /\ scan'[greq[c].s].run = scan[greq[c].s].run /\ scan[greq[c].s].status = "succeeded"
               => scan'[greq[c].s] = scan[greq[c].s]
                  /\ (greq[c].s \in forbidden' <=> greq[c].s \in forbidden)
      BY <1>0, <1>4, ScanMoves DEF TriageWatched
    <2> QED
      BY <1>4, <2>1, <2>2 DEF Same
  <1>5. ASSUME NEW c \in Requests, greq[c].pc \in {"chosen", "counted", "decided"}
        PROVE  greq[c].run \in Nat
    BY <1>5, GateInvType, GateKinds DEF Evaluating
  <1>6. Watched'
    BY <1>3, <1>4, <1>5 DEF GateInv, Watched
  <1>7. CountedRight'
    <2> SUFFICES ASSUME NEW c \in Requests, greq'[c].pc = "counted"
                 PROVE  /\ greq'[c].open # {} => "fail" \in greq'[c].held
                        /\ Same(c)' /\ greq'[c].open = {} /\ greq'[c].s \notin forbidden'
                             => "pass" \in greq'[c].held
      BY DEF CountedRight
    <2>1. greq[c].pc = "counted" /\ greq[c].held \subseteq greq'[c].held
      BY <1>3
    <2>2. Same(c)' => Same(c) /\ (greq'[c].s \in forbidden' <=> greq[c].s \in forbidden)
      BY <1>3, <1>4, <1>5, <2>1 DEF GateInv, Watched
    <2> QED
      BY <1>3, <2>1, <2>2 DEF GateInv, CountedRight
  <1>8. DecidedRight'
    <2> SUFFICES ASSUME NEW c \in Requests, greq'[c].pc = "decided"
                 PROVE  \/ greq'[c].s = 0 /\ greq'[c].gate \in greq'[c].held
                        \/ /\ greq'[c].s \in Scans /\ greq'[c].run <= scan'[greq'[c].s].run
                           /\ Same(c)' => greq'[c].gate \in greq'[c].held
      BY DEF DecidedRight
    <2> QED
      BY <1>3, <1>4, <1>5 DEF GateInv, DecidedRight
  <1> QED
    BY <1>0, <1>1, <1>2, <1>6, <1>7, <1>8 DEF GateInv

\* A step of the gate alone that changes the evaluation in one slot.
LEMMA GateOneSlot ==
  ASSUME GateInv, UNCHANGED triageVars, NEW c \in Requests, NEW r \in GateRequests,
         greq' = [greq EXCEPT ![c] = r],
         CommentsCounted',
         r.pc \in {"chosen", "counted"} =>
           /\ r.s \in Scans /\ r.run <= scan[r.s].run
           /\ Verdict(finding[r.s], catalogue, r.s \in forbidden) \in r.held
           /\ scan[r.s].run = r.run => scan[r.s].status = "succeeded",
         r.pc = "counted" =>
           /\ r.open # {} => "fail" \in r.held
           /\ scan[r.s].run = r.run /\ r.open = {} /\ r.s \notin forbidden => "pass" \in r.held,
         r.pc = "decided" =>
           \/ r.s = 0 /\ r.gate \in r.held
           \/ /\ r.s \in Scans /\ r.run <= scan[r.s].run
              /\ scan[r.s].run = r.run => r.gate \in r.held
  PROVE  GateInv'
  <1>1. greq'[c] = r /\ \A d \in Requests : d # c => greq'[d] = greq[d]
    BY DEF GateInv, GateRequestsOK
  <1>2. UNCHANGED <<scan, finding, catalogue, forbidden>>
    BY DEF triageVars
  <1>3. TriageTypeOK' /\ GateRequestsOK'
    BY DEF GateInv, TriageTypeOK, triageVars, GateRequestsOK
  <1>4. Watched'
    BY <1>1, <1>2 DEF GateInv, Watched, VerdictOf, Same
  <1>5. CountedRight'
    BY <1>1, <1>2 DEF GateInv, CountedRight, Same
  <1>6. DecidedRight'
    BY <1>1, <1>2 DEF GateInv, DecidedRight, Same
  <1> QED
    BY <1>3, <1>4, <1>5, <1>6 DEF GateInv

\* The comments that are there stay, and no post is added to those that know of none.
LEMMA CommentsStand ==
  ASSUME GateInv, UNCHANGED comments, Unaware' \subseteq Unaware
  PROVE  CommentsCounted'
  <1>1. IsFiniteSet(Unaware)
    BY GateAssumption, FS_Subset DEF Unaware
  <1>2. Cardinality(Unaware') <= Cardinality(Unaware)
    BY <1>1, FS_Subset
  <1>3. Cardinality(Unaware) \in Nat /\ Cardinality(Unaware') \in Nat /\ MaxComments \in Nat
    BY <1>1, GateAssumption, FS_Subset, FS_CardinalityType DEF MaxComments
  <1> QED
    BY <1>2, <1>3 DEF GateInv, CommentsCounted, MaxComments

LEMMA GateOwnStep ==
  ASSUME GateInv, NEW c \in Requests,
         \/ PassWithoutScan(c) \/ ChooseScan(c) \/ CountCves(c) \/ CountLicences(c)
         \/ ListComments(c) \/ PostComment(c) \/ EndGate(c)
  PROVE  GateInv'
  <1>0. /\ greq[c] \in GateRequests
        /\ greq[c].pc \in {"chosen", "counted", "decided"} <=> greq[c] \in Evaluating
        /\ greq[c].pc = "listed" <=> greq[c] \in Commenting
    BY GateInvType, GateKinds
  <1>1. ASSUME NEW r, UNCHANGED comments, greq' = [greq EXCEPT ![c] = r], r.pc # "listed"
        PROVE  CommentsCounted'
    <2>1. \A d \in Requests : greq'[d] = IF d = c THEN r ELSE greq[d]
      BY <1>1 DEF GateInv, GateRequestsOK
    <2>2. Unaware' \subseteq Unaware
      BY <1>1, <2>1 DEF Unaware
    <2> QED
      BY <1>1, <2>2, CommentsStand
  <1>2. CASE PassWithoutScan(c)
    <2> DEFINE r == [pc |-> "decided", s |-> 0, run |-> 0, held |-> {"pass"},
                     gate |-> "pass", open |-> {}]
    <2>1. r \in GateRequests
      BY DEF GateRequests, Verdicts
    <2>2. CommentsCounted'
      <3>1. greq' = [greq EXCEPT ![c] = r] /\ UNCHANGED comments /\ r.pc # "listed"
        BY <1>2 DEF PassWithoutScan
      <3> HIDE DEF r
      <3> QED
        BY <3>1, <1>1
    <2> QED
      BY <1>2, <2>1, <2>2, GateOneSlot DEF PassWithoutScan
  <1>3. CASE ChooseScan(c)
    <2> DEFINE l == LatestSucceeded
               r == [pc |-> "chosen", s |-> l, run |-> scan[l].run,
                     held |-> {Verdict(finding[l], catalogue, l \in forbidden)},
                     gate |-> "none", open |-> {}]
    <2>1. l \in Scans /\ scan[l].status = "succeeded" /\ scan[l].run \in 0..2
      BY <1>3, LatestIsScan DEF ChooseScan, GateInv, TriageTypeOK
    <2>2. r \in GateRequests
      BY <2>1 DEF GateRequests, Verdict, Verdicts
    <2>4. greq' = [greq EXCEPT ![c] = r] /\ UNCHANGED triageVars /\ UNCHANGED comments
      BY <1>3 DEF ChooseScan
    <2>5. /\ r.pc = "chosen" /\ r.s = l /\ r.run <= scan[l].run
          /\ Verdict(finding[l], catalogue, l \in forbidden) \in r.held
      BY <2>1
    <2> HIDE DEF r, l
    <2>3. CommentsCounted'
      BY <1>1, <2>4, <2>5
    <2> QED
      BY <2>1, <2>2, <2>3, <2>4, <2>5, GateOneSlot
  <1>4. CASE CountCves(c)
    <2> DEFINE s == greq[c].s
               r == [greq[c] EXCEPT !.pc = "counted", !.open = OpenCritical(finding[s], catalogue)]
    <2>1. greq[c] \in Evaluating /\ OpenCritical(finding[s], catalogue) \subseteq Vulns
      BY <1>0, <1>4 DEF CountCves, OpenCritical
    <2>2. /\ r \in Evaluating /\ r.pc = "counted" /\ r.s = s /\ r.run = greq[c].run
          /\ r.held = greq[c].held /\ r.open = OpenCritical(finding[s], catalogue)
      BY <2>1 DEF Evaluating
    <2>3. /\ s \in Scans /\ r.run <= scan[s].run
          /\ Verdict(finding[s], catalogue, s \in forbidden) \in r.held
          /\ scan[s].run = r.run => scan[s].status = "succeeded"
      BY <1>4, <2>2 DEF CountCves, GateInv, Watched, VerdictOf, Same
    <2>4. /\ r.open # {} => "fail" \in r.held
          /\ r.open = {} /\ s \notin forbidden => "pass" \in r.held
      BY <2>2, <2>3 DEF Verdict
    <2>5. r \in GateRequests
      BY <2>2 DEF GateRequests, Evaluating
    <2>6. greq' = [greq EXCEPT ![c] = r] /\ UNCHANGED triageVars /\ UNCHANGED comments
      BY <1>4 DEF CountCves
    <2> HIDE DEF r, s
    <2>7. CommentsCounted'
      BY <1>1, <2>2, <2>6
    <2> QED
      BY <2>2, <2>3, <2>4, <2>5, <2>6, <2>7, GateOneSlot
  <1>5. CASE CountLicences(c)
    <2> DEFINE s == greq[c].s
               g == IF greq[c].open = {} /\ s \notin forbidden THEN "pass" ELSE "fail"
               r == [greq[c] EXCEPT !.pc = "decided", !.gate = g]
    <2>1. greq[c] \in Evaluating /\ g \in Verdicts
      BY <1>0, <1>5 DEF CountLicences, Verdicts
    <2>2. /\ r \in Evaluating /\ r.pc = "decided" /\ r.s = s /\ r.run = greq[c].run
          /\ r.held = greq[c].held /\ r.gate = g
      BY <2>1 DEF Evaluating
    <2>3. /\ s \in Scans /\ r.run <= scan[s].run
          /\ Verdict(finding[s], catalogue, s \in forbidden) \in r.held
      BY <1>5, <2>2 DEF CountLicences, GateInv, Watched, VerdictOf, Same
    <2>4. scan[s].run = r.run => r.gate \in r.held
      BY <1>5, <2>2, <2>3 DEF CountLicences, GateInv, CountedRight, Same, Verdict
    <2>5. r \in GateRequests
      BY <2>2 DEF GateRequests, Evaluating
    <2>6. greq' = [greq EXCEPT ![c] = r] /\ UNCHANGED triageVars /\ UNCHANGED comments
      BY <1>5 DEF CountLicences
    <2> HIDE DEF r, s
    <2>7. CommentsCounted'
      BY <1>1, <2>2, <2>6
    <2> QED
      BY <2>2, <2>3, <2>4, <2>5, <2>6, <2>7, GateOneSlot
  <1>6. CASE ListComments(c)
    <2> DEFINE r == [pc |-> "listed", found |-> comments > 0]
    <2>1. r \in GateRequests
      BY DEF GateRequests
    <2>2. greq' = [greq EXCEPT ![c] = r] /\ UNCHANGED triageVars /\ UNCHANGED comments
      BY <1>6 DEF ListComments
    <2>3. \A d \in Requests : greq'[d] = IF d = c THEN r ELSE greq[d]
      BY <2>2 DEF GateInv, GateRequestsOK
    <2>4. CommentsCounted'
      <3>1. CASE comments > 0
        <4>1. r.pc = "listed" /\ r.found
          BY <3>1
        <4> HIDE DEF r
        <4>2. Unaware' \subseteq Unaware
          BY <2>3, <4>1 DEF Unaware
        <4> QED
          BY <2>2, <4>2, CommentsStand
      <3>2. CASE comments = 0
        <4>1. /\ Cardinality(Unaware') \in Nat /\ Cardinality(Unaware') <= Cardinality(Requests)
              /\ Cardinality(Requests) \in Nat
          BY GateAssumption, FS_Subset, FS_CardinalityType DEF Unaware
        <4> QED
          BY <2>2, <3>2, <4>1 DEF CommentsCounted, MaxComments
      <3> QED
        BY <3>1, <3>2 DEF GateInv, CommentsCounted
    <2> QED
      BY <2>1, <2>2, <2>4, GateOneSlot
  <1>7. CASE PostComment(c)
    <2>1. greq[c].pc = "listed" /\ greq' = [greq EXCEPT ![c] = Idle] /\ UNCHANGED triageVars
      BY <1>7 DEF PostComment
    <2>2. \A d \in Requests : greq'[d] = IF d = c THEN Idle ELSE greq[d]
      BY <2>1 DEF GateInv, GateRequestsOK
    <2>3. Unaware' = Unaware \ {c}
      BY <2>2 DEF Unaware, Idle
    <2>4. CommentsCounted'
      <3>1. CASE greq[c].found
        BY <1>7, <2>3, <3>1, CommentsStand DEF PostComment
      <3>2. CASE ~greq[c].found
        <4>1. c \in Unaware
          BY <2>1, <3>2 DEF Unaware
        <4>2. IsFiniteSet(Unaware)
          BY GateAssumption, FS_Subset DEF Unaware
        <4>3. Cardinality(Unaware') = Cardinality(Unaware) - 1 /\ Cardinality(Unaware) \in Nat
          BY <2>3, <4>1, <4>2, FS_RemoveElement, FS_CardinalityType
        <4>4. comments' = comments + 1 /\ MaxComments \in Nat
          BY <1>7, <3>2, GateAssumption, FS_CardinalityType DEF PostComment, MaxComments
        <4> QED
          BY <4>3, <4>4 DEF GateInv, CommentsCounted, MaxComments
      <3> QED
        BY <3>1, <3>2
    <2> QED
      BY <2>1, <2>4, GateOneSlot DEF GateRequests, Idle
  <1>8. CASE EndGate(c)
    <2>1. CommentsCounted'
      <3>1. greq' = [greq EXCEPT ![c] = Idle] /\ UNCHANGED comments /\ Idle.pc # "listed"
        BY <1>8 DEF EndGate, Idle
      <3> QED
        BY <3>1, <1>1
    <2> QED
      BY <1>8, <2>1, GateOneSlot DEF EndGate, GateRequests, Idle
  <1> QED
    BY <1>2, <1>3, <1>4, <1>5, <1>6, <1>7, <1>8

LEMMA GateInvInit == GateInit => GateInv
  <1> SUFFICES ASSUME GateInit PROVE GateInv
    OBVIOUS
  <1>1. TriageTypeOK
    BY FindingsInit DEF GateInit, FindingsInv
  <1>2. Unaware = {}
    BY DEF GateInit, Unaware, Idle
  <1>3. CommentsCounted
    BY <1>2, FS_EmptySet, GateAssumption, FS_CardinalityType
       DEF GateInit, CommentsCounted, MaxComments
  <1> QED
    BY <1>1, <1>3
       DEF GateInit, GateInv, GateRequestsOK, GateRequests, Watched, CountedRight, DecidedRight,
            Idle

\* A step of the gate is one of Triage that is noted, one of an evaluation, or none.
LEMMA GateNextSplits ==
  ASSUME [GateNext]_gateVars
  PROVE  \/ TriageWatched
         \/ \E c \in Requests :
              \/ PassWithoutScan(c) \/ ChooseScan(c) \/ CountCves(c) \/ CountLicences(c)
              \/ ListComments(c) \/ PostComment(c) \/ EndGate(c)
         \/ UNCHANGED gateVars
  BY DEF GateNext, Comments, TriageWatched, TriageNext

LEMMA GateInvariant == GateSpec => []GateInv
  <1>1. GateInv /\ [GateNext]_gateVars => GateInv'
    <2> SUFFICES ASSUME GateInv, [GateNext]_gateVars PROVE GateInv'
      OBVIOUS
    <2>1. CASE TriageWatched
      BY <2>1, GateTriageStep
    <2>2. ASSUME NEW c \in Requests,
                 \/ PassWithoutScan(c) \/ ChooseScan(c) \/ CountCves(c) \/ CountLicences(c)
                 \/ ListComments(c) \/ PostComment(c) \/ EndGate(c)
          PROVE  GateInv'
      BY <2>2, GateOwnStep
    <2>3. CASE UNCHANGED gateVars
      BY <2>3 DEF gateVars, triageVars, GateInv, TriageTypeOK, GateRequestsOK, CommentsCounted,
                  Unaware, Watched, CountedRight, DecidedRight, VerdictOf, Same
    <2> QED
      BY <2>1, <2>2, <2>3, GateNextSplits
  <1> QED
    BY <1>1, GateInvInit, PTL DEF GateSpec

\* Every variable of PolicyGate stays in its domain, and posts that miss each other
\* leave no more comments than there are posts at once.
THEOREM GateTypeCorrect == GateSpec => [](TriageTypeOK /\ GateTypeOK)
  <1>1. GateInv => TriageTypeOK /\ GateTypeOK
    BY GateInvType DEF GateInv
  <1> QED
    BY <1>1, GateInvariant, PTL

\* A verdict, though three queries make it, is one that its scan had meanwhile.
THEOREM VerdictWasHeld == GateSpec => []VerdictHeld
  <1>1. GateInv => VerdictHeld
    BY TriageAssumption DEF GateInv, DecidedRight, VerdictHeld, Same
  <1> QED
    BY <1>1, GateInvariant, PTL
===============================================================================
