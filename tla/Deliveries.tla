----------------------------- MODULE Deliveries -----------------------------
(***************************************************************************)
(* Webhooks of one project (services/webhook_service.py).  A delivery is   *)
(* recorded under its id, in a transaction of its own, before its scan is  *)
(* inserted in the next; a provider sends a delivery again when it sees no *)
(* answer.  GitHub's and GitLab's handlers are the same but for the        *)
(* headers.  What becomes of a scan after it is published is               *)
(* ScanLifecycle's.                                                        *)
(***************************************************************************)
EXTENDS Portal, Naturals, FiniteSets

CONSTANTS
  Pushes,      \* delivery ids
  Ignored,     \* those whose event starts no scan
  MaxWebScans  \* scans of the project: a bound

\* A scan that is not from a push says so.
ASSUME PushesAssumption == "nobody" \notin Pushes /\ "hand" \notin Pushes

ASSUME WebScansAssumption == MaxWebScans \in Nat

VARIABLES
  hooked,   \* a secret and a provider are set, and the project is not archived
  ledger,   \* webhook_deliveries: "absent", "kept", or "linked" to its scan
  webscan,  \* the scans of the project, by the number of their INSERT
  newest,   \* projects.latest_scan_id
  excused,  \* pushes a scan in flight stands for, or lost with a process (history)
  wreq      \* the handler of a delivery

deliveryVars == <<hooked, ledger, webscan, newest, excused, wreq>>

WebScans == 1..MaxWebScans

NoWebScan == [from |-> "nobody", status |-> "none"]

InFlightWeb == \E n \in WebScans : webscan[n].status \in {"queued", "running"}

\* The id the next INSERT will give.
Fresh(n) ==
  /\ webscan[n].status = "none"
  /\ \A k \in 1..(n - 1) : webscan[k].status # "none"

Handler(r, pc) == wreq' = [wreq EXCEPT ![r] = [@ EXCEPT !.pc = pc]]

DeliveryInit ==
  /\ hooked = TRUE
  /\ ledger = [d \in Pushes |-> "absent"]
  /\ webscan = [n \in WebScans |-> NoWebScan]
  /\ newest = 0
  /\ excused = {}
  /\ wreq = [r \in Requests |-> Idle]

-------------------------------------------------------------------------------

\* The hook is switched on or off, or the project is archived.
Configure ==
  /\ hooked' = ~hooked
  /\ UNCHANGED <<ledger, webscan, newest, excused, wreq>>

\* The headers are there, the URL is a project's, and the secret fits.
Receive(r, d) ==
  /\ wreq[r] = Idle
  /\ hooked
  /\ wreq' = [wreq EXCEPT ![r] = [pc |-> "found", d |-> d, n |-> 0]]
  /\ UNCHANGED <<hooked, ledger, webscan, newest, excused>>

\* Wrong on purpose: the delivery is looked up, and recorded with the scan's link.
RecordLater(r) ==
  /\ wreq[r].pc = "found"
  /\ Handler(r, IF ledger[wreq[r].d] # "absent" THEN "end" ELSE "recorded")
  /\ UNCHANGED <<hooked, ledger, webscan, newest, excused>>

\* _record_delivery: the unique index lets one of several handlers through.
RecordDelivery(r) ==
  LET d == wreq[r].d IN
  /\ wreq[r].pc = "found"
  /\ ledger' = IF ledger[d] = "absent" THEN [ledger EXCEPT ![d] = "kept"] ELSE ledger
  /\ Handler(r, IF ledger[d] # "absent" \/ d \in Ignored THEN "end" ELSE "recorded")
  /\ UNCHANGED <<hooked, webscan, newest, excused>>

\* _enqueue_source_scan, to its first commit: when ix_scans_project_active
\* refuses the row, the scan that is in flight stands for the push.  (What the
\* provider is told then is left out: the handler reads the project again that
\* its rollback expired.)
InsertScan(r) ==
  /\ wreq[r].pc = "recorded"
  /\ \/ /\ InFlightWeb
        /\ excused' = excused \union {wreq[r].d}
        /\ Handler(r, "end")
        /\ UNCHANGED <<webscan, newest>>
     \/ \E n \in WebScans :
          /\ ~InFlightWeb
          /\ Fresh(n)
          /\ webscan' = [webscan EXCEPT ![n] = [from |-> wreq[r].d, status |-> "queued"]]
          /\ newest' = n
          /\ wreq' = [wreq EXCEPT ![r] = [@ EXCEPT !.pc = "inserted", !.n = n]]
          /\ UNCHANGED excused
  /\ UNCHANGED <<hooked, ledger>>

\* enqueue_scan: the broker takes the message, or raises and the row is failed.
\* A worker may have the message before the handler goes on, but not one that
\* the broker did not take.
PublishScan(r, taken) ==
  LET n == wreq[r].n IN
  /\ wreq[r].pc = "inserted"
  /\ taken \/ webscan[n].status = "queued"
  /\ webscan' = IF taken THEN webscan ELSE [webscan EXCEPT ![n] = [@ EXCEPT !.status = "failed"]]
  /\ Handler(r, "linking")
  /\ UNCHANGED <<hooked, ledger, newest, excused>>

\* delivery.enqueued_scan_id, for the administrators.
LinkDelivery(r) ==
  /\ wreq[r].pc = "linking"
  /\ ledger' = [ledger EXCEPT ![wreq[r].d] = "linked"]
  /\ Handler(r, "end")
  /\ UNCHANGED <<hooked, webscan, newest, excused>>

\* The answer is sent.
AnswerDelivery(r) ==
  /\ wreq[r] # Idle
  /\ wreq[r].pc = "end"
  /\ wreq' = [wreq EXCEPT ![r] = Idle]
  /\ UNCHANGED <<hooked, ledger, webscan, newest, excused>>

\* The process dies with the request, or a commit fails.  A push that was
\* recorded is answered as a duplicate when it is sent again.
LoseHandler(r) ==
  /\ wreq[r] # Idle
  /\ excused' = IF wreq[r].pc = "recorded" THEN excused \union {wreq[r].d} ELSE excused
  /\ wreq' = [wreq EXCEPT ![r] = Idle]
  /\ UNCHANGED <<hooked, ledger, webscan, newest>>

\* Somebody starts a scan by hand.
ScanByHand(n) ==
  /\ ~InFlightWeb
  /\ Fresh(n)
  /\ webscan' = [webscan EXCEPT ![n] = [from |-> "hand", status |-> "queued"]]
  /\ newest' = n
  /\ UNCHANGED <<hooked, ledger, excused, wreq>>

\* A worker takes a scan, or ends it.
WorkOnScan(n, to) ==
  /\ <<webscan[n].status, to>> \in
       {<<"queued", "running">>, <<"running", "succeeded">>, <<"running", "failed">>}
  /\ webscan' = [webscan EXCEPT ![n] = [@ EXCEPT !.status = to]]
  /\ UNCHANGED <<hooked, ledger, newest, excused, wreq>>

DeliveryNext ==
  \/ Configure
  \/ \E r \in Requests :
       \/ \E d \in Pushes : Receive(r, d)
       \/ RecordDelivery(r) \/ InsertScan(r) \/ LinkDelivery(r)
       \/ \E taken \in BOOLEAN : PublishScan(r, taken)
       \/ AnswerDelivery(r) \/ LoseHandler(r)
  \/ \E n \in WebScans :
       \/ ScanByHand(n)
       \/ \E to \in {"running", "succeeded", "failed"} : WorkOnScan(n, to)

DeliverySpec == DeliveryInit /\ [][DeliveryNext]_deliveryVars

(***************************************************************************)
(* Properties.                                                             *)
(***************************************************************************)

Handlers ==
  [pc : {"found", "recorded", "inserted", "linking", "end"},
   d  : Pushes,
   n  : 0..MaxWebScans]

\* The variables stay in their domains.
DeliveryTypeOK ==
  /\ hooked \in BOOLEAN
  /\ ledger \in [Pushes -> {"absent", "kept", "linked"}]
  /\ webscan \in [WebScans ->
       [from   : Pushes \union {"nobody", "hand"},
        status : {"none", "queued", "running", "succeeded", "failed"}]]
  /\ newest \in 0..MaxWebScans
  /\ excused \subseteq Pushes
  /\ wreq \in [Requests -> {Idle} \union Handlers]

\* However often a push is delivered, and to however many handlers at once, it
\* is scanned at most once.
OneScanPerPush ==
  \A m, n \in WebScans :
    webscan[m].from \in Pushes /\ webscan[m].from = webscan[n].from => m = n

\* A push that was recorded and should be scanned has a scan, or a handler that
\* will insert it, unless another scan of the project was in flight or the
\* process died between the two commits.
PushIsScanned ==
  \A d \in Pushes \ (Ignored \union excused) :
    ledger[d] # "absent" =>
      \/ \E n \in WebScans : webscan[n].from = d
      \/ \E r \in Requests : wreq[r] # Idle /\ wreq[r].d = d /\ wreq[r].pc = "recorded"

\* Every push is scanned, and once.
PushesScannedOnce == OneScanPerPush /\ PushIsScanned

\* The webhooks keep to the board that ScanLifecycle implements: one project whose
\* scans are queued one at a time, the last one being its latest scan.
HookBoard == INSTANCE ScanBoard
  WITH Scans <- WebScans, NoScan <- 0, Projects <- {"hooked"},
       ProjectOf <- [n \in WebScans |-> "hooked"],
       status <- [n \in WebScans |-> webscan[n].status],
       latest <- [p \in {"hooked"} |-> newest]

HooksKeepBoard == HookBoard!Spec
===============================================================================
