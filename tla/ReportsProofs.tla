----------------------------- MODULE ReportsProofs -----------------------------
(***************************************************************************)
(* Theorems of Reports and LicenceLookup, for any sets of scans,           *)
(* components, CVEs and licences, and for whatever text a registry answers *)
(* with.                                                                   *)
(*                                                                         *)
(* ExportsAreWhole: the rows of a scan are all of what it found, what it   *)
(* found without the findings, or nothing (RowsInv), and what an export    *)
(* was told so far is of one of these (VisitInv).  ReportsAgree is no      *)
(* matter of steps: the tabs and the exports count the same rows by        *)
(* different queries, and the counts are equal for any rows.               *)
(*                                                                         *)
(* LicenceSuffices rests on what Split and Normalise compute.  A text is   *)
(* split into stretches between connectives (PiecesAre), by induction over *)
(* its length; those that are reduced to a licence have neither OR nor AND *)
(* (PiecesArePlain), and come to their first word (PlainTexts).  What the  *)
(* cache, the pipelines and the scans hold is what a registry's answer     *)
(* came to, or nothing (LookupInv).                                        *)
(***************************************************************************)
EXTENDS Reports, LicenceLookup, NumberLemmas, FiniteSetTheorems, SequenceTheorems, TLAPS

\* Reports: the answers of an export.

\* What is stored of a scan: nothing, what it found without the findings, or all.
RowsInv ==
  /\ outcome \in [ProjectScans ->
                  {"none", "queued", "running", "succeeded", "failed", "cancelled"}]
  /\ found \in [ProjectScans -> Inventories]
  /\ stored \in [ProjectScans -> Inventories]
  /\ pointer \in ProjectScans \union {0}
  /\ \A s \in ProjectScans :
       /\ outcome[s] = "succeeded" => stored[s] = found[s]
       /\ stored[s] \in {Nothing, [found[s] EXCEPT !.findings = {}], found[s]}

Statuses == {"none", "queued", "running", "succeeded", "failed", "cancelled"}

LEMMA NothingIsRows == Nothing \in Inventories
  <1>1. {} \in SUBSET Components /\ {} \in SUBSET (Components \X Licences)
        /\ {} \in SUBSET (Components \X Cves)
    OBVIOUS
  <1> QED
    BY <1>1 DEF Nothing, Inventories

\* The rows of the first of the two transactions.
LEMMA FirstPart ==
  ASSUME NEW r \in Inventories
  PROVE  /\ [r EXCEPT !.findings = {}] \in Inventories
         /\ [r EXCEPT !.findings = {}].licences = r.licences
  <1>1. PICK none \in SUBSET (Components \X Cves) : none = {}
    OBVIOUS
  <1>2. PICK q : q = [r EXCEPT !.findings = none]
    OBVIOUS
  <1>3. /\ q.components = r.components /\ q.licences = r.licences /\ q.findings = none
        /\ q \in [components : SUBSET Components, licences : SUBSET (Components \X Licences),
                  findings : SUBSET (Components \X Cves)]
    BY <1>2 DEF Inventories
  <1> QED
    BY <1>1, <1>2, <1>3 DEF Inventories

LEMMA RowsInvInit == ReportInit => RowsInv
  BY NothingIsRows DEF ReportInit, RowsInv

LEMMA RowsInvStep ==
  ASSUME RowsInv, [ReportNext]_reportVars
  PROVE  /\ RowsInv'
         /\ found' = found
         /\ \A s \in Successes : s \in Successes' /\ stored'[s] = found[s]
  <1>0. /\ outcome \in [ProjectScans -> Statuses] /\ found \in [ProjectScans -> Inventories]
        /\ stored \in [ProjectScans -> Inventories] /\ pointer \in ProjectScans \union {0}
        /\ \A s \in ProjectScans :
             /\ outcome[s] = "succeeded" => stored[s] = found[s]
             /\ stored[s] \in {Nothing, [found[s] EXCEPT !.findings = {}], found[s]}
    BY DEF RowsInv, Statuses
  <1>1. ASSUME NEW s \in ProjectScans, NEW status \in Statuses, NEW rows \in Inventories,
               outcome' = [outcome EXCEPT ![s] = status],
               stored' = [stored EXCEPT ![s] = rows],
               UNCHANGED found, pointer' \in ProjectScans \union {0},
               outcome[s] # "succeeded", status = "succeeded" => rows = found[s],
               rows \in {Nothing, [found[s] EXCEPT !.findings = {}], found[s]}
        PROVE  /\ RowsInv' /\ found' = found
               /\ \A t \in Successes : t \in Successes' /\ stored'[t] = found[t]
    <2>1. /\ outcome' \in [ProjectScans -> Statuses] /\ stored' \in [ProjectScans -> Inventories]
          /\ \A t \in ProjectScans : /\ outcome'[t] = IF t = s THEN status ELSE outcome[t]
                                     /\ stored'[t] = IF t = s THEN rows ELSE stored[t]
      BY <1>0, <1>1
    <2>2. \A t \in ProjectScans :
            /\ outcome'[t] = "succeeded" => stored'[t] = found[t]
            /\ stored'[t] \in {Nothing, [found[t] EXCEPT !.findings = {}], found[t]}
      BY <1>0, <1>1, <2>1
    <2>3. RowsInv'
      BY <1>0, <1>1, <2>1, <2>2 DEF RowsInv, Statuses
    <2>4. \A t \in Successes : t \in Successes' /\ stored'[t] = found[t]
      BY <1>0, <1>1, <2>1 DEF Successes
    <2> QED
      BY <1>1, <2>3, <2>4
  <1>2. ASSUME UNCHANGED scanVars
        PROVE  /\ RowsInv' /\ found' = found
               /\ \A t \in Successes : t \in Successes' /\ stored'[t] = found[t]
    BY <1>0, <1>2 DEF scanVars, RowsInv, Successes
  <1>3. ASSUME NEW s \in ProjectScans
        PROVE  /\ stored = [stored EXCEPT ![s] = stored[s]]
               /\ outcome = [outcome EXCEPT ![s] = outcome[s]]
               /\ stored[s] \in Inventories
    BY <1>0
  <1>4. ASSUME NEW s \in ProjectScans, ScanQueued(s)
        PROVE  /\ RowsInv' /\ found' = found
               /\ \A t \in Successes : t \in Successes' /\ stored'[t] = found[t]
    <2>1. stored' = [stored EXCEPT ![s] = stored[s]] /\ stored[s] \in Inventories
      BY <1>3, <1>4 DEF ScanQueued
    <2>2. /\ outcome[s] # "succeeded" /\ outcome' = [outcome EXCEPT ![s] = "queued"]
          /\ pointer' = s /\ UNCHANGED found
      BY <1>4 DEF ScanQueued
    <2> QED
      BY <1>0, <1>1, <2>1, <2>2 DEF Statuses
  <1>5. ASSUME NEW s \in ProjectScans, ScanStarts(s)
        PROVE  /\ RowsInv' /\ found' = found
               /\ \A t \in Successes : t \in Successes' /\ stored'[t] = found[t]
    <2>1. /\ outcome[s] # "succeeded" /\ outcome' = [outcome EXCEPT ![s] = "running"]
          /\ stored' = [stored EXCEPT ![s] = Nothing] /\ UNCHANGED <<found, pointer>>
      BY <1>5 DEF ScanStarts
    <2> QED
      BY <1>0, <1>1, <2>1, NothingIsRows DEF Statuses
  <1>6. ASSUME NEW s \in ProjectScans, ComponentsStored(s) \/ FindingsStored(s)
        PROVE  /\ RowsInv' /\ found' = found
               /\ \A t \in Successes : t \in Successes' /\ stored'[t] = found[t]
    <2>1. PICK rows \in {[found[s] EXCEPT !.findings = {}], found[s]} :
            stored' = [stored EXCEPT ![s] = rows]
      BY <1>6 DEF ComponentsStored, FindingsStored
    <2>2. rows \in Inventories
      BY <1>0, <2>1, FirstPart
    <2>3. /\ outcome[s] \in {"running", "cancelled"} /\ UNCHANGED <<found, pointer>>
          /\ outcome' = [outcome EXCEPT ![s] = outcome[s]]
      BY <1>3, <1>6 DEF ComponentsStored, FindingsStored, AtWork
    <2> QED
      BY <1>0, <1>1, <2>1, <2>2, <2>3 DEF Statuses
  <1>7. ASSUME NEW s \in ProjectScans, ScanSucceeds(s) \/ ScanFails(s) \/ ScanCancelled(s)
        PROVE  /\ RowsInv' /\ found' = found
               /\ \A t \in Successes : t \in Successes' /\ stored'[t] = found[t]
    <2>1. PICK status \in {"succeeded", "failed", "cancelled"} :
            /\ outcome' = [outcome EXCEPT ![s] = status] /\ UNCHANGED <<found, stored, pointer>>
            /\ outcome[s] # "succeeded" /\ status = "succeeded" => stored[s] = found[s]
      BY <1>7 DEF ScanSucceeds, ScanFails, ScanCancelled, InFlight, AtWork
    <2>2. stored' = [stored EXCEPT ![s] = stored[s]] /\ stored[s] \in Inventories
      BY <1>3, <2>1
    <2>3. outcome[s] # "succeeded"
      BY <1>7 DEF ScanSucceeds, ScanFails, ScanCancelled, InFlight, AtWork
    <2> QED
      BY <1>0, <1>1, <2>1, <2>2, <2>3 DEF Statuses
  <1>8. ASSUME (\E kind \in DOMAIN Queries : Begin(kind)) \/ Ask \/ Respond
        PROVE  UNCHANGED scanVars
    BY <1>8 DEF Begin, Ask, Respond
  <1>9. ASSUME UNCHANGED reportVars PROVE UNCHANGED scanVars
    BY <1>9 DEF reportVars
  <1> QED
    BY <1>2, <1>4, <1>5, <1>6, <1>7, <1>8, <1>9 DEF ReportNext

-------------------------------------------------------------------------------
\* Reports: the export that is being made.

\* What is right of an answer: for a NOTICE, that it is of one state of its scan; for
\* the others, whose scan has succeeded, that it is of all that the scan found.
Right(kind, s, query, got) ==
  IF kind = "notice"
  THEN /\ query = "credits" => got.credits \in {Credits(Nothing), Credits(found[s])}
       /\ query = "duties" => got.duties = Duties(got.credits)
  ELSE s # 0 => got[query] = Answer(kind, query, found[s], got)

VisitInv ==
  visit # NoVisit =>
    /\ visit = [kind |-> visit.kind, s |-> visit.s, asked |-> visit.asked, got |-> visit.got]
    /\ visit.kind \in DOMAIN Queries /\ visit.s \in ProjectScans \union {0}
    /\ visit.kind # "notice" => visit.s \in Successes \union {0}
    /\ visit.asked \in 0..Len(Queries[visit.kind])
    /\ \A i \in 1..visit.asked :
         /\ Queries[visit.kind][i] \in DOMAIN visit.got
         /\ Right(visit.kind, visit.s, Queries[visit.kind][i], visit.got)

ReportInv == RowsInv /\ VisitInv

LEMMA QueriesAre ==
  /\ DOMAIN Queries = {"notice", "cyclonedx", "spdx", "comment"}
  /\ Queries["notice"] = <<"credits", "duties">>
  /\ Queries["cyclonedx"] = <<"packages">> /\ Queries["spdx"] = <<"packages">>
  /\ Queries["comment"] = <<"critical", "blocked", "count", "severities", "chart">>
  BY DEF Queries

\* No export asks anything twice, and the NOTICE asks for the duties last.
LEMMA QueriesOnce ==
  ASSUME NEW k \in DOMAIN Queries
  PROVE  /\ Len(Queries[k]) \in Nat
         /\ \A i, j \in 1..Len(Queries[k]) : Queries[k][i] = Queries[k][j] => i = j
         /\ k # "notice" => \A i \in 1..Len(Queries[k]) :
              Queries[k][i] \notin {"credits", "duties"}
         /\ k = "notice" => \A i \in 1..Len(Queries[k]) :
              (i = 1 /\ Queries[k][i] = "credits") \/ (i = 2 /\ Queries[k][i] = "duties")
  <1>1. CASE k = "notice"
    BY <1>1, QueriesAre
  <1>2. CASE k \in {"cyclonedx", "spdx"}
    BY <1>2, QueriesAre
  <1>3. CASE k = "comment"
    BY <1>3, QueriesAre
  <1> QED
    BY <1>1, <1>2, <1>3, QueriesAre

LEMMA SameAnswer ==
  ASSUME NEW kind, NEW query, query # "duties", NEW r, NEW got, NEW more
  PROVE  Answer(kind, query, r, got) = Answer(kind, query, r, more)
  BY DEF Answer

LEMMA LatestSuccessIsOne ==
  ASSUME RowsInv
  PROVE  LatestSuccess \in Successes \union {0}
  <1>1. Successes \subseteq ProjectScans
    BY DEF Successes
  <1>2. IsFiniteSet(Successes) /\ Successes \in SUBSET Nat
    BY <1>1, FS_Subset, ReportsAssumption
  <1>3. CASE Successes # {}
    <2>1. \E m \in Successes : \A k \in Successes : k <= m
      BY <1>2, <1>3, LargestOfSome
    <2> QED
      BY <1>3, <2>1 DEF LatestSuccess
  <1> QED
    BY <1>3 DEF LatestSuccess

LEMMA ReportInvInit == ReportInit => ReportInv
  BY RowsInvInit DEF ReportInit, ReportInv, VisitInv

LEMMA ReportInvStep ==
  ASSUME ReportInv, [ReportNext]_reportVars
  PROVE  ReportInv'
  <1>0. RowsInv /\ VisitInv
    BY DEF ReportInv
  <1>1. RowsInv' /\ found' = found /\ \A t \in Successes : t \in Successes'
    BY <1>0, RowsInvStep
  <1>2. ASSUME visit' = visit PROVE VisitInv'
    BY <1>0, <1>1, <1>2 DEF VisitInv, Right, Answer
  <1>3. ASSUME NEW kind \in DOMAIN Queries, Begin(kind) PROVE VisitInv'
    <2>1. PICK s : s = IF kind = "notice" THEN pointer ELSE LatestSuccess
      OBVIOUS
    <2>2. s \in ProjectScans \union {0} /\ (kind # "notice" => s \in Successes \union {0})
      BY <1>0, <2>1, LatestSuccessIsOne DEF RowsInv, Successes
    <2>3. PICK got : got = [query \in {} |-> 0]
      OBVIOUS
    <2>4. visit' = [kind |-> kind, s |-> s, asked |-> 0, got |-> got]
      BY <1>3, <2>1, <2>3 DEF Begin
    <2>5. 0 \in 0..Len(Queries[kind]) /\ 1..0 = {}
      BY QueriesOnce
    <2> QED
      BY <1>1, <2>2, <2>4, <2>5 DEF VisitInv
  <1>4. ASSUME Ask PROVE VisitInv'
    <2>1. PICK kind, s, n, got : visit = [kind |-> kind, s |-> s, asked |-> n, got |-> got]
      BY <1>0, <1>4 DEF Ask, VisitInv
    <2>2. visit.kind = kind /\ visit.s = s /\ visit.asked = n /\ visit.got = got
      BY <2>1
    <2>3. /\ kind \in DOMAIN Queries /\ s \in ProjectScans \union {0}
          /\ kind # "notice" => s \in Successes \union {0}
          /\ n \in 0..Len(Queries[kind]) /\ n # Len(Queries[kind])
          /\ \A i \in 1..n : /\ Queries[kind][i] \in DOMAIN got
                             /\ Right(kind, s, Queries[kind][i], got)
      BY <1>0, <1>4, <2>2 DEF Ask, Complete, VisitInv
    <2>4. PICK query : query = Queries[kind][n + 1]
      OBVIOUS
    <2>5. PICK answer : answer = Answer(kind, query, RowsOf(s), got)
      OBVIOUS
    <2>6. PICK more : more = [q \in DOMAIN got \union {query} |->
                                IF q = query THEN answer ELSE got[q]]
      OBVIOUS
    <2>7. visit' = [kind |-> kind, s |-> s, asked |-> n + 1, got |-> more]
      <3>1. visit' = [visit EXCEPT !.asked = n + 1, !.got = more]
        BY <1>4, <2>2, <2>4, <2>5, <2>6 DEF Ask
      <3> QED
        BY <2>1, <3>1
    <2>8. /\ n + 1 \in 1..Len(Queries[kind]) /\ n \in Nat /\ 1..n \subseteq 1..Len(Queries[kind])
          /\ \A i \in 1..(n + 1) : i \in 1..n \/ i = n + 1
      BY <2>3, QueriesOnce
    <2>9. /\ more[query] = answer /\ query \in DOMAIN more
          /\ \A i \in 1..n : /\ Queries[kind][i] \in DOMAIN more /\ Queries[kind][i] # query
                             /\ more[Queries[kind][i]] = got[Queries[kind][i]]
      <3>1. \A i \in 1..n : Queries[kind][i] # query
        <4>1. \A i \in 1..n : i \in 1..Len(Queries[kind]) /\ i # n + 1
          BY <2>8
        <4> QED
          BY <2>3, <2>4, <2>8, <4>1, QueriesOnce
      <3> QED
        BY <2>3, <2>6, <3>1
    <2>10. ASSUME NEW i \in 1..(n + 1)
           PROVE  Queries[kind][i] \in DOMAIN more /\ Right(kind, s, Queries[kind][i], more)
      <3>1. CASE kind # "notice"
        <4>1. query # "duties" /\ \A j \in 1..n : Queries[kind][j] # "duties"
          BY <2>3, <2>4, <2>8, <3>1, QueriesOnce
        <4>2. s # 0 => RowsOf(s) = found[s]
          BY <1>0, <2>3, <3>1 DEF RowsOf, Successes, RowsInv
        <4>3. CASE i \in 1..n
          BY <2>3, <2>9, <3>1, <4>1, <4>3, SameAnswer DEF Right
        <4>4. CASE i = n + 1
          BY <2>4, <2>5, <2>9, <3>1, <4>1, <4>2, <4>4, SameAnswer DEF Right
        <4> QED
          BY <2>8, <4>3, <4>4
      <3>2. CASE kind = "notice"
        <4>1. CASE n = 0
          <5>1. query = "credits" /\ i = n + 1
            BY <2>3, <2>4, <2>8, <3>2, <4>1, QueriesOnce
          <5>2. answer = Credits(RowsOf(s))
            BY <2>5, <5>1 DEF Answer
          <5>3. s \in ProjectScans =>
                  stored[s].licences \in {Nothing.licences, found[s].licences}
            BY <1>0, FirstPart DEF RowsInv
          <5>4. Credits(RowsOf(s)) \in {Credits(Nothing), Credits(found[s])}
            BY <2>3, <5>3 DEF RowsOf, Credits
          <5> QED
            BY <2>4, <2>9, <3>2, <5>1, <5>2, <5>4 DEF Right
        <4>2. CASE n # 0
          <5>1. n = 1 /\ query = "duties" /\ Queries[kind][1] = "credits"
            <6>1. n + 1 = 2 /\ 1 \in 1..Len(Queries[kind])
              BY <2>3, <2>8, <3>2, <4>2, QueriesOnce
            <6> QED
              BY <2>3, <2>4, <2>8, <3>2, <6>1, QueriesOnce
          <5>2. more.credits = got.credits /\ Right(kind, s, "credits", got)
            BY <2>3, <2>9, <5>1
          <5>3. more.duties = Duties(more.credits)
            BY <2>5, <2>9, <5>1, <5>2 DEF Answer
          <5>4. i = 1 \/ i = 2
            BY <5>1
          <5>5. Queries[kind][2] = "duties"
            BY <2>4, <5>1
          <5> QED
            BY <2>9, <3>2, <5>1, <5>2, <5>3, <5>4, <5>5 DEF Right
        <4> QED
          BY <4>1, <4>2
      <3> QED
        BY <3>1, <3>2
    <2>11. visit'.kind = kind /\ visit'.s = s /\ visit'.asked = n + 1 /\ visit'.got = more
      BY <2>7
    <2>12. n + 1 \in 0..Len(Queries[kind])
      BY <2>8
    <2>13. \A i \in 1..(n + 1) : Right(kind, s, Queries[kind][i], more)'
      BY <1>1, <2>10 DEF Right, Answer
    <2> QED
      BY <1>1, <2>3, <2>7, <2>10, <2>11, <2>12, <2>13 DEF VisitInv
  <1>5. ASSUME Respond PROVE VisitInv'
    BY <1>5 DEF Respond, VisitInv
  <1>6. ASSUME \/ UNCHANGED reportVars
               \/ \E s \in ProjectScans :
                    \/ ScanQueued(s) \/ ScanStarts(s) \/ ComponentsStored(s)
                    \/ FindingsStored(s) \/ ScanSucceeds(s) \/ ScanFails(s)
                    \/ ScanCancelled(s)
        PROVE  visit' = visit
    BY <1>6 DEF reportVars, ScanQueued, ScanStarts, ComponentsStored, FindingsStored,
                ScanSucceeds, ScanFails, ScanCancelled
  <1> QED
    BY <1>1, <1>2, <1>3, <1>4, <1>5, <1>6 DEF ReportNext, ReportInv

\* The scans' rows, the project's pointer and the scan of an export stay in their
\* domains.
THEOREM ReportTypeCorrect == ReportSpec => []ReportTypeOK
  <1>1. ReportInv => ReportTypeOK
    BY DEF ReportInv, RowsInv, VisitInv, ReportTypeOK
  <1> QED
    BY <1>1, ReportInvInit, ReportInvStep, PTL DEF ReportSpec

\* A scan's status is written only by a move of the board.
LEMMA OutcomeStep ==
  ASSUME RowsInv, [ReportNext]_reportVars
  PROVE  [ReportBoard!Next]_(ReportBoard!vars)
  <1> USE DEF ReportBoard!Next
  <1>0. outcome \in [ProjectScans -> Statuses]
    BY DEF RowsInv, Statuses
  <1>1. ASSUME UNCHANGED <<outcome, pointer>>
        PROVE  UNCHANGED ReportBoard!vars
    BY <1>1 DEF ReportBoard!vars
  <1>2. ASSUME NEW s \in ProjectScans, InFlight \subseteq {s}
        PROVE  ReportBoard!Free(s)
    BY <1>2 DEF ReportBoard!Free, ReportBoard!InFlight, InFlight
  <1>3. ASSUME pointer' = pointer
        PROVE  UNCHANGED [p \in {TheProject} |-> pointer]
    BY <1>3
  <1>4. ASSUME NEW s \in ProjectScans, ScanQueued(s) PROVE ReportBoard!Queue(s)
    <2>1. InFlight = {} /\ ReportBoard!Move(s, {"none"}, "queued")
      BY <1>4 DEF ScanQueued, ReportBoard!Move
    <2>2. ReportBoard!Free(s)
      BY <1>2, <2>1
    <2>3. [p \in {TheProject} |-> pointer'] =
            [[p \in {TheProject} |-> pointer] EXCEPT ![TheProject] = s]
      BY <1>4 DEF ScanQueued
    <2> QED
      BY <2>1, <2>2, <2>3 DEF ReportBoard!Queue
  <1>5. ASSUME NEW s \in ProjectScans, ScanStarts(s)
        PROVE  ReportBoard!Run(s) \/ UNCHANGED ReportBoard!vars
    <2>1. pointer' = pointer /\ outcome' = [outcome EXCEPT ![s] = "running"]
      BY <1>5 DEF ScanStarts
    <2>2. CASE outcome[s] = "running"
      <3>1. outcome' = outcome
        BY <1>0, <2>1, <2>2
      <3> QED
        BY <1>1, <2>1, <3>1
    <2>3. CASE outcome[s] # "running"
      <3>1. ReportBoard!Move(s, {"queued", "failed", "cancelled"}, "running")
        BY <1>5, <2>3 DEF ScanStarts, ReportBoard!Move
      <3> QED
        BY <1>2, <1>3, <1>5, <2>1, <3>1 DEF ReportBoard!Run, ScanStarts
    <2> QED
      BY <2>2, <2>3
  <1>6. ASSUME NEW s \in ProjectScans, ScanSucceeds(s) PROVE ReportBoard!Succeed(s)
    <2>1. pointer' = pointer /\ ReportBoard!Move(s, {"running", "cancelled"}, "succeeded")
      BY <1>6 DEF ScanSucceeds, AtWork, ReportBoard!Move
    <2> QED
      BY <1>3, <2>1 DEF ReportBoard!Succeed
  <1>7. ASSUME NEW s \in ProjectScans, ScanFails(s) PROVE ReportBoard!Fail(s)
    <2>1. /\ pointer' = pointer
          /\ ReportBoard!Move(s, {"queued", "running", "cancelled"}, "failed")
      BY <1>7 DEF ScanFails, InFlight, AtWork, ReportBoard!Move
    <2> QED
      BY <1>3, <2>1 DEF ReportBoard!Fail
  <1>8. ASSUME NEW s \in ProjectScans, ScanCancelled(s) PROVE ReportBoard!Cancel(s)
    <2>1. pointer' = pointer /\ ReportBoard!Move(s, ReportBoard!InFlight, "cancelled")
      BY <1>8 DEF ScanCancelled, InFlight, ReportBoard!InFlight, ReportBoard!Move
    <2> QED
      BY <1>3, <2>1 DEF ReportBoard!Cancel
  <1>9. ASSUME NEW s \in ProjectScans, ComponentsStored(s) \/ FindingsStored(s)
        PROVE  UNCHANGED ReportBoard!vars
    BY <1>1, <1>9 DEF ComponentsStored, FindingsStored
  <1>10. ASSUME \/ UNCHANGED reportVars \/ Ask \/ Respond
                \/ \E kind \in DOMAIN Queries : Begin(kind)
         PROVE  UNCHANGED ReportBoard!vars
    BY <1>1, <1>10 DEF reportVars, scanVars, Ask, Respond, Begin
  <1> QED
    BY <1>4, <1>5, <1>6, <1>7, <1>8, <1>9, <1>10 DEF ReportNext

\* The statuses and the pointer that the reports choose their scan by change as the
\* board of ScanBoard does, which the life cycle of scans implements too.
THEOREM ReportsImplementBoard == ReportSpec => ReportsKeepBoard
  <1>1. ReportInit => ReportBoard!Init
    BY DEF ReportInit, ReportBoard!Init
  <1>2. ReportInv => RowsInv
    BY DEF ReportInv
  <1> QED
    BY <1>1, <1>2, OutcomeStep, ReportInvInit, ReportInvStep, PTL
       DEF ReportSpec, ReportsKeepBoard, ReportBoard!Spec

\* The two counts that the comment makes twice are of the same rows.
LEMMA CommentAgrees ==
  ASSUME NEW r \in Inventories
  PROVE  /\ OpenBySeverity(r).critical = CriticalCount(r)
         /\ LicenceChart(r).forbidden = BlockedCount(r)
  <1>1. \A v : Severity(v) = "critical" <=> v \in Critical
    BY DEF Severity
  <1>2. \A l : Category(l) = "forbidden" <=> l \in Forbidden
    BY DEF Category
  <1>3. {f \in r.findings : Severity(f[2]) = "critical"} = {f \in r.findings : f[2] \in Critical}
    BY <1>1
  <1>4. {c \in Components : \E l \in Of(r.licences, c) : Category(l) = "forbidden"}
        = {c \in Components : Of(r.licences, c) \intersect Forbidden # {}}
    BY <1>2
  <1>5. LicenceChart(r).forbidden
        = Cardinality({c \in Components : \E l \in Of(r.licences, c) : Category(l) = "forbidden"})
    BY DEF LicenceChart, CategoryRank
  <1> QED
    BY <1>3, <1>4, <1>5 DEF OpenBySeverity, CriticalCount, BlockedCount

\* An SBOM lists all the components of its scan, a comment has the numbers of one whole
\* scan, and a NOTICE is of one state of its scan, whatever scans commit meanwhile.
THEOREM ExportIsWhole == ReportSpec => []ExportsAreWhole
  <1>1. ASSUME ReportInv, Complete, visit.s # 0 PROVE ExportsAreWhole
    <2>1. PICK kind, s, n, got : visit = [kind |-> kind, s |-> s, asked |-> n, got |-> got]
      BY <1>1 DEF Complete, ReportInv, VisitInv
    <2>2. visit.kind = kind /\ visit.s = s /\ visit.asked = n /\ visit.got = got
      BY <2>1
    <2>3. /\ kind \in DOMAIN Queries /\ s \in ProjectScans /\ n = Len(Queries[kind])
          /\ \A i \in 1..n : Right(kind, s, Queries[kind][i], got)
      BY <1>1, <2>2 DEF Complete, ReportInv, VisitInv
    <2>4. found[s] \in Inventories
      BY <1>1, <2>3 DEF ReportInv, RowsInv
    <2>5. CASE kind \in {"cyclonedx", "spdx"}
      <3>1. Right(kind, s, "packages", got)
        <4>1. Queries[kind] = <<"packages">>
          BY <2>5, QueriesAre
        <4>2. n = 1 /\ 1 \in 1..n /\ Queries[kind][1] = "packages"
          BY <2>3, <4>1
        <4> QED
          BY <2>3, <4>2
      <3>2. got.packages = found[s].components
        BY <1>1, <2>2, <2>5, <3>1 DEF Right, Answer, Spdx, CycloneDx
      <3> QED
        BY <2>2, <2>5, <3>2 DEF ExportsAreWhole
    <2>6. CASE kind = "comment"
      <3>1. /\ 1 \in 1..n /\ 2 \in 1..n /\ 3 \in 1..n /\ 4 \in 1..n /\ 5 \in 1..n
        BY <2>3, <2>6, QueriesAre
      <3>2. /\ Right(kind, s, "critical", got) /\ Right(kind, s, "blocked", got)
            /\ Right(kind, s, "count", got) /\ Right(kind, s, "severities", got)
            /\ Right(kind, s, "chart", got)
        BY <2>3, <2>6, <3>1, QueriesAre
      <3>3. /\ got.critical = CriticalCount(found[s]) /\ got.blocked = BlockedCount(found[s])
            /\ got.count = Cardinality(found[s].components)
            /\ got.severities = OpenBySeverity(found[s]) /\ got.chart = LicenceChart(found[s])
        BY <1>1, <2>2, <2>6, <3>2 DEF Right, Answer
      <3> QED
        BY <2>2, <2>4, <2>6, <3>3, CommentAgrees DEF ExportsAreWhole
    <2>7. CASE kind = "notice"
      <3>1. Right(kind, s, "credits", got) /\ Right(kind, s, "duties", got)
        BY <2>3, <2>7, QueriesAre
      <3>2. PICK r \in {Nothing, found[s]} :
              got.credits = Credits(r) /\ got.duties = Duties(Credits(r))
        BY <2>7, <3>1 DEF Right
      <3> QED
        BY <2>2, <2>7, <3>2 DEF ExportsAreWhole
    <2> QED
      BY <2>3, <2>5, <2>6, <2>7, QueriesAre
  <1>2. ReportInv => ExportsAreWhole
    BY <1>1 DEF ExportsAreWhole
  <1> QED
    BY <1>2, ReportInvInit, ReportInvStep, PTL DEF ReportSpec

-------------------------------------------------------------------------------
\* Reports: the tabs.

\* Severities and categories have a worst.
LEMMA HighestOfFew ==
  ASSUME NEW a \in Nat, NEW b \in Nat, NEW ranks \in SUBSET {0, a, b}
  PROVE  /\ Highest(ranks) \in ranks \union {0}
         /\ \A m \in ranks : m <= Highest(ranks)
  <1>1. \E n \in ranks \union {0} : \A m \in ranks : m <= n
    <2>1. PICK n \in {0, a, b} : /\ n \in ranks \union {0}
                                 /\ \A m \in {0, a, b} : m \in ranks => m <= n
      OBVIOUS
    <2> QED
      BY <2>1
  <1>2. PICK h : h = CHOOSE n \in ranks \union {0} : \A m \in ranks : m <= n
    OBVIOUS
  <1>3. h \in ranks \union {0} /\ \A m \in ranks : m <= h
    BY <1>1, <1>2
  <1> QED
    BY <1>2, <1>3 DEF Highest

LEMMA SeveritiesAreRanked ==
  /\ SeverityRank.none = 0 /\ SeverityRank.info = 1 /\ SeverityRank.unknown = 1
  /\ SeverityRank.critical = 5
  /\ \A v : /\ SeverityRank[Severity(v)] \in {1, 5}
            /\ SeverityRank[Severity(v)] = 5 <=> v \in Critical
  BY DEF SeverityRank, Severity

LEMMA CategoriesAreRanked ==
  /\ DOMAIN CategoryRank = {"unknown", "allowed", "forbidden"}
  /\ CategoryRank.unknown = 0 /\ CategoryRank.allowed = 1 /\ CategoryRank.forbidden = 3
  /\ \A l : /\ Category(l) \in DOMAIN CategoryRank
            /\ CategoryRank[Category(l)] \in {0, 1, 3}
            /\ CategoryRank[Category(l)] = 3 <=> l \in Forbidden
  /\ \A j, k \in DOMAIN CategoryRank : CategoryRank[j] = CategoryRank[k] => j = k
  BY DEF CategoryRank, Category

LEMMA WorstSeverityIs ==
  ASSUME NEW r, NEW c
  PROVE  /\ WorstSeverity(r, c) \in {0, 1, 5}
         /\ WorstSeverity(r, c) = 5 <=> \E v \in Of(r.findings, c) : v \in Critical
  <1> DEFINE ranks == {SeverityRank[Severity(v)] : v \in Of(r.findings, c)}
  <1>1. ranks \in SUBSET {0, 1, 5}
    BY SeveritiesAreRanked
  <1>2. 5 \in ranks <=> \E v \in Of(r.findings, c) : v \in Critical
    BY SeveritiesAreRanked
  <1>3. WorstSeverity(r, c) = Highest(ranks)
    BY DEF WorstSeverity
  <1> HIDE DEF ranks
  <1>4. Highest(ranks) \in ranks \union {0} /\ \A m \in ranks : m <= Highest(ranks)
    BY <1>1, HighestOfFew
  <1>5. Highest(ranks) \in {0, 1, 5} /\ (Highest(ranks) = 5 <=> 5 \in ranks)
    <2>1. Highest(ranks) \in {0, 1, 5}
      BY <1>1, <1>4
    <2>2. 5 \in ranks => 5 <= Highest(ranks)
      BY <1>4
    <2>3. Highest(ranks) # 0 => Highest(ranks) \in ranks
      BY <1>4
    <2> QED
      BY <2>1, <2>2, <2>3
  <1> QED
    BY <1>2, <1>3, <1>5

LEMMA WorstCategoryIs ==
  ASSUME NEW r, NEW c
  PROVE  /\ WorstCategory(r, c) \in {0, 1, 3}
         /\ WorstCategory(r, c) # 0 =>
              \E l \in Of(r.licences, c) : CategoryRank[Category(l)] = WorstCategory(r, c)
         /\ WorstCategory(r, c) = 3 <=> \E l \in Of(r.licences, c) : l \in Forbidden
  <1> DEFINE ranks == {CategoryRank[Category(l)] : l \in Of(r.licences, c)}
  <1>1. ranks \in SUBSET {0, 1, 3}
    BY CategoriesAreRanked
  <1>2. 3 \in ranks <=> \E l \in Of(r.licences, c) : l \in Forbidden
    BY CategoriesAreRanked
  <1>3. WorstCategory(r, c) = Highest(ranks)
    BY DEF WorstCategory
  <1>4. \A m \in ranks : \E l \in Of(r.licences, c) : CategoryRank[Category(l)] = m
    OBVIOUS
  <1> HIDE DEF ranks
  <1>5. Highest(ranks) \in ranks \union {0} /\ \A m \in ranks : m <= Highest(ranks)
    BY <1>1, HighestOfFew
  <1>6. /\ Highest(ranks) \in {0, 1, 3} /\ (Highest(ranks) = 3 <=> 3 \in ranks)
        /\ Highest(ranks) # 0 => Highest(ranks) \in ranks
    <2>1. Highest(ranks) \in {0, 1, 3}
      BY <1>1, <1>5
    <2>2. 3 \in ranks => 3 <= Highest(ranks)
      BY <1>5
    <2>3. Highest(ranks) # 0 => Highest(ranks) \in ranks
      BY <1>5
    <2> QED
      BY <2>1, <2>2, <2>3
  <1> QED
    BY <1>2, <1>3, <1>4, <1>6

\* What is counted is counted in numbers.
LEMMA PartsAreFinite ==
  ASSUME NEW S \in SUBSET Components
  PROVE  IsFiniteSet(S) /\ Cardinality(S) \in Nat /\ (Cardinality(S) = 0 <=> S = {})
  BY FS_Subset, FS_CardinalityType, FS_EmptySet, ReportsAssumption

LEMMA PartsAreSmaller ==
  ASSUME NEW S \in SUBSET Components, NEW T \in SUBSET S
  PROVE  Cardinality(T) <= Cardinality(S)
  BY PartsAreFinite, FS_Subset

\* The chart of the Overview counts everybody once.
LEMMA SeverityBars ==
  ASSUME NEW r \in Inventories
  PROVE  Cardinality(r.components) =
           Cardinality(InSeverity(r, 5)) + Cardinality(InSeverity(r, 1))
           + Cardinality(InSeverity(r, 0))
  <1>1. PICK A, B, C : A = InSeverity(r, 5) /\ B = InSeverity(r, 1) /\ C = InSeverity(r, 0)
    OBVIOUS
  <1>2. r.components \in SUBSET Components
    BY DEF Inventories
  <1>3. /\ A \subseteq r.components /\ B \subseteq r.components /\ C \subseteq r.components
        /\ A \intersect B = {} /\ (A \union B) \intersect C = {}
    BY <1>1 DEF InSeverity
  <1>4. (A \union B) \union C = r.components
    BY <1>1, WorstSeverityIs DEF InSeverity
  <1>5. /\ IsFiniteSet(A) /\ IsFiniteSet(B) /\ IsFiniteSet(C) /\ IsFiniteSet(A \union B)
        /\ Cardinality(A) \in Nat /\ Cardinality(B) \in Nat /\ Cardinality(C) \in Nat
        /\ Cardinality(A \union B) \in Nat
    BY <1>2, <1>3, PartsAreFinite
  <1>6. Cardinality(A \union B) = Cardinality(A) + Cardinality(B) - Cardinality({})
    BY <1>3, <1>5, FS_Union
  <1>7. Cardinality(r.components) = Cardinality(A \union B) + Cardinality(C) - Cardinality({})
    BY <1>3, <1>4, <1>5, FS_Union
  <1> QED
    BY <1>1, <1>5, <1>6, <1>7, FS_EmptySet

\* The order of the list leaves nothing to the database: every answer to the query
\* starts with the same component.
LEMMA OneFirst ==
  ASSUME NEW r \in Inventories, NEW p \in Orders(r), NEW q \in Orders(r),
         1 \in 1..Cardinality(r.components)
  PROVE  p[1] = q[1]
  <1>1. PICK n : n = Cardinality(r.components)
    OBVIOUS
  <1>2. PICK C \in SUBSET Components : C = r.components
    BY DEF Inventories
  <1>3. n \in Nat /\ IsFiniteSet(C) /\ IsFiniteSet(1..n) /\ Cardinality(1..n) = n
    BY <1>1, <1>2, PartsAreFinite, FS_Interval
  <1>4. \A c, d \in C : ~(Precedes(r, c, d) /\ Precedes(r, d, c)) /\ ~Precedes(r, c, c)
    <2>1. \A c : WorstSeverity(r, c) \in Nat
      BY WorstSeverityIs
    <2>2. \A c \in C : c \in Nat
      BY <1>2, ReportsAssumption
    <2> QED
      BY <2>1, <2>2 DEF Precedes
  <1>5. ASSUME NEW o \in Orders(r), NEW c \in C, c # o[1]
        PROVE  Precedes(r, o[1], c)
    <2>1. /\ o \in [1..n -> C] /\ DOMAIN o = 1..n
          /\ \A i, j \in 1..n : i < j => Precedes(r, o[i], o[j])
      BY <1>1, <1>2 DEF Orders
    <2>2. \A i, j \in 1..n : i # j => o[i] # o[j]
      <3>1. \A i, j \in 1..n : i < j => o[i] # o[j]
        BY <1>4, <2>1
      <3>2. \A i, j \in 1..n : i # j => i < j \/ j < i
        OBVIOUS
      <3> QED
        BY <3>1, <3>2
    <2>3. o \in Injection(1..n, C)
      BY <2>1, <2>2 DEF Injection, IsInjective
    <2>4. o \in Surjection(1..n, C)
      BY <1>1, <1>2, <1>3, <2>3, FS_Injection
    <2>5. PICK i \in 1..n : o[i] = c
      BY <2>4 DEF Surjection
    <2>6. 1 \in 1..n /\ 1 < i
      BY <1>1, <1>5, <2>5
    <2> QED
      BY <2>1, <2>5, <2>6
  <1>6. p[1] \in C /\ q[1] \in C
    BY <1>1, <1>2 DEF Orders
  <1> QED
    BY <1>4, <1>5, <1>6

LEMMA PagesAgree ==
  ASSUME NEW r \in Inventories, NEW first \in Pages(r, 0), NEW second \in Pages(r, 1)
  PROVE  /\ first \intersect second = {}
         /\ Cardinality(first \union second) = AtMostTwo(Cardinality(r.components))
  <1>1. PICK n \in Nat : n = Cardinality(r.components)
    BY PartsAreFinite DEF Inventories
  <1>2. PICK p \in Orders(r) : first = {p[i] : i \in DOMAIN p \intersect {1}}
    BY DEF Pages
  <1>3. PICK q \in Orders(r) : second = {q[i] : i \in DOMAIN q \intersect {2}}
    BY DEF Pages
  <1>4. /\ p \in [1..n -> r.components] /\ q \in [1..n -> r.components]
        /\ \A i, j \in 1..n : i < j => Precedes(r, q[i], q[j])
    BY <1>1 DEF Orders
  <1>5. first = (IF 1 \in 1..n THEN {p[1]} ELSE {}) /\ second = (IF 2 \in 1..n THEN {q[2]} ELSE {})
    BY <1>2, <1>3, <1>4
  <1>6. CASE n = 0
    <2>1. first \union second = {} /\ first \intersect second = {}
      BY <1>5, <1>6
    <2> QED
      BY <1>1, <1>6, <2>1, FS_EmptySet DEF AtMostTwo
  <1>7. CASE n = 1
    <2>1. first \union second = {p[1]} /\ first \intersect second = {}
      BY <1>5, <1>7
    <2>2. Cardinality({p[1]}) = 1
      BY FS_Singleton
    <2> QED
      BY <1>1, <1>7, <2>1, <2>2 DEF AtMostTwo
  <1>8. CASE n \notin {0, 1}
    <2>1. 1 \in 1..n /\ 2 \in 1..n /\ ~(n < 2)
      BY <1>8
    <2>2. q[1] # q[2]
      <3>1. Precedes(r, q[1], q[2]) /\ q[1] \in Components
        <4>1. r.components \in SUBSET Components
          BY DEF Inventories
        <4>2. q[1] \in r.components
          BY <1>4, <2>1
        <4>3. Precedes(r, q[1], q[2])
          BY <1>4, <2>1
        <4> QED
          BY <4>1, <4>2, <4>3
      <3>2. \A c : WorstSeverity(r, c) \in Nat
        BY WorstSeverityIs
      <3>3. q[1] \in Nat
        BY <3>1, ReportsAssumption
      <3> QED
        BY <3>1, <3>2, <3>3 DEF Precedes
    <2>3. p[1] = q[1]
      BY <1>1, <2>1, OneFirst
    <2>4. first \union second = {q[1]} \union {q[2]} /\ first \intersect second = {}
      BY <1>5, <2>1, <2>2, <2>3
    <2>5. Cardinality({q[1]} \union {q[2]}) = 2
      <3>1. IsFiniteSet({q[1]}) /\ Cardinality({q[1]}) = 1 /\ q[2] \notin {q[1]}
        BY <2>2, FS_Singleton
      <3>2. Cardinality({q[1]} \union {q[2]}) = Cardinality({q[1]}) + 1
        BY <3>1, FS_AddElement
      <3> QED
        BY <3>1, <3>2
    <2> QED
      BY <1>1, <2>1, <2>4, <2>5 DEF AtMostTwo
  <1> QED
    BY <1>6, <1>7, <1>8

\* The tabs of a project agree, whatever rows they find.
LEMMA TabsDoAgree ==
  ASSUME NEW r \in Inventories
  PROVE  TabsAgree(r)
  <1> DEFINE chart == Overview(r)
             drawers == Drawers(r, r.components)
  <1>2. /\ chart.total = Cardinality(r.components)
        /\ chart.severities = [k \in {"critical", "info", "none"} |->
                                 Cardinality(InSeverity(r, SeverityRank[k]))]
        /\ chart.categories = Totals(r).categories
    BY DEF Overview, Totals
  <1>3. /\ DOMAIN chart.severities = {"critical", "info", "none"}
        /\ chart.severities.critical = Cardinality(InSeverity(r, 5))
        /\ chart.severities.info = Cardinality(InSeverity(r, 1))
        /\ chart.severities.none = Cardinality(InSeverity(r, 0))
    BY <1>2, SeveritiesAreRanked
  <1>4. chart.total = chart.severities.critical + chart.severities.info + chart.severities.none
    BY <1>2, <1>3, SeverityBars
  <1>5. \A k \in DOMAIN chart.severities : Totals(r).severities[k] = chart.severities[k]
    BY <1>2, <1>3 DEF Totals, SeverityRank
  <1>8. /\ DOMAIN drawers = r.components
        /\ \A c \in r.components : /\ drawers[c].severity = WorstSeverity(r, c)
                                   /\ drawers[c].cves = Of(r.findings, c)
    BY DEF Drawers
  <1>9. ASSUME NEW k \in DOMAIN chart.severities
        PROVE  chart.severities[k] =
                 Cardinality({c \in DOMAIN drawers : drawers[c].severity = SeverityRank[k]})
    <2>1. InSeverity(r, SeverityRank[k])
          = {c \in DOMAIN drawers : drawers[c].severity = SeverityRank[k]}
      BY <1>8 DEF InSeverity
    <2> QED
      BY <1>2, <1>3, <2>1
  <1>10. ASSUME NEW f \in DOMAIN FindingRows(r)
         PROVE  FindingRows(r)[f] = Cardinality({c \in DOMAIN drawers : f[2] \in drawers[c].cves})
    <2>1. f \in r.findings /\ FindingRows(r)[f] = Cardinality(With(r.findings, f[2]))
      BY <1>10 DEF FindingRows
    <2>2. \A y \in r.findings : y = <<y[1], y[2]>> /\ y[1] \in r.components
      BY DEF Inventories
    <2>3. With(r.findings, f[2]) = {c \in r.components : f[2] \in Of(r.findings, c)}
      BY <2>2 DEF With, Of
    <2>4. {c \in r.components : f[2] \in Of(r.findings, c)}
          = {c \in DOMAIN drawers : f[2] \in drawers[c].cves}
      BY <1>8
    <2> QED
      BY <2>1, <2>3, <2>4
  <1>11. /\ chart.total = chart.severities.critical + chart.severities.info
                          + chart.severities.none
         /\ \A k \in DOMAIN chart.severities : Totals(r).severities[k] = chart.severities[k]
         /\ Totals(r).categories = chart.categories
    BY <1>2, <1>4, <1>5
  <1>12. \A first \in Pages(r, 0), second \in Pages(r, 1) :
           /\ first \intersect second = {}
           /\ Cardinality(first \union second) = AtMostTwo(chart.total)
    BY <1>2, PagesAgree, Zenon
  <1>13. /\ \A k \in DOMAIN chart.severities :
              chart.severities[k] =
                Cardinality({c \in DOMAIN drawers : drawers[c].severity = SeverityRank[k]})
         /\ \A f \in DOMAIN FindingRows(r) :
              FindingRows(r)[f] = Cardinality({c \in DOMAIN drawers : f[2] \in drawers[c].cves})
    BY <1>9, <1>10
  <1> QED
    BY <1>11, <1>12, <1>13 DEF TabsAgree

\* The drawer of a licence is cut short exactly when it says so.
LEMMA CutShort ==
  ASSUME NEW S \in SUBSET Components
  PROVE  /\ Affected(S).total = Cardinality(S)
         /\ Affected(S).truncated <=> Affected(S).items # S
  <1>1. DrawerCap \in Nat /\ IsFiniteSet(S) /\ Cardinality(S) \in Nat /\ S \in SUBSET Nat
    BY PartsAreFinite, ReportsAssumption
  <1> DEFINE Earlier(c) == {d \in S : d < c}
  <1>2. Affected(S).items = {c \in S : Cardinality(Earlier(c)) < DrawerCap}
    BY DEF Affected
  <1>3. ASSUME NEW c \in S
        PROVE  Cardinality(Earlier(c)) \in Nat /\ Cardinality(Earlier(c)) < Cardinality(S)
    <2>1. Earlier(c) \in SUBSET (S \ {c}) /\ Earlier(c) \in SUBSET Components
      <3>1. c \in Nat /\ ~(c < c)
        BY <1>1, <1>3
      <3> QED
        BY <3>1
    <2> HIDE DEF Earlier
    <2>2. /\ S \ {c} \in SUBSET Components
          /\ Cardinality(S \ {c}) = Cardinality(S) - 1 /\ Cardinality(S \ {c}) \in Nat
      BY <1>1, <1>3, FS_RemoveElement, PartsAreFinite
    <2>3. Cardinality(Earlier(c)) \in Nat /\ Cardinality(Earlier(c)) <= Cardinality(S \ {c})
      BY <2>1, <2>2, PartsAreFinite, PartsAreSmaller
    <2> QED
      BY <1>1, <2>2, <2>3
  <1>4. CASE Cardinality(S) > DrawerCap
    <2>1. S # {}
      BY <1>1, <1>4, PartsAreFinite
    <2>2. PICK m \in S : \A k \in S : k <= m
      BY <1>1, <2>1, LargestOfSome
    <2>3. Earlier(m) = S \ {m}
      <3>1. \A k \in S : k < m <=> k # m
        BY <1>1, <2>2
      <3> QED
        BY <3>1
    <2> HIDE DEF Earlier
    <2>4. Cardinality(Earlier(m)) = Cardinality(S) - 1
      BY <1>1, <2>2, <2>3, FS_RemoveElement
    <2>5. ~(Cardinality(Earlier(m)) < DrawerCap)
      BY <1>1, <1>4, <2>4
    <2> QED
      BY <1>2, <1>4, <2>2, <2>5 DEF Affected
  <1>5. CASE ~(Cardinality(S) > DrawerCap)
    <2>1. \A c \in S : Cardinality(Earlier(c)) < DrawerCap
      <3> HIDE DEF Earlier
      <3> QED
        BY <1>1, <1>3, <1>5
    <2>2. Affected(S).items = S
      BY <1>2, <2>1
    <2> QED
      BY <1>5, <2>2 DEF Affected
  <1> QED
    BY <1>4, <1>5 DEF Affected

LEMMA PairsAreFromRows ==
  ASSUME NEW r \in Inventories
  PROVE  /\ r.components \in SUBSET Components
         /\ \A y \in r.licences \union r.findings : y = <<y[1], y[2]>> /\ y[1] \in r.components
         /\ \A x : With(r.licences, x) \in SUBSET Components
         /\ \A c, l : l \in Of(r.licences, c) <=> <<c, l>> \in r.licences
         /\ \A c, l : c \in With(r.licences, l) <=> <<c, l>> \in r.licences
  <1>1. r.components \in SUBSET Components
    BY DEF Inventories
  <1>2. \A y \in r.licences \union r.findings : y = <<y[1], y[2]>> /\ y[1] \in r.components
    BY DEF Inventories
  <1>3. \A c, l : l \in Of(r.licences, c) <=> <<c, l>> \in r.licences
    BY <1>2 DEF Of
  <1>4. \A c, l : c \in With(r.licences, l) <=> <<c, l>> \in r.licences
    BY <1>2 DEF With
  <1>5. \A x : With(r.licences, x) \in SUBSET Components
    BY <1>1, <1>2 DEF With
  <1> QED
    BY <1>1, <1>2, <1>3, <1>4, <1>5

LEMMA LicencesDoAgree ==
  ASSUME NEW r \in Inventories
  PROVE  LicencesAgree(r)
  <1> DEFINE chart == Overview(r).categories
             bars == LicenceChart(r)
             rows == LicenceRows(r)
             duties == DutyRows(r)
             credits == Credits(r)
             drawers == LicenceDrawers(r)
             dutyDrawers == DutyDrawers(r)
             Bar(k) == {c \in Components : \E l \in Of(r.licences, c) : Category(l) = k}
             all == {x[2] : x \in r.licences}
  <1>1. /\ DOMAIN chart = DOMAIN CategoryRank /\ DOMAIN bars = DOMAIN CategoryRank
        /\ \A k \in DOMAIN CategoryRank : /\ chart[k] = Cardinality(InCategory(r, CategoryRank[k]))
                                          /\ bars[k] = Cardinality(Bar(k))
    BY DEF Overview, LicenceChart
  <1>2. \A k : Bar(k) \in SUBSET Components
    OBVIOUS
  <1>3. ASSUME NEW k \in DOMAIN chart \ {"unknown"} PROVE bars[k] >= chart[k]
    <2>1. k \in DOMAIN CategoryRank /\ CategoryRank[k] # 0
      BY <1>1, <1>3, CategoriesAreRanked
    <2>2. ASSUME NEW c \in InCategory(r, CategoryRank[k]) PROVE c \in Bar(k)
      <3>1. c \in Components /\ WorstCategory(r, c) = CategoryRank[k]
        BY <2>2, PairsAreFromRows DEF InCategory
      <3>2. PICK l \in Of(r.licences, c) : CategoryRank[Category(l)] = CategoryRank[k]
        BY <2>1, <3>1, WorstCategoryIs
      <3>3. Category(l) = k
        BY <2>1, <3>2, CategoriesAreRanked
      <3> QED
        BY <3>1, <3>2, <3>3
    <2> HIDE DEF Bar
    <2>3. InCategory(r, CategoryRank[k]) \in SUBSET Bar(k)
      BY <2>2
    <2>4. InCategory(r, CategoryRank[k]) \in SUBSET Components
      BY <1>2, <2>3
    <2>5. Cardinality(InCategory(r, CategoryRank[k])) <= Cardinality(Bar(k))
      BY <1>2, <2>3, PartsAreSmaller
    <2>6. Cardinality(InCategory(r, CategoryRank[k])) \in Nat /\ Cardinality(Bar(k)) \in Nat
      BY <1>2, <2>4, PartsAreFinite
    <2> QED
      BY <1>1, <2>1, <2>5, <2>6
  <1>4. bars.forbidden = chart.forbidden
    <2>1. ASSUME NEW c PROVE c \in Bar("forbidden") <=> c \in InCategory(r, 3)
      <3>1. WorstCategory(r, c) = 3 <=> \E l \in Of(r.licences, c) : l \in Forbidden
        BY WorstCategoryIs
      <3>2. \A l : Category(l) = "forbidden" <=> l \in Forbidden
        BY DEF Category
      <3>3. ASSUME NEW l \in Of(r.licences, c) PROVE c \in r.components /\ c \in Components
        <4>1. <<c, l>> \in r.licences /\ <<c, l>>[1] = c
          BY <3>3, PairsAreFromRows
        <4> QED
          BY <4>1, PairsAreFromRows
      <3> QED
        BY <3>1, <3>2, <3>3, PairsAreFromRows DEF InCategory
    <2>2. Bar("forbidden") = InCategory(r, 3)
      BY <2>1
    <2> QED
      <3>1. bars["forbidden"] = Cardinality(Bar("forbidden"))
        BY <1>1, CategoriesAreRanked
      <3>2. chart["forbidden"] = Cardinality(InCategory(r, 3))
        BY <1>1, CategoriesAreRanked
      <3> QED
        BY <2>2, <3>1, <3>2
  <1>5. /\ DOMAIN rows = all /\ DOMAIN credits = all
        /\ \A l \in all : rows[l] = Cardinality(With(r.licences, l))
                          /\ credits[l] = With(r.licences, l)
        /\ rows = [l \in DOMAIN credits |-> Cardinality(credits[l])]
    BY DEF LicenceRows, Credits
  <1>6. ASSUME NEW l \in DOMAIN rows PROVE bars[Category(l)] >= rows[l]
    <2>1. With(r.licences, l) \in SUBSET Bar(Category(l))
      BY PairsAreFromRows
    <2>2. Category(l) \in DOMAIN CategoryRank
      BY CategoriesAreRanked
    <2> HIDE DEF Bar
    <2>3. Cardinality(With(r.licences, l)) <= Cardinality(Bar(Category(l)))
      BY <1>2, <2>1, PartsAreSmaller
    <2>4. Cardinality(With(r.licences, l)) \in Nat /\ Cardinality(Bar(Category(l))) \in Nat
      BY <1>2, PairsAreFromRows, PartsAreFinite
    <2> QED
      BY <1>1, <1>5, <1>6, <2>2, <2>3, <2>4
  <1>7. /\ DOMAIN duties = all \intersect Obliged /\ DOMAIN duties = Duties(credits)
        /\ DutyChart(r) = Cardinality(DOMAIN duties)
        /\ \A l \in DOMAIN duties :
             duties[l] = rows[l] /\ duties[l] = Cardinality(With(r.licences, l))
    BY <1>5 DEF DutyRows, Duties, DutyChart
  <1>8. /\ DOMAIN drawers = r.licences
        /\ \A x \in r.licences : /\ drawers[x] = Affected(With(r.licences, x[2]))
                                 /\ x[2] \in all
    BY DEF LicenceDrawers
  <1>9. \A x \in DOMAIN drawers :
          /\ drawers[x].total = rows[x[2]]
          /\ drawers[x].truncated <=> drawers[x].items # credits[x[2]]
    <2> TAKE x \in DOMAIN drawers
    <2>1. x[2] \in all /\ drawers[x] = Affected(With(r.licences, x[2]))
      BY <1>8
    <2>2. PICK S \in SUBSET Components : S = With(r.licences, x[2])
      BY PairsAreFromRows
    <2>3. rows[x[2]] = Cardinality(S) /\ credits[x[2]] = S /\ drawers[x] = Affected(S)
      BY <1>5, <2>1, <2>2
    <2>4. Affected(S).total = Cardinality(S) /\ (Affected(S).truncated <=> Affected(S).items # S)
      BY CutShort
    <2> HIDE DEF rows, credits, drawers
    <2> QED
      BY <2>3, <2>4
  <1>10. \A l : With(r.licences, l) # {} <=> l \in all
    BY PairsAreFromRows DEF With
  <1>11. /\ DOMAIN dutyDrawers = DOMAIN duties
         /\ \A l \in DOMAIN dutyDrawers : dutyDrawers[l] = Affected(With(r.licences, l))
    BY <1>7, <1>10 DEF DutyDrawers
  <1>12. \A l \in DOMAIN dutyDrawers :
           /\ dutyDrawers[l].total = duties[l]
           /\ \A x \in DOMAIN drawers : x[2] = l => drawers[x] = dutyDrawers[l]
    <2> TAKE l \in DOMAIN dutyDrawers
    <2>1. PICK S \in SUBSET Components : S = With(r.licences, l)
      BY PairsAreFromRows
    <2>2. dutyDrawers[l] = Affected(S) /\ duties[l] = Cardinality(S)
      BY <1>7, <1>11, <2>1
    <2>3. Affected(S).total = Cardinality(S)
      BY CutShort
    <2>4. \A x \in DOMAIN drawers : x[2] = l => drawers[x] = Affected(S)
      BY <1>8, <2>1
    <2> HIDE DEF duties, dutyDrawers, drawers
    <2> QED
      BY <2>2, <2>3, <2>4
  <1> QED
    BY <1>3, <1>4, <1>5, <1>6, <1>7, <1>9, <1>11, <1>12 DEF LicencesAgree

LEMMA ExportsDoAgree ==
  ASSUME NEW r \in Inventories
  PROVE  ExportsAgree(r)
  <1>1. Spdx(r) = CycloneDx(r) /\ Cardinality(Spdx(r)) = Overview(r).total
    BY DEF Spdx, CycloneDx, Overview
  <1>2. OpenBySeverity(r).critical = CriticalCount(r) /\ LicenceChart(r).forbidden = BlockedCount(r)
    BY CommentAgrees
  <1>3. Overview(r).severities.critical = Cardinality(InSeverity(r, 5))
    BY SeveritiesAreRanked DEF Overview
  <1>4. CriticalCount(r) > 0 <=> Cardinality(InSeverity(r, 5)) > 0
    <2>1. PICK S : S = {f \in r.findings : f[2] \in Critical}
      OBVIOUS
    <2>2. IsFiniteSet(S) /\ Cardinality(S) \in Nat /\ (Cardinality(S) = 0 <=> S = {})
      <3>1. S \in SUBSET (Components \X Cves)
        BY <2>1 DEF Inventories
      <3>2. IsFiniteSet(Components \X Cves)
        BY FS_Product, ReportsAssumption
      <3> QED
        BY <3>1, <3>2, FS_Subset, FS_CardinalityType, FS_EmptySet
    <2>3. PICK T \in SUBSET Components : T = InSeverity(r, 5)
      BY PairsAreFromRows DEF InSeverity
    <2>4. Cardinality(T) \in Nat /\ (Cardinality(T) = 0 <=> T = {})
      BY PartsAreFinite
    <2>5. S = {} <=> T = {}
      <3>1. \A f \in r.findings : f = <<f[1], f[2]>> /\ f[1] \in r.components
        BY PairsAreFromRows
      <3>2. ASSUME NEW f \in S PROVE T # {}
        <4>1. f \in r.findings /\ f[2] \in Critical /\ f[1] \in r.components
          BY <2>1, <3>1, <3>2
        <4>2. f[2] \in Of(r.findings, f[1])
          BY <4>1 DEF Of
        <4>3. WorstSeverity(r, f[1]) = 5
          BY <4>1, <4>2, WorstSeverityIs
        <4> QED
          BY <2>3, <4>1, <4>3 DEF InSeverity
      <3>3. ASSUME NEW c \in T PROVE S # {}
        <4>1. WorstSeverity(r, c) = 5
          BY <2>3, <3>3 DEF InSeverity
        <4>2. PICK v \in Of(r.findings, c) : v \in Critical
          BY <4>1, WorstSeverityIs
        <4>3. PICK f \in r.findings : f[2] = v
          BY <4>2 DEF Of
        <4> QED
          BY <2>1, <4>2, <4>3
      <3> QED
        BY <3>2, <3>3
    <2> QED
      BY <2>1, <2>2, <2>3, <2>4, <2>5 DEF CriticalCount
  <1>5. LicenceChart(r).forbidden = Overview(r).categories.forbidden
    BY LicencesDoAgree DEF LicencesAgree
  <1> QED
    BY <1>1, <1>2, <1>3, <1>4, <1>5 DEF ExportsAgree

\* The tabs, the licence pages, the obligations, the NOTICE, the SBOM and the comment on a
\* pull request agree on every number that two of them give, whatever the scan found and
\* however much of it is stored.
THEOREM ReportsDoAgree == ReportSpec => []ReportsAgree
  <1>1. ASSUME ReportInv, NEW s \in {pointer, LatestSuccess}
        PROVE  TabsAgree(RowsOf(s)) /\ LicencesAgree(RowsOf(s)) /\ ExportsAgree(RowsOf(s))
    <2>1. s \in ProjectScans \union {0}
      BY <1>1, LatestSuccessIsOne DEF ReportInv, RowsInv, Successes
    <2>2. RowsOf(s) \in Inventories
      BY <1>1, <2>1, NothingIsRows DEF ReportInv, RowsInv, RowsOf
    <2> QED
      BY <2>2, TabsDoAgree, LicencesDoAgree, ExportsDoAgree
  <1>2. ReportInv => ReportsAgree
    BY <1>1 DEF ReportsAgree
  <1> QED
    BY <1>2, ReportInvInit, ReportInvStep, PTL DEF ReportSpec

-------------------------------------------------------------------------------
\* LicenceLookup: what the text of a registry is split into.

Wording == Seq(Words)

LEMMA LeastIs ==
  ASSUME NEW S \in SUBSET Nat, S # {}
  PROVE  Least(S) \in S /\ \A k \in S : Least(S) <= k
  BY SmallestOfSome DEF Least

LEMMA CutsAre ==
  ASSUME NEW t \in Wording, NEW w
  PROVE  /\ Cuts(t, w) \in SUBSET Nat
         /\ \A k \in Cuts(t, w) : k \in 2..(Len(t) - 1) /\ t[k] = w
         /\ \A k \in 2..(Len(t) - 1) : t[k] = w => k \in Cuts(t, w)
  BY DEF Cuts

\* The text before the first cut, and the text after it.
LEMMA FirstCut ==
  ASSUME NEW t \in Wording, NEW w, Cuts(t, w) # {}
  PROVE  LET k == Least(Cuts(t, w)) IN
         /\ k \in 2..(Len(t) - 1) /\ t[k] = w /\ \A j \in 2..(k - 1) : t[j] # w
         /\ SubSeq(t, 1, k - 1) \in Wording /\ Len(SubSeq(t, 1, k - 1)) = k - 1
         /\ \A j \in 1..(k - 1) : SubSeq(t, 1, k - 1)[j] = t[j]
         /\ SubSeq(t, k + 1, Len(t)) \in Wording /\ Len(SubSeq(t, k + 1, Len(t))) = Len(t) - k
         /\ \A j \in 1..(Len(t) - k) : SubSeq(t, k + 1, Len(t))[j] = t[k + j]
  <1>1. PICK k : k = Least(Cuts(t, w))
    OBVIOUS
  <1>2. k \in Cuts(t, w) /\ \A j \in Cuts(t, w) : k <= j
    BY <1>1, CutsAre, LeastIs
  <1>3. k \in 2..(Len(t) - 1) /\ t[k] = w /\ Len(t) \in Nat
    BY <1>2, CutsAre DEF Wording
  <1>4. \A j \in 2..(k - 1) : t[j] # w
    <2>1. \A j \in 2..(k - 1) : j \in 2..(Len(t) - 1) /\ ~(k <= j)
      BY <1>3
    <2> QED
      BY <1>2, <2>1, CutsAre
  <1>5. /\ SubSeq(t, 1, k - 1) \in Wording /\ Len(SubSeq(t, 1, k - 1)) = k - 1
        /\ \A j \in 1..(k - 1) : SubSeq(t, 1, k - 1)[j] = t[j]
    BY <1>3 DEF Wording
  <1>6. /\ SubSeq(t, k + 1, Len(t)) \in Wording /\ Len(SubSeq(t, k + 1, Len(t))) = Len(t) - k
        /\ \A j \in 1..(Len(t) - k) : SubSeq(t, k + 1, Len(t))[j] = t[k + j]
    BY <1>3 DEF Wording
  <1> QED
    BY <1>1, <1>3, <1>4, <1>5, <1>6

PiecesOf(f, t, w) ==
  IF Cuts(t, w) = {} THEN <<t>>
  ELSE LET k == Least(Cuts(t, w))
       IN <<SubSeq(t, 1, k - 1)>> \o f[SubSeq(t, k + 1, Len(t))]

LEMMA SplitIs ==
  ASSUME NEW t, NEW w
  PROVE  Split(t, w) = (CHOOSE f : f = [u \in Seq(Words) |-> PiecesOf(f, u, w)])[t]
  BY DEF Split, PiecesOf

LEMMA PiecesAreTexts ==
  ASSUME NEW f \in [Wording -> Seq(Wording)], NEW t \in Wording, NEW w
  PROVE  PiecesOf(f, t, w) \in Seq(Wording)
  <1>1. CASE Cuts(t, w) = {}
    BY <1>1 DEF PiecesOf
  <1>2. CASE Cuts(t, w) # {}
    <2>1. PICK k : k = Least(Cuts(t, w))
      OBVIOUS
    <2>2. SubSeq(t, 1, k - 1) \in Wording /\ SubSeq(t, k + 1, Len(t)) \in Wording
      BY <1>2, <2>1, FirstCut
    <2>3. PICK a, b : a = SubSeq(t, 1, k - 1) /\ b = f[SubSeq(t, k + 1, Len(t))]
      OBVIOUS
    <2>4. a \in Wording /\ b \in Seq(Wording)
      BY <2>2, <2>3
    <2>5. PiecesOf(f, t, w) = <<a>> \o b
      BY <1>2, <2>1, <2>3, Zenon DEF PiecesOf
    <2>6. <<a>> \in Seq(Wording)
      BY <2>4
    <2> QED
      BY <2>4, <2>5, <2>6, ConcatProperties
  <1> QED
    BY <1>1, <1>2

\* Of the pieces of a text, the first ends at the first cut.
LEMMA SplitUnfolds ==
  ASSUME NEW w
  PROVE  \A t \in Wording :
           /\ Split(t, w) \in Seq(Wording)
           /\ Cuts(t, w) = {} => Split(t, w) = <<t>>
           /\ \A k : Cuts(t, w) # {} /\ k = Least(Cuts(t, w)) =>
                Split(t, w) = <<SubSeq(t, 1, k - 1)>> \o Split(SubSeq(t, k + 1, Len(t)), w)
  <1>1. PICK B : B = [f \in [Wording -> Seq(Wording)] |-> [t \in Wording |-> PiecesOf(f, t, w)]]
    OBVIOUS
  <1>2. PICK size : size = [t \in Wording |-> Len(t)]
    OBVIOUS
  <1>3. size \in [Wording -> Nat]
    BY <1>2 DEF Wording
  <1>4. B \in [[Wording -> Seq(Wording)] -> [Wording -> Seq(Wording)]]
    BY <1>1, PiecesAreTexts
  <1>5. Local(B, Wording, Seq(Wording), size)
    <2> SUFFICES ASSUME NEW f \in [Wording -> Seq(Wording)], NEW g \in [Wording -> Seq(Wording)],
                        NEW t \in Wording, \A u \in Wording : size[u] < size[t] => f[u] = g[u]
                 PROVE  PiecesOf(f, t, w) = PiecesOf(g, t, w)
      BY <1>1 DEF Local
    <2>1. CASE Cuts(t, w) = {}
      BY <2>1 DEF PiecesOf
    <2>2. CASE Cuts(t, w) # {}
      <3>1. PICK k : k = Least(Cuts(t, w))
        OBVIOUS
      <3>2. PICK b : b = SubSeq(t, k + 1, Len(t))
        OBVIOUS
      <3>3. b \in Wording /\ Len(b) = Len(t) - k /\ k \in 2..(Len(t) - 1)
        BY <2>2, <3>1, <3>2, FirstCut
      <3>4. size[b] < size[t]
        BY <1>2, <3>3 DEF Wording
      <3>5. f[b] = g[b]
        BY <3>3, <3>4
      <3> QED
        BY <2>2, <3>1, <3>2, <3>5, Zenon DEF PiecesOf
    <2> QED
      BY <2>1, <2>2
  <1>6. <<>> \in Seq(Wording)
    OBVIOUS
  <1>7. \E f \in [Wording -> Seq(Wording)] : f = B[f]
    <2>1. Recursion(B, Wording, Seq(Wording), size)
      BY <1>3, <1>4, <1>5, <1>6, Zenon DEF Recursion
    <2> QED
      BY <2>1, RecursionExists, Zenon
  <1>8. PICK f : f = CHOOSE h : h = [u \in Seq(Words) |-> PiecesOf(h, u, w)]
    OBVIOUS
  <1>9. f = [u \in Seq(Words) |-> PiecesOf(f, u, w)]
    <2>1. PICK h \in [Wording -> Seq(Wording)] : h = B[h]
      BY <1>7
    <2>2. h = [u \in Seq(Words) |-> PiecesOf(h, u, w)]
      BY <1>1, <2>1, Zenon DEF Wording
    <2> QED
      BY <1>8, <2>2, Zenon
  <1>10. \A t \in Wording : f[t] = PiecesOf(f, t, w) /\ Split(t, w) = f[t]
    <2>1. \A t \in Wording : f[t] = PiecesOf(f, t, w)
      BY <1>9, Zenon DEF Wording
    <2>2. \A t \in Wording : Split(t, w) = f[t]
      BY <1>8, SplitIs, Zenon
    <2> QED
      BY <2>1, <2>2
  <1>11. PICK Good : Good = {n \in Nat : \A t \in Wording : Len(t) < n => f[t] \in Seq(Wording)}
    OBVIOUS
  <1>12. 0 \in Good
    BY <1>11 DEF Wording
  <1>13. ASSUME NEW n \in Nat, n \in Good PROVE n + 1 \in Good
    <2> SUFFICES ASSUME NEW t \in Wording, Len(t) < n + 1 PROVE f[t] \in Seq(Wording)
      BY <1>11
    <2>1. CASE Cuts(t, w) = {}
      <3>1. f[t] = <<t>>
        BY <1>10, <2>1, Zenon DEF PiecesOf
      <3> QED
        BY <3>1
    <2>2. CASE Cuts(t, w) # {}
      <3>1. PICK k : k = Least(Cuts(t, w))
        OBVIOUS
      <3>2. PICK a, b : a = SubSeq(t, 1, k - 1) /\ b = SubSeq(t, k + 1, Len(t))
        OBVIOUS
      <3>3. a \in Wording /\ b \in Wording /\ Len(b) = Len(t) - k /\ k \in 2..(Len(t) - 1)
        BY <2>2, <3>1, <3>2, FirstCut
      <3>4. f[b] \in Seq(Wording)
        <4>1. Len(b) < n
          BY <3>3 DEF Wording
        <4> QED
          BY <1>11, <1>13, <3>3, <4>1
      <3>5. f[t] = <<a>> \o f[b]
        BY <1>10, <2>2, <3>1, <3>2, Zenon DEF PiecesOf
      <3> QED
        BY <3>3, <3>4, <3>5, ConcatProperties
    <2> QED
      BY <2>1, <2>2
  <1>14. Nat \subseteq Good
    BY <1>12, <1>13, SetInduction
  <1>15. \A t \in Wording : f[t] \in Seq(Wording)
    <2> TAKE t \in Wording
    <2>1. Len(t) + 1 \in Good /\ Len(t) < Len(t) + 1
      BY <1>14 DEF Wording
    <2> QED
      BY <1>11, <2>1
  <1>16. ASSUME NEW t \in Wording, Cuts(t, w) = {} PROVE Split(t, w) = <<t>>
    BY <1>10, <1>16, Zenon DEF PiecesOf
  <1>17. ASSUME NEW t \in Wording, NEW k, Cuts(t, w) # {}, k = Least(Cuts(t, w))
         PROVE  Split(t, w) = <<SubSeq(t, 1, k - 1)>> \o Split(SubSeq(t, k + 1, Len(t)), w)
    <2>1. SubSeq(t, k + 1, Len(t)) \in Wording
      BY <1>17, FirstCut
    <2>2. f[t] = <<SubSeq(t, 1, k - 1)>> \o f[SubSeq(t, k + 1, Len(t))]
      BY <1>10, <1>17, Zenon DEF PiecesOf
    <2> QED
      BY <1>10, <2>1, <2>2, Zenon
  <1> QED
    BY <1>10, <1>15, <1>16, <1>17, Zenon

\* The stretch p of t, from a to b, with w or an end of t on either side.
PieceAt(t, w, p, a, b) ==
  /\ a \in 1..Len(t) /\ b \in a..Len(t)
  /\ p \in Wording /\ Len(p) = b - a + 1
  /\ \A j \in 1..Len(p) : p[j] = t[a + j - 1]
  /\ a = 1 \/ t[a - 1] = w
  /\ b = Len(t) \/ t[b + 1] = w
  /\ Cuts(p, w) = {}

Piece(t, w, p) == \E a, b \in Nat : PieceAt(t, w, p, a, b)

LEMMA WholePiece ==
  ASSUME NEW w, NEW t \in Wording, t # <<>>, Cuts(t, w) = {}
  PROVE  Piece(t, w, t)
  <1>1. Len(t) \in Nat /\ Len(t) # 0
    BY DEF Wording
  <1>2. PieceAt(t, w, t, 1, Len(t))
    BY <1>1 DEF PieceAt
  <1> QED
    BY <1>1, <1>2 DEF Piece

LEMMA FirstPiece ==
  ASSUME NEW w, NEW t \in Wording, Cuts(t, w) # {}
  PROVE  Piece(t, w, SubSeq(t, 1, Least(Cuts(t, w)) - 1))
  <1>1. PICK k : k = Least(Cuts(t, w))
    OBVIOUS
  <1>2. PICK p : p = SubSeq(t, 1, k - 1)
    OBVIOUS
  <1>3. /\ k \in 2..(Len(t) - 1) /\ t[k] = w /\ \A j \in 2..(k - 1) : t[j] # w
        /\ p \in Wording /\ Len(p) = k - 1 /\ \A j \in 1..(k - 1) : p[j] = t[j]
    BY <1>1, <1>2, FirstCut
  <1>4. Len(t) \in Nat
    BY DEF Wording
  <1>5. Cuts(p, w) = {}
    BY <1>3, <1>4 DEF Cuts
  <1>6. PieceAt(t, w, p, 1, k - 1)
    BY <1>3, <1>4, <1>5 DEF PieceAt
  <1> QED
    BY <1>1, <1>2, <1>3, <1>4, <1>6 DEF Piece

LEMMA LaterPiece ==
  ASSUME NEW w, NEW t \in Wording, Cuts(t, w) # {}, NEW p,
         Piece(SubSeq(t, Least(Cuts(t, w)) + 1, Len(t)), w, p)
  PROVE  Piece(t, w, p)
  <1>1. PICK k : k = Least(Cuts(t, w))
    OBVIOUS
  <1>2. PICK u : u = SubSeq(t, k + 1, Len(t))
    OBVIOUS
  <1>3. /\ k \in 2..(Len(t) - 1) /\ t[k] = w
        /\ u \in Wording /\ Len(u) = Len(t) - k /\ \A j \in 1..(Len(t) - k) : u[j] = t[k + j]
    BY <1>1, <1>2, FirstCut
  <1>4. Len(t) \in Nat
    BY DEF Wording
  <1>5. PICK a \in Nat, b \in Nat : PieceAt(u, w, p, a, b)
    BY <1>1, <1>2 DEF Piece
  <1>6. PICK c \in Nat, d \in Nat : c = a + k /\ d = b + k
    BY <1>3, <1>4
  <1>7. /\ a \in 1..(Len(t) - k) /\ b \in a..(Len(t) - k)
        /\ p \in Wording /\ Len(p) = b - a + 1 /\ Cuts(p, w) = {}
    BY <1>3, <1>5 DEF PieceAt
  <1>8. c \in 1..Len(t) /\ d \in c..Len(t) /\ Len(p) = d - c + 1
    BY <1>3, <1>4, <1>6, <1>7
  <1>9. ASSUME NEW j \in 1..Len(p) PROVE p[j] = t[c + j - 1]
    <2>1. p[j] = u[a + j - 1]
      BY <1>5 DEF PieceAt
    <2>2. a + j - 1 \in 1..(Len(t) - k)
      BY <1>3, <1>4, <1>7
    <2>3. PICK i \in 1..(Len(t) - k) : i = a + j - 1
      BY <2>2
    <2>4. k + i = c + j - 1
      BY <1>3, <1>4, <1>6, <1>7, <2>3
    <2> QED
      BY <1>3, <2>1, <2>3, <2>4
  <1>10. c = 1 \/ t[c - 1] = w
    <2>1. CASE a = 1
      BY <1>3, <1>4, <1>6, <2>1
    <2>2. CASE a # 1
      <3>1. PICK i \in 1..(Len(t) - k) : i = a - 1
        BY <1>3, <1>4, <1>7, <2>2
      <3>2. u[i] = w
        BY <1>5, <2>2, <3>1 DEF PieceAt
      <3>3. k + i = c - 1
        BY <1>3, <1>4, <1>6, <1>7, <3>1
      <3> QED
        BY <1>3, <3>1, <3>2, <3>3
    <2> QED
      BY <2>1, <2>2
  <1>11. d = Len(t) \/ t[d + 1] = w
    <2>1. CASE b = Len(t) - k
      BY <1>3, <1>4, <1>6, <2>1
    <2>2. CASE b # Len(t) - k
      <3>1. PICK i \in 1..(Len(t) - k) : i = b + 1
        <4>1. Len(t) - k \in Int /\ b \in Nat /\ b <= Len(t) - k /\ 1 <= b
          BY <1>3, <1>4, <1>7
        <4>2. b + 1 \in 1..(Len(t) - k)
          BY <2>2, <4>1
        <4> QED
          BY <4>2
      <3>2. u[i] = w
        BY <1>3, <1>5, <2>2, <3>1 DEF PieceAt
      <3>3. k + i = d + 1
        BY <1>3, <1>4, <1>6, <1>7, <3>1
      <3> QED
        BY <1>3, <3>1, <3>2, <3>3
    <2> QED
      BY <2>1, <2>2
  <1>12. PieceAt(t, w, p, c, d)
    BY <1>7, <1>8, <1>9, <1>10, <1>11 DEF PieceAt
  <1> QED
    BY <1>12 DEF Piece

\* Every piece that a text is split into is one.
LEMMA PiecesAre ==
  ASSUME NEW w, NEW t \in Wording, t # <<>>
  PROVE  \A i \in DOMAIN Split(t, w) : Piece(t, w, Split(t, w)[i])
  <1> DEFINE Whole(u) == \A i \in DOMAIN Split(u, w) : Piece(u, w, Split(u, w)[i])
             Good == {n \in Nat : \A u \in Wording : u # <<>> /\ Len(u) < n => Whole(u)}
  <1>1. 0 \in Good
    BY DEF Wording
  <1>2. ASSUME NEW n \in Nat, n \in Good PROVE n + 1 \in Good
    <2> SUFFICES ASSUME NEW u \in Wording, u # <<>>, Len(u) < n + 1 PROVE Whole(u)
      OBVIOUS
    <2>1. CASE Cuts(u, w) = {}
      <3>1. Split(u, w) = <<u>>
        BY <2>1, SplitUnfolds
      <3>2. Piece(u, w, u)
        BY <2>1, WholePiece
      <3> QED
        BY <3>1, <3>2
    <2>2. CASE Cuts(u, w) # {}
      <3>1. PICK k : k = Least(Cuts(u, w))
        OBVIOUS
      <3>2. PICK a, b : a = SubSeq(u, 1, k - 1) /\ b = SubSeq(u, k + 1, Len(u))
        OBVIOUS
      <3>3. a \in Wording /\ b \in Wording /\ Len(b) = Len(u) - k /\ k \in 2..(Len(u) - 1)
        BY <2>2, <3>1, <3>2, FirstCut
      <3>4. Len(b) < n /\ b # <<>>
        BY <3>3 DEF Wording
      <3>5. Whole(b)
        BY <1>2, <3>3, <3>4
      <3>6. Split(u, w) = <<a>> \o Split(b, w) /\ Split(b, w) \in Seq(Wording)
        BY <2>2, <3>1, <3>2, <3>3, SplitUnfolds, Zenon
      <3>7. PICK rest \in Seq(Wording) : rest = Split(b, w)
        BY <3>6
      <3>8. ASSUME NEW i \in DOMAIN Split(u, w) PROVE Piece(u, w, Split(u, w)[i])
        <4>1. i \in 1..(1 + Len(rest)) /\ Len(rest) \in Nat
          BY <3>3, <3>6, <3>7
        <4>2. CASE i = 1
          <5>1. Split(u, w)[i] = a
            BY <3>3, <3>6, <3>7, <4>2
          <5> QED
            BY <2>2, <3>1, <3>2, <5>1, FirstPiece, Zenon
        <4>3. CASE i # 1
          <5>1. PICK j \in DOMAIN rest : j = i - 1
            BY <4>1, <4>3
          <5>2. Split(u, w)[i] = rest[j]
            BY <3>3, <3>6, <3>7, <4>1, <4>3, <5>1
          <5>3. Piece(b, w, rest[j])
            BY <3>5, <3>7, <5>1, Zenon
          <5> QED
            BY <2>2, <3>1, <3>2, <5>2, <5>3, LaterPiece, Zenon
        <4> QED
          BY <4>2, <4>3
      <3> QED
        BY <3>8
    <2> QED
      BY <2>1, <2>2
  <1> HIDE DEF Good
  <1>3. Nat \subseteq Good
    BY <1>1, <1>2, SetInduction
  <1>4. Len(t) + 1 \in Good /\ Len(t) < Len(t) + 1
    BY <1>3 DEF Wording
  <1> QED
    BY <1>4 DEF Good

\* A piece that is not the whole text is shorter.
LEMMA PiecesAreShorter ==
  ASSUME NEW w, NEW t \in Wording, NEW p, Piece(t, w, p), p # t
  PROVE  p \in Wording /\ Len(p) < Len(t)
  <1>1. PICK a \in Nat, b \in Nat : PieceAt(t, w, p, a, b)
    BY DEF Piece
  <1>2. p \in Wording /\ a \in 1..Len(t) /\ b \in a..Len(t) /\ Len(p) = b - a + 1
        /\ Len(t) \in Nat
    BY <1>1 DEF PieceAt, Wording
  <1>3. Len(p) <= Len(t)
    BY <1>2
  <1>4. CASE Len(p) = Len(t)
    <2>1. a = 1
      BY <1>2, <1>4
    <2>2. \A j \in 1..Len(p) : p[j] = t[j]
      <3> TAKE j \in 1..Len(p)
      <3>1. p[j] = t[1 + j - 1] /\ 1 + j - 1 = j
        BY <1>1, <2>1 DEF PieceAt
      <3> QED
        BY <3>1
    <2>3. p = t
      BY <1>2, <1>4, <2>2, SeqEqual DEF Wording
    <2> QED
      BY <2>3
  <1> QED
    BY <1>2, <1>3, <1>4

-------------------------------------------------------------------------------
\* LicenceLookup: what a text is reduced to.

Answering(f, t) ==
  {i \in DOMAIN Split(t, "OR") : Split(t, "OR")[i] # t /\ f[Split(t, "OR")[i]] # Unknown}

BaseOf(t) == Head(Split(t, "WITH"))

ReduceOf(f, t) ==
  CASE t \in Aliased -> t
    [] t \notin Aliased /\ "AND" \in ToSet(t) -> Unknown
    [] t \notin Aliased /\ "AND" \notin ToSet(t) /\ "OR" \in ToSet(t) ->
         IF Answering(f, t) = {} THEN Unknown
         ELSE f[Split(t, "OR")[Least(Answering(f, t))]]
    [] ToSet(t) \intersect Connectives = {"WITH"} ->
         IF BaseOf(t) = t THEN Unknown ELSE f[BaseOf(t)]
    [] OTHER -> IF Len(t) = 1 /\ t[1] \in LicenceNames THEN t ELSE Unknown

LEMMA NormaliseIs ==
  ASSUME NEW t
  PROVE  Normalise(t) = (CHOOSE f : f = [u \in Seq(Words) |-> ReduceOf(f, u)])[t]
  BY DEF Normalise, ReduceOf, Answering, BaseOf

LEMMA AliasedAre ==
  ASSUME NEW t \in Aliased
  PROVE  t \in Wording /\ Len(t) = 3 /\ t[2] = "OR" /\ "OR" \in ToSet(t)
  <1>1. PICK n \in Phrased : t = <<n, "OR", "LATER">>
    BY DEF Aliased
  <1>2. t \in Wording
    BY <1>1, LookupAssumption DEF Wording, Words, Connectives
  <1> QED
    BY <1>1, <1>2 DEF ToSet

\* The cases, each with what it comes to.
LEMMA ReduceCases ==
  ASSUME NEW f, NEW t
  PROVE  \/ t \in Aliased /\ ReduceOf(f, t) = t
         \/ ReduceOf(f, t) = Unknown /\ (t \notin Aliased /\ "AND" \in ToSet(t))
         \/ /\ t \notin Aliased /\ "AND" \notin ToSet(t) /\ "OR" \in ToSet(t)
            /\ ReduceOf(f, t) = IF Answering(f, t) = {} THEN Unknown
                                ELSE f[Split(t, "OR")[Least(Answering(f, t))]]
         \/ /\ ToSet(t) \intersect Connectives = {"WITH"} /\ t \notin Aliased
            /\ ReduceOf(f, t) = IF BaseOf(t) = t THEN Unknown ELSE f[BaseOf(t)]
         \/ /\ "AND" \notin ToSet(t) /\ "OR" \notin ToSet(t)
            /\ ToSet(t) \intersect Connectives # {"WITH"} /\ t \notin Aliased
            /\ ReduceOf(f, t) = IF Len(t) = 1 /\ t[1] \in LicenceNames THEN t ELSE Unknown
  <1>1. CASE t \in Aliased
    <2>1. ToSet(t) \intersect Connectives # {"WITH"}
      BY <1>1, AliasedAre DEF Connectives
    <2>2. ReduceOf(f, t) = t
      BY <1>1, <2>1 DEF ReduceOf
    <2> QED
      BY <1>1, <2>2
  <1>2. CASE t \notin Aliased /\ "AND" \in ToSet(t)
    <2>1. ToSet(t) \intersect Connectives # {"WITH"}
      BY <1>2 DEF Connectives
    <2> QED
      BY <1>2, <2>1 DEF ReduceOf
  <1>3. CASE t \notin Aliased /\ "AND" \notin ToSet(t) /\ "OR" \in ToSet(t)
    <2>1. ToSet(t) \intersect Connectives # {"WITH"}
      BY <1>3 DEF Connectives
    <2> QED
      BY <1>3, <2>1 DEF ReduceOf
  <1>4. CASE t \notin Aliased /\ "AND" \notin ToSet(t) /\ "OR" \notin ToSet(t)
    <2>1. CASE ToSet(t) \intersect Connectives = {"WITH"}
      BY <1>4, <2>1 DEF ReduceOf
    <2>2. CASE ToSet(t) \intersect Connectives # {"WITH"}
      BY <1>4, <2>2 DEF ReduceOf
    <2> QED
      BY <2>1, <2>2
  <1> QED
    BY <1>1, <1>2, <1>3, <1>4

LEMMA AlternativesAreShorter ==
  ASSUME NEW t \in Wording, NEW i \in DOMAIN Split(t, "OR"), Split(t, "OR")[i] # t
  PROVE  /\ Split(t, "OR")[i] \in Wording
         /\ Piece(t, "OR", Split(t, "OR")[i])
         /\ Len(Split(t, "OR")[i]) < Len(t)
  <1>1. CASE t = <<>>
    <2>1. Cuts(t, "OR") = {}
      BY <1>1 DEF Cuts
    <2>2. Split(t, "OR") = <<t>>
      BY <2>1, SplitUnfolds
    <2> QED
      BY <2>2
  <1>2. CASE t # <<>>
    <2>1. Piece(t, "OR", Split(t, "OR")[i])
      BY <1>2, PiecesAre
    <2> QED
      BY <2>1, PiecesAreShorter
  <1> QED
    BY <1>1, <1>2

LEMMA BaseIs ==
  ASSUME NEW t \in Wording, BaseOf(t) # t
  PROVE  /\ BaseOf(t) \in Wording
         /\ Piece(t, "WITH", BaseOf(t))
         /\ Len(BaseOf(t)) < Len(t)
         /\ BaseOf(t)[1] = t[1]
  <1>1. CASE Cuts(t, "WITH") = {}
    <2>1. Split(t, "WITH") = <<t>>
      BY <1>1, SplitUnfolds
    <2> QED
      BY <2>1 DEF BaseOf
  <1>2. CASE Cuts(t, "WITH") # {}
    <2>1. PICK k : k = Least(Cuts(t, "WITH"))
      OBVIOUS
    <2>2. PICK a, b : a = SubSeq(t, 1, k - 1) /\ b = SubSeq(t, k + 1, Len(t))
      OBVIOUS
    <2>3. a \in Wording /\ b \in Wording /\ Len(a) = k - 1 /\ k \in 2..(Len(t) - 1)
          /\ \A j \in 1..(k - 1) : a[j] = t[j]
      BY <1>2, <2>1, <2>2, FirstCut
    <2>4. PICK rest \in Seq(Wording) : Split(t, "WITH") = <<a>> \o rest
      <3>1. Split(t, "WITH") = <<a>> \o Split(b, "WITH")
        BY <1>2, <2>1, <2>2, SplitUnfolds, Zenon
      <3>2. Split(b, "WITH") \in Seq(Wording)
        BY <2>3, SplitUnfolds
      <3> QED
        BY <3>1, <3>2
    <2>5. BaseOf(t) = a
      <3>1. Head(<<a>> \o rest) = a
        BY <2>3
      <3> QED
        BY <2>4, <3>1 DEF BaseOf
    <2>6. Piece(t, "WITH", a)
      BY <1>2, <2>1, <2>2, FirstPiece, Zenon
    <2>7. 1 \in 1..(k - 1)
      BY <2>3
    <2> QED
      BY <2>3, <2>5, <2>6, <2>7, PiecesAreShorter
  <1> QED
    BY <1>1, <1>2

LEMMA AnswersAre ==
  ASSUME NEW f, NEW t \in Wording, Answering(f, t) # {}
  PROVE  LET i == Least(Answering(f, t)) IN
         i \in DOMAIN Split(t, "OR") /\ Split(t, "OR")[i] # t /\ f[Split(t, "OR")[i]] # Unknown
  <1>1. Split(t, "OR") \in Seq(Wording)
    BY SplitUnfolds
  <1>2. Answering(f, t) \in SUBSET Nat
    BY <1>1 DEF Answering
  <1>3. Least(Answering(f, t)) \in Answering(f, t)
    BY <1>2, LeastIs
  <1> QED
    BY <1>3 DEF Answering

LEMMA ReducesToTexts ==
  ASSUME NEW f \in [Wording -> Wording], NEW t \in Wording
  PROVE  ReduceOf(f, t) \in Wording
  <1>1. Unknown \in Wording
    BY DEF Wording, Unknown
  <1>2. Answering(f, t) # {} => f[Split(t, "OR")[Least(Answering(f, t))]] \in Wording
    BY AnswersAre, AlternativesAreShorter
  <1>3. BaseOf(t) # t => f[BaseOf(t)] \in Wording
    BY BaseIs
  <1> QED
    BY <1>1, <1>2, <1>3, ReduceCases, Zenon

LEMMA ReducesLocally ==
  ASSUME NEW f \in [Wording -> Wording], NEW g \in [Wording -> Wording], NEW t \in Wording,
         \A u \in Wording : Len(u) < Len(t) => f[u] = g[u]
  PROVE  ReduceOf(f, t) = ReduceOf(g, t)
  <1>1. \A i \in DOMAIN Split(t, "OR") :
          Split(t, "OR")[i] # t => f[Split(t, "OR")[i]] = g[Split(t, "OR")[i]]
    BY AlternativesAreShorter
  <1>2. Answering(f, t) = Answering(g, t)
    BY <1>1 DEF Answering
  <1>3. Answering(f, t) # {} =>
          f[Split(t, "OR")[Least(Answering(f, t))]] = g[Split(t, "OR")[Least(Answering(g, t))]]
    BY <1>1, <1>2, AnswersAre
  <1>4. BaseOf(t) # t => f[BaseOf(t)] = g[BaseOf(t)]
    BY BaseIs
  <1>5. /\ (IF Answering(f, t) = {} THEN Unknown
            ELSE f[Split(t, "OR")[Least(Answering(f, t))]])
             = (IF Answering(g, t) = {} THEN Unknown
                ELSE g[Split(t, "OR")[Least(Answering(g, t))]])
        /\ (IF BaseOf(t) = t THEN Unknown ELSE f[BaseOf(t)])
             = (IF BaseOf(t) = t THEN Unknown ELSE g[BaseOf(t)])
    BY <1>2, <1>3, <1>4, Zenon
  <1> QED
    BY <1>5, Zenon DEF ReduceOf

\* The value of Normalise is what one step of it comes to.
LEMMA NormaliseUnfolds ==
  \E f :
    \A t \in Wording : f[t] = ReduceOf(f, t) /\ Normalise(t) = f[t]
  <1>1. PICK B : B = [f \in [Wording -> Wording] |-> [t \in Wording |-> ReduceOf(f, t)]]
    OBVIOUS
  <1>2. PICK size : size = [t \in Wording |-> Len(t)]
    OBVIOUS
  <1>3. size \in [Wording -> Nat]
    BY <1>2 DEF Wording
  <1>4. B \in [[Wording -> Wording] -> [Wording -> Wording]]
    BY <1>1, ReducesToTexts
  <1>5. Local(B, Wording, Wording, size)
    <2> SUFFICES ASSUME NEW f \in [Wording -> Wording], NEW g \in [Wording -> Wording],
                        NEW t \in Wording, \A u \in Wording : size[u] < size[t] => f[u] = g[u]
                 PROVE  ReduceOf(f, t) = ReduceOf(g, t)
      BY <1>1 DEF Local
    <2>1. \A u \in Wording : Len(u) < Len(t) => f[u] = g[u]
      BY <1>2
    <2> QED
      BY <2>1, ReducesLocally
  <1>6. Wording # {}
    <2>1. <<>> \in Wording
      BY DEF Wording
    <2> QED
      BY <2>1
  <1>7. \E f \in [Wording -> Wording] : f = B[f]
    <2>1. Recursion(B, Wording, Wording, size)
      BY <1>3, <1>4, <1>5, <1>6, Zenon DEF Recursion
    <2> QED
      BY <2>1, RecursionExists, Zenon
  <1>8. PICK h \in [Wording -> Wording] : h = B[h]
    BY <1>7
  <1>9. PICK f : f = CHOOSE g : g = [u \in Seq(Words) |-> ReduceOf(g, u)]
    OBVIOUS
  <1>10. f = [u \in Seq(Words) |-> ReduceOf(f, u)]
    <2>1. h = [u \in Seq(Words) |-> ReduceOf(h, u)]
      BY <1>1, <1>8, Zenon DEF Wording
    <2> QED
      BY <1>9, <2>1, Zenon
  <1>11. \A t \in Wording : f[t] = ReduceOf(f, t) /\ Normalise(t) = f[t]
    <2>1. \A t \in Wording : f[t] = ReduceOf(f, t)
      BY <1>10, Zenon DEF Wording
    <2>2. \A t \in Wording : Normalise(t) = f[t]
      BY <1>9, NormaliseIs, Zenon
    <2> QED
      BY <2>1, <2>2
  <1> QED
    BY <1>11

LEMMA PieceHasWords ==
  ASSUME NEW w, NEW t \in Wording, NEW p, Piece(t, w, p)
  PROVE  p \in Wording /\ ToSet(p) \subseteq ToSet(t)
  <1>1. PICK a \in Nat, b \in Nat : PieceAt(t, w, p, a, b)
    BY DEF Piece
  <1>2. p \in Wording /\ a \in 1..Len(t) /\ b \in a..Len(t) /\ Len(p) = b - a + 1
        /\ Len(t) \in Nat
    BY <1>1 DEF PieceAt, Wording
  <1>3. ASSUME NEW j \in DOMAIN p PROVE p[j] \in ToSet(t)
    <2>1. j \in 1..Len(p)
      BY <1>2 DEF Wording
    <2>2. p[j] = t[a + j - 1]
      BY <1>1, <2>1 DEF PieceAt
    <2>3. a + j - 1 \in 1..Len(t)
      BY <1>2, <2>1
    <2>4. a + j - 1 \in DOMAIN t
      BY <2>3 DEF Wording
    <2> QED
      BY <2>2, <2>4 DEF ToSet
  <1> QED
    BY <1>2, <1>3 DEF ToSet

\* Without AND and OR, the licence is the first word.
LEMMA PlainTexts ==
  ASSUME NEW t \in Wording, "OR" \notin ToSet(t), "AND" \notin ToSet(t), Normalise(t) # Unknown
  PROVE  t # <<>> /\ t[1] \in LicenceNames /\ Normalise(t) = <<t[1]>>
  <1> DEFINE Plain(u) == "OR" \notin ToSet(u) /\ "AND" \notin ToSet(u)
                           /\ Normalise(u) # Unknown
             Named(u) == u # <<>> /\ u[1] \in LicenceNames /\ Normalise(u) = <<u[1]>>
             Good == {n \in Nat : \A u \in Wording : Len(u) < n /\ Plain(u) => Named(u)}
  <1>1. 0 \in Good
    BY DEF Wording
  <1>2. ASSUME NEW n \in Nat, n \in Good PROVE n + 1 \in Good
    <2> SUFFICES ASSUME NEW u \in Wording, Len(u) < n + 1, Plain(u) PROVE Named(u)
      OBVIOUS
    <2>1. PICK f : \A v \in Wording : f[v] = ReduceOf(f, v) /\ Normalise(v) = f[v]
      BY NormaliseUnfolds
    <2>2. Normalise(u) = ReduceOf(f, u) /\ u \notin Aliased
      BY <2>1, AliasedAre
    <2>3. CASE /\ ToSet(u) \intersect Connectives = {"WITH"}
               /\ ReduceOf(f, u) = IF BaseOf(u) = u THEN Unknown ELSE f[BaseOf(u)]
      <3>1. BaseOf(u) # u
        BY <2>2, <2>3
      <3>2. PICK p : p = BaseOf(u)
        OBVIOUS
      <3>3. p \in Wording /\ Piece(u, "WITH", p) /\ Len(p) < Len(u) /\ p[1] = u[1]
        BY <3>1, <3>2, BaseIs
      <3>4. Normalise(p) = Normalise(u)
        BY <2>1, <2>2, <2>3, <3>1, <3>2, <3>3
      <3>5. Plain(p)
        BY <3>3, <3>4, PieceHasWords
      <3>6. Len(p) < n
        BY <3>3 DEF Wording
      <3>7. Named(p)
        BY <1>2, <3>3, <3>5, <3>6
      <3>8. u # <<>>
        BY <3>3 DEF Wording
      <3> QED
        BY <3>3, <3>4, <3>7, <3>8
    <2>4. CASE ReduceOf(f, u) = IF Len(u) = 1 /\ u[1] \in LicenceNames THEN u ELSE Unknown
      <3>1. Len(u) = 1 /\ u[1] \in LicenceNames /\ Normalise(u) = u
        BY <2>2, <2>4
      <3>2. u = <<u[1]>>
        BY <3>1 DEF Wording
      <3> QED
        BY <3>1, <3>2
    <2>5. \/ ToSet(u) \intersect Connectives = {"WITH"}
             /\ ReduceOf(f, u) = IF BaseOf(u) = u THEN Unknown ELSE f[BaseOf(u)]
          \/ ReduceOf(f, u) = IF Len(u) = 1 /\ u[1] \in LicenceNames THEN u ELSE Unknown
      BY <2>2, ReduceCases, Zenon
    <2> QED
      BY <2>3, <2>4, <2>5
  <1> HIDE DEF Good
  <1>3. Nat \subseteq Good
    BY <1>1, <1>2, SetInduction
  <1>4. Len(t) + 1 \in Good /\ Len(t) < Len(t) + 1
    BY <1>3 DEF Wording
  <1> QED
    BY <1>4 DEF Good

\* A piece between ORs that is reduced to a licence is a plain text.
LEMMA PiecesArePlain ==
  ASSUME NEW t \in Wording, NEW p, Piece(t, "OR", p), "AND" \notin ToSet(t),
         Normalise(p) # Unknown
  PROVE  "OR" \notin ToSet(p) /\ "AND" \notin ToSet(p)
  <1>1. p \in Wording /\ "AND" \notin ToSet(p)
    BY PieceHasWords
  <1>2. Cuts(p, "OR") = {}
    BY DEF Piece, PieceAt
  <1>3. p \notin Aliased
    <2>1. Len(p) = 3 /\ p[2] = "OR" => 2 \in Cuts(p, "OR")
      BY DEF Cuts
    <2> QED
      BY <1>2, <2>1, AliasedAre
  <1>4. Split(p, "OR") = <<p>>
    BY <1>1, <1>2, SplitUnfolds
  <1>5. PICK f : \A v \in Wording : f[v] = ReduceOf(f, v) /\ Normalise(v) = f[v]
    BY NormaliseUnfolds
  <1>6. Answering(f, p) = {}
    BY <1>4 DEF Answering
  <1>7. ASSUME "OR" \in ToSet(p) PROVE FALSE
    <2>1. ReduceOf(f, p) = Unknown
      <3>1. ToSet(p) \intersect Connectives # {"WITH"}
        BY <1>7 DEF Connectives
      <3> QED
        BY <1>1, <1>3, <1>6, <1>7, <3>1, ReduceCases, Zenon
    <2> QED
      BY <1>1, <1>5, <2>1
  <1> QED
    BY <1>1, <1>7

\* A stretch of words that begins with n, without an AND, is under n.
LEMMA OneAlternative ==
  ASSUME NEW t \in Wording, "AND" \notin ToSet(t), NEW p, Piece(t, "OR", p),
         "OR" \notin ToSet(p)
  PROVE  Suffices(<<p[1]>>, t)
  <1>1. PICK a \in Nat, b \in Nat : PieceAt(t, "OR", p, a, b)
    BY DEF Piece
  <1>2. p \in Wording /\ a \in 1..Len(t) /\ b \in a..Len(t) /\ Len(p) = b - a + 1
        /\ Len(t) \in Nat /\ Len(p) \in Nat
    BY <1>1 DEF PieceAt, Wording
  <1>3. PICK s : s = <<a, b>>
    OBVIOUS
  <1>4. \A k \in a..b : t[k] # "OR"
    <2> TAKE k \in a..b
    <2>1. PICK j \in 1..Len(p) : j = k - a + 1
      <3>1. k - a + 1 \in 1..Len(p)
        BY <1>2
      <3> QED
        BY <3>1
    <2>2. p[j] = t[a + j - 1] /\ a + j - 1 = k
      BY <1>1, <1>2, <2>1 DEF PieceAt
    <2>3. j \in DOMAIN p
      BY <1>2, <2>1 DEF Wording
    <2> QED
      BY <2>2, <2>3 DEF ToSet
  <1>5. s \in Alternatives(t)
    BY <1>1, <1>2, <1>3, <1>4 DEF Alternatives, PieceAt
  <1>6. ASSUME NEW k \in s[1]..s[2], k = s[1] \/ t[k - 1] = "AND"
        PROVE  <<p[1]>> = <<t[k]>>
    <2>1. k = a
      <3>1. CASE k # a
        <4>1. k - 1 \in 1..Len(t)
          BY <1>2, <1>3, <1>6, <3>1
        <4>2. t[k - 1] \in ToSet(t)
          BY <4>1 DEF ToSet, Wording
        <4> QED
          BY <1>3, <1>6, <3>1, <4>2
      <3> QED
        BY <3>1
    <2>2. p[1] = t[a + 1 - 1] /\ a + 1 - 1 = a
      BY <1>1, <1>2 DEF PieceAt
    <2> QED
      BY <2>1, <2>2
  <1> QED
    BY <1>5, <1>6 DEF Suffices

\* What a text is reduced to is enough to comply with.
LEMMA NormaliseSuffices ==
  ASSUME NEW t \in Wording, Normalise(t) # Unknown
  PROVE  Suffices(Normalise(t), t) /\ Normalise(t) \in SpdxIds
  <1>1. PICK f : \A v \in Wording : f[v] = ReduceOf(f, v) /\ Normalise(v) = f[v]
    BY NormaliseUnfolds
  <1>2. Normalise(t) = ReduceOf(f, t) /\ ReduceOf(f, t) # Unknown
    BY <1>1
  <1>3. CASE t \in Aliased /\ ReduceOf(f, t) = t
    BY <1>2, <1>3 DEF Suffices, SpdxIds
  <1>4. CASE /\ "AND" \notin ToSet(t) /\ "OR" \in ToSet(t)
             /\ ReduceOf(f, t) = IF Answering(f, t) = {} THEN Unknown
                                 ELSE f[Split(t, "OR")[Least(Answering(f, t))]]
    <2>1. PICK i : i = Least(Answering(f, t))
      OBVIOUS
    <2>2. Answering(f, t) # {} /\ ReduceOf(f, t) = f[Split(t, "OR")[i]]
      BY <1>2, <1>4, <2>1
    <2>3. i \in DOMAIN Split(t, "OR") /\ Split(t, "OR")[i] # t
      BY <2>1, <2>2, AnswersAre
    <2>4. PICK p : p = Split(t, "OR")[i]
      OBVIOUS
    <2>5. p \in Wording /\ Piece(t, "OR", p)
      BY <2>3, <2>4, AlternativesAreShorter
    <2>6. Normalise(t) = Normalise(p)
      BY <1>1, <1>2, <2>2, <2>4, <2>5
    <2>7. "OR" \notin ToSet(p) /\ "AND" \notin ToSet(p) /\ Normalise(p) # Unknown
      BY <1>2, <1>4, <2>5, <2>6, PiecesArePlain
    <2>8. p[1] \in LicenceNames /\ Normalise(p) = <<p[1]>>
      BY <2>5, <2>7, PlainTexts
    <2>9. Suffices(<<p[1]>>, t)
      BY <1>4, <2>5, <2>7, OneAlternative
    <2> QED
      BY <2>6, <2>8, <2>9 DEF SpdxIds
  <1>5. CASE "AND" \notin ToSet(t) /\ "OR" \notin ToSet(t)
    <2>1. t # <<>> /\ t[1] \in LicenceNames /\ Normalise(t) = <<t[1]>>
      BY <1>5, PlainTexts
    <2>2. Cuts(t, "OR") = {}
      <3>1. \A k \in 2..(Len(t) - 1) : k \in DOMAIN t
        BY DEF Wording
      <3> QED
        BY <1>5, <3>1 DEF Cuts, ToSet
    <2>3. Piece(t, "OR", t)
      BY <2>1, <2>2, WholePiece
    <2>4. Suffices(<<t[1]>>, t)
      BY <1>5, <2>3, OneAlternative
    <2> QED
      BY <2>1, <2>4 DEF SpdxIds
  <1>6. ToSet(t) \intersect Connectives = {"WITH"}
           => "AND" \notin ToSet(t) /\ "OR" \notin ToSet(t)
    BY DEF Connectives
  <1> QED
    BY <1>2, <1>3, <1>4, <1>5, <1>6, ReduceCases, Zenon

-------------------------------------------------------------------------------
\* LicenceLookup: what is kept of the answers.

CacheRows == [id : SpdxIds \union {Unknown}, fresh : BOOLEAN]
Transactions == [Packages -> SUBSET CacheRows]
FoundPairs == SUBSET (Packages \X SpdxIds)

Lookers ==
  [pc : {"idle"}, wrote : Transactions, found : FoundPairs]
    \union [pc : {"ask", "write"}, wrote : Transactions, found : FoundPairs,
            p : Packages, tries : 0..(MaxRetries + 1), id : SpdxIds \union {Unknown}]

\* The packages there is a registry for; and packages with what their registry's answer
\* came to, or nothing.
Able == {p \in Packages : Supported(p)}

RightIds ==
  {c \in Packages \X (SpdxIds \union {Unknown}) :
     c[2] = Unknown \/ (c[1] \in Able /\ c[2] = FetchedFor(c[1]))}

Careful(l, right, able) ==
  /\ l \in Lookers
  /\ \A p \in Packages : \A r \in l.wrote[p] : <<p, r.id>> \in right
  /\ l.found \subseteq right
  /\ l.pc # "idle" => <<l.p, l.id>> \in right
  /\ l.pc = "ask" => l.p \in able /\ l.tries <= MaxRetries

WorldInv ==
  /\ registry \in [Packages -> Registries]
  /\ says \in [Packages -> AllSayings]

LookupInv ==
  /\ WorldInv
  /\ cacheRow \in [Packages -> CacheRows]
  /\ \A p \in Packages : <<p, cacheRow[p].id>> \in RightIds
  /\ concluded \in FoundPairs /\ concluded \subseteq RightIds
  /\ DOMAIN look = Workers
  /\ \A w \in Workers : Careful(look[w], RightIds, Able)

LEMMA UnknownIsNoId == Unknown \notin SpdxIds
  BY DEF SpdxIds, Aliased, Unknown

\* Of no text nothing is made.
LEMMA NothingFromNothing == Normalise(Unknown) = Unknown
  <1>1. Unknown \in Wording /\ Alternatives(Unknown) = {}
    BY DEF Unknown, Wording, Alternatives
  <1> QED
    BY <1>1, NormaliseSuffices DEF Suffices

\* The first of a list, and the first that is not blank, are in it, or there is none.
LEMMA FirstOfList ==
  ASSUME NEW S, NEW list \in Seq(S)
  PROVE  /\ First(list) = Unknown \/ \E i \in DOMAIN list : First(list) = list[i]
         /\ FirstKnown(list) = Unknown \/ \E i \in DOMAIN list : FirstKnown(list) = list[i]
  <1>1. CASE list = <<>>
    <2>1. {i \in DOMAIN list : list[i] # Unknown} = {}
      BY <1>1
    <2> QED
      BY <1>1, <2>1 DEF First, FirstKnown
  <1>2. CASE list # <<>>
    <2>1. First(list) = list[1] /\ 1 \in DOMAIN list
      BY <1>2 DEF First
    <2> DEFINE known == {i \in DOMAIN list : list[i] # Unknown}
    <2>2. known \in SUBSET Nat
      OBVIOUS
    <2>3. known # {} => Least(known) \in known
      BY <2>2, LeastIs
    <2> QED
      BY <2>1, <2>3 DEF FirstKnown
  <1> QED
    BY <1>1, <1>2

\* What is fetched is an SPDX id or none, and enough to comply with for one of the texts,
\* or named by one of the classifiers.
LEMMA FetchedSuffices ==
  ASSUME WorldInv, NEW p \in Packages, Supported(p)
  PROVE  /\ FetchedFor(p) \in SpdxIds \union {Unknown}
         /\ FetchedFor(p) # Unknown =>
              \/ \E i \in DOMAIN says[p].texts : Suffices(FetchedFor(p), says[p].texts[i])
              \/ FetchedFor(p) \in ToSet(says[p].classifiers)
  <1> DEFINE texts == says[p].texts
             classifiers == says[p].classifiers
  <1>1. texts \in Seq(Wording) /\ classifiers \in Seq(SpdxIds \union {Unknown})
    BY DEF WorldInv, AllSayings, Wording
  <1>2. ASSUME NEW t, t = First(texts) \/ t = FirstKnown(texts), Normalise(t) # Unknown
        PROVE  /\ Normalise(t) \in SpdxIds
               /\ \E i \in DOMAIN texts : Suffices(Normalise(t), texts[i])
    <2>1. t # Unknown
      BY <1>2, NothingFromNothing
    <2>2. PICK i \in DOMAIN texts : t = texts[i]
      BY <1>1, <1>2, <2>1, FirstOfList
    <2>3. t \in Wording
      BY <1>1, <2>2
    <2> QED
      BY <1>2, <2>2, <2>3, NormaliseSuffices
  <1>3. ASSUME FirstKnown(classifiers) # Unknown
        PROVE  FirstKnown(classifiers) \in SpdxIds \intersect ToSet(classifiers)
    <2>1. PICK i \in DOMAIN classifiers : FirstKnown(classifiers) = classifiers[i]
      BY <1>1, <1>3, FirstOfList
    <2> QED
      BY <1>1, <1>3, <2>1 DEF ToSet
  <1>4. \/ FetchedFor(p) = Normalise(First(texts))
        \/ FetchedFor(p) = Normalise(FirstKnown(texts))
        \/ FetchedFor(p) = FirstKnown(classifiers) /\ FirstKnown(classifiers) # Unknown
    <2>1. registry[p] \in {"maven", "pypi", "cargo", "golang"}
      BY DEF WorldInv, Registries, Supported
    <2> QED
      BY <2>1 DEF FetchedFor, FromPyPI, FromMaven, FromCrates, FromPkgGo
  <1> HIDE DEF texts, classifiers
  <1>5. CASE FetchedFor(p) = Normalise(First(texts))
    BY <1>2, <1>5 DEF texts
  <1>6. CASE FetchedFor(p) = Normalise(FirstKnown(texts))
    BY <1>2, <1>6 DEF texts
  <1>7. CASE FetchedFor(p) = FirstKnown(classifiers) /\ FirstKnown(classifiers) # Unknown
    BY <1>3, <1>7 DEF classifiers
  <1> QED
    BY <1>4, <1>5, <1>6, <1>7

LEMMA RestingIsCareful ==
  ASSUME NEW right, NEW able
  PROVE  Careful(Resting, right, able)
  <1>1. NoWrites \in Transactions /\ \A p \in Packages : NoWrites[p] = {}
    BY DEF NoWrites, Transactions
  <1>2. Resting \in Lookers
    BY <1>1 DEF Resting, Lookers, FoundPairs
  <1> QED
    BY <1>1, <1>2 DEF Resting, Careful

LEMMA ConcludesIs ==
  ASSUME NEW right, NEW able,
         NEW l, NEW pc, NEW wrote \in Transactions, NEW got \in FoundPairs,
         l = [pc |-> pc, wrote |-> wrote, found |-> got],
         NEW p \in Packages, NEW id \in SpdxIds \union {Unknown},
         <<p, id>> \in right, got \subseteq right,
         \A q \in Packages : \A r \in wrote[q] : <<q, r.id>> \in right
  PROVE  Careful(Concludes(l, p, id), right, able)
  <1>1. PICK more : more = IF id = Unknown THEN l.found ELSE l.found \union {<<p, id>>}
    OBVIOUS
  <1>2. Concludes(l, p, id) = [pc |-> "idle", wrote |-> wrote, found |-> more]
    <2>1. PICK m : m = [l EXCEPT !.pc = "idle"]
      OBVIOUS
    <2>2. m = [pc |-> "idle", wrote |-> wrote, found |-> got]
      BY <2>1
    <2>3. [m EXCEPT !.found = more] = [pc |-> "idle", wrote |-> wrote, found |-> more]
      BY <2>2
    <2>4. Concludes(l, p, id) = [m EXCEPT !.found = more]
      BY <1>1, <2>1, Zenon DEF Concludes
    <2> QED
      BY <2>3, <2>4, Zenon
  <1>3. more \in FoundPairs /\ more \subseteq right
    <2>1. CASE id = Unknown
      BY <1>1, <2>1
    <2>2. CASE id # Unknown
      <3>1. more = got \union {<<p, id>>} /\ id \in SpdxIds
        BY <1>1, <2>2
      <3> QED
        BY <3>1 DEF FoundPairs
    <2> QED
      BY <2>1, <2>2
  <1>4. Concludes(l, p, id) \in Lookers
    BY <1>2, <1>3 DEF Lookers
  <1> QED
    BY <1>2, <1>3, <1>4 DEF Careful

LEMMA SeesRight ==
  ASSUME LookupInv, NEW w \in Workers, NEW p \in Packages
  PROVE  Sees(w, p) \in CacheRows /\ <<p, Sees(w, p).id>> \in RightIds
  <1>1. Careful(look[w], RightIds, Able)
    BY DEF LookupInv
  <1>2. look[w].wrote \in Transactions
    BY <1>1 DEF Careful, Lookers
  <1>3. CASE look[w].wrote[p] = {}
    BY <1>3 DEF Sees, LookupInv
  <1>4. CASE look[w].wrote[p] # {}
    <2>1. Sees(w, p) \in look[w].wrote[p]
      BY <1>4, Zenon DEF Sees
    <2>2. look[w].wrote[p] \subseteq CacheRows
      BY <1>2 DEF Transactions
    <2> QED
      BY <1>1, <2>1, <2>2 DEF Careful
  <1> QED
    BY <1>3, <1>4

LEMMA LookupInvInit ==
  LookupInit(AllSayings) => LookupInv
  <1> SUFFICES ASSUME LookupInit(AllSayings) PROVE LookupInv
    OBVIOUS
  <1>1. WorldInv
    BY DEF LookupInit, WorldInv
  <1>2. /\ cacheRow \in [Packages -> CacheRows]
        /\ \A p \in Packages : <<p, cacheRow[p].id>> \in RightIds
    BY DEF LookupInit, NoRow, CacheRows, RightIds
  <1>3. concluded \in FoundPairs /\ concluded \subseteq RightIds
    BY DEF LookupInit, FoundPairs
  <1>4. DOMAIN look = Workers /\ \A w \in Workers : look[w] = Resting
    BY DEF LookupInit
  <1>5. \A w \in Workers : Careful(look[w], RightIds, Able)
    BY <1>4, RestingIsCareful
  <1> QED
    BY <1>1, <1>2, <1>3, <1>4, <1>5 DEF LookupInv

\* What is right stays so: neither the registries nor what they say changes.
LEMMA RightStays ==
  ASSUME UNCHANGED <<registry, says>>
  PROVE  (WorldInv => WorldInv') /\ RightIds' = RightIds /\ Able' = Able
  <1>1. Able' = Able
    BY DEF Able, Supported
  <1>2. ASSUME NEW p PROVE FetchedFor(p)' = FetchedFor(p)
    BY DEF FetchedFor
  <1>3. RightIds' = RightIds
    BY <1>1, <1>2 DEF RightIds
  <1> QED
    BY <1>1, <1>3 DEF WorldInv

\* A step of one pipeline.
LEMMA OneLooks ==
  ASSUME LookupInv, NEW w \in Workers, NEW l, Does(w, l), Careful(l, RightIds, Able),
         UNCHANGED <<registry, says, cacheRow, concluded>>
  PROVE  LookupInv'
  <1>1. DOMAIN look' = Workers /\ \A v \in Workers : look'[v] = IF v = w THEN l ELSE look[v]
    BY DEF Does, LookupInv
  <1>2. \A v \in Workers : Careful(look'[v], RightIds, Able)
    BY <1>1 DEF LookupInv
  <1>3. WorldInv' /\ RightIds' = RightIds /\ Able' = Able
    BY RightStays DEF LookupInv
  <1> QED
    BY <1>1, <1>2, <1>3 DEF LookupInv

LEMMA LookersAre ==
  ASSUME LookupInv, NEW w \in Workers
  PROVE  /\ look[w] \in Lookers /\ look[w].wrote \in Transactions /\ look[w].found \in FoundPairs
         /\ look[w].found \subseteq RightIds
         /\ \A q \in Packages : \A r \in look[w].wrote[q] : <<q, r.id>> \in RightIds
         /\ look[w].pc = "idle" =>
              look[w] = [pc |-> "idle", wrote |-> look[w].wrote, found |-> look[w].found]
         /\ look[w].pc # "idle" =>
              /\ look[w].p \in Packages /\ look[w].id \in SpdxIds \union {Unknown}
              /\ look[w].tries \in 0..(MaxRetries + 1)
              /\ <<look[w].p, look[w].id>> \in RightIds
              /\ look[w] = [pc |-> look[w].pc, wrote |-> look[w].wrote,
                            found |-> look[w].found, p |-> look[w].p,
                            tries |-> look[w].tries, id |-> look[w].id]
         /\ look[w].pc = "ask" => look[w].p \in Able /\ look[w].tries <= MaxRetries
  <1>1. PICK l : l = look[w]
    OBVIOUS
  <1>2. Careful(l, RightIds, Able)
    BY <1>1 DEF LookupInv
  <1>3. l \in Lookers
    BY <1>2 DEF Careful
  <1>4. l.wrote \in Transactions /\ l.found \in FoundPairs
    BY <1>3 DEF Lookers
  <1>5. l.pc = "idle" => l = [pc |-> "idle", wrote |-> l.wrote, found |-> l.found]
    BY <1>3 DEF Lookers
  <1>6. l.pc # "idle" =>
          /\ l.p \in Packages /\ l.id \in SpdxIds \union {Unknown}
          /\ l.tries \in 0..(MaxRetries + 1)
          /\ l = [pc |-> l.pc, wrote |-> l.wrote, found |-> l.found, p |-> l.p,
                  tries |-> l.tries, id |-> l.id]
    BY <1>3 DEF Lookers
  <1> QED
    BY <1>1, <1>2, <1>3, <1>4, <1>5, <1>6 DEF Careful

LEMMA LookUpKeeps ==
  ASSUME LookupInv, NEW w \in Workers, NEW p \in Packages, LookUp(w, p)
  PROVE  LookupInv'
  <1>1. PICK l : l = look[w]
    OBVIOUS
  <1>2. PICK r : r = Sees(w, p)
    OBVIOUS
  <1>3. /\ l.wrote \in Transactions /\ l.found \in FoundPairs /\ l.found \subseteq RightIds
        /\ \A q \in Packages : \A s \in l.wrote[q] : <<q, s.id>> \in RightIds
        /\ l = [pc |-> "idle", wrote |-> l.wrote, found |-> l.found]
    BY <1>1, LookersAre DEF LookUp
  <1>4. r \in CacheRows /\ <<p, r.id>> \in RightIds
    BY <1>2, SeesRight
  <1>5. CASE r.fresh
    <2>1. r.id \in SpdxIds \union {Unknown}
      BY <1>4 DEF CacheRows
    <2>2. Careful(Concludes(l, p, r.id), RightIds, Able)
      BY <1>3, <1>4, <2>1, ConcludesIs
    <2>3. Does(w, Concludes(l, p, r.id))
      BY <1>1, <1>2, <1>5 DEF LookUp
    <2> QED
      BY <2>2, <2>3, OneLooks DEF LookUp
  <1>6. CASE ~r.fresh
    <2>1. PICK m : m = [pc    |-> IF Supported(p) THEN "ask" ELSE "write",
                        wrote |-> l.wrote,
                        found |-> l.found,
                        p     |-> p, tries |-> 0, id |-> Unknown]
      OBVIOUS
    <2>2. Does(w, m)
      BY <1>1, <1>2, <1>6, <2>1 DEF LookUp
    <2>3. m \in Lookers /\ m.pc # "idle"
      BY <1>3, <2>1, LookupAssumption DEF Lookers
    <2>4. <<m.p, m.id>> \in RightIds
      BY <2>1 DEF RightIds
    <2>5. m.pc = "ask" => m.p \in Able /\ m.tries <= MaxRetries
      BY <2>1, LookupAssumption DEF Able
    <2>6. Careful(m, RightIds, Able)
      BY <1>3, <2>1, <2>3, <2>4, <2>5 DEF Careful
    <2> QED
      BY <2>2, <2>6, OneLooks DEF LookUp
  <1> QED
    BY <1>5, <1>6

LEMMA TwoFieldsSet ==
  ASSUME NEW l, l = [pc |-> l.pc, wrote |-> l.wrote, found |-> l.found, p |-> l.p,
                     tries |-> l.tries, id |-> l.id],
         NEW state, NEW more, NEW answer
  PROVE  /\ [l EXCEPT !.pc = state, !.id = answer]
              = [pc |-> state, wrote |-> l.wrote, found |-> l.found, p |-> l.p,
                 tries |-> l.tries, id |-> answer]
         /\ [l EXCEPT !.tries = more, !.pc = state]
              = [pc |-> state, wrote |-> l.wrote, found |-> l.found, p |-> l.p,
                 tries |-> more, id |-> l.id]
  <1>1. PICK pc, wrote, got, p, tries, id :
          /\ pc = l.pc /\ wrote = l.wrote /\ got = l.found
          /\ p = l.p /\ tries = l.tries /\ id = l.id
    OBVIOUS
  <1>2. l = [pc |-> pc, wrote |-> wrote, found |-> got, p |-> p, tries |-> tries, id |-> id]
    BY <1>1, Zenon
  <1>3. PICK m : m = [l EXCEPT !.pc = state]
    OBVIOUS
  <1>4. m = [pc |-> state, wrote |-> wrote, found |-> got, p |-> p,
             tries |-> tries, id |-> id]
    BY <1>2, <1>3
  <1>5. [m EXCEPT !.id = answer] = [pc |-> state, wrote |-> wrote, found |-> got, p |-> p,
                                    tries |-> tries, id |-> answer]
    BY <1>4
  <1>6. PICK n : n = [l EXCEPT !.tries = more]
    OBVIOUS
  <1>7. n = [pc |-> pc, wrote |-> wrote, found |-> got, p |-> p,
             tries |-> more, id |-> id]
    BY <1>2, <1>6
  <1>8. [n EXCEPT !.pc = state] = [pc |-> state, wrote |-> wrote, found |-> got, p |-> p,
                                   tries |-> more, id |-> id]
    BY <1>7
  <1> QED
    BY <1>1, <1>3, <1>5, <1>6, <1>8, Zenon

LEMMA AskKeeps ==
  ASSUME LookupInv, NEW w \in Workers, AskRegistry(w)
  PROVE  LookupInv'
  <1>1. PICK l : l = look[w]
    OBVIOUS
  <1>2. /\ l.wrote \in Transactions /\ l.found \in FoundPairs /\ l.found \subseteq RightIds
        /\ \A q \in Packages : \A s \in l.wrote[q] : <<q, s.id>> \in RightIds
        /\ l.pc = "ask"
    BY <1>1, LookersAre DEF AskRegistry
  <1>3. /\ l.p \in Packages /\ l.id \in SpdxIds \union {Unknown}
        /\ l.tries \in 0..(MaxRetries + 1) /\ <<l.p, l.id>> \in RightIds
        /\ l = [pc |-> l.pc, wrote |-> l.wrote, found |-> l.found, p |-> l.p,
                tries |-> l.tries, id |-> l.id]
        /\ l.p \in Able /\ l.tries <= MaxRetries
    BY <1>1, <1>2, LookersAre
  <1>4. ASSUME NEW pc \in {"ask", "write"}, NEW tries \in 0..(MaxRetries + 1),
               NEW id \in SpdxIds \union {Unknown},
               <<l.p, id>> \in RightIds, pc = "ask" => tries <= MaxRetries,
               NEW m, m = [pc |-> pc, wrote |-> l.wrote, found |-> l.found, p |-> l.p,
                           tries |-> tries, id |-> id],
               Does(w, m)
        PROVE  LookupInv'
    <2>1. m \in Lookers
      BY <1>2, <1>3, <1>4 DEF Lookers
    <2>2. Careful(m, RightIds, Able)
      BY <1>2, <1>3, <1>4, <2>1 DEF Careful
    <2> QED
      BY <1>4, <2>2, OneLooks DEF AskRegistry
  <1>5. CASE Does(w, [l EXCEPT !.pc = "write", !.id = FetchedFor(l.p)])
    <2>1. PICK id : id = FetchedFor(l.p)
      OBVIOUS
    <2>2. Supported(l.p) /\ WorldInv
      BY <1>3 DEF Able, LookupInv
    <2>3. id \in SpdxIds \union {Unknown} /\ <<l.p, id>> \in RightIds
      BY <1>3, <2>1, <2>2, FetchedSuffices DEF RightIds
    <2>4. PICK m : m = [pc |-> "write", wrote |-> l.wrote, found |-> l.found, p |-> l.p,
                        tries |-> l.tries, id |-> id]
      OBVIOUS
    <2>5. m = [l EXCEPT !.pc = "write", !.id = FetchedFor(l.p)]
      <3>1. m = [l EXCEPT !.pc = "write", !.id = id]
        BY <1>3, <2>4, TwoFieldsSet, Zenon
      <3> QED
        BY <2>1, <3>1, Zenon
    <2>6. Does(w, m)
      BY <1>5, <2>5, Zenon
    <2> QED
      BY <1>3, <1>4, <2>3, <2>4, <2>6
  <1>6. CASE Does(w, [l EXCEPT !.pc = "write"])
    <2>1. PICK m : m = [pc |-> "write", wrote |-> l.wrote, found |-> l.found, p |-> l.p,
                        tries |-> l.tries, id |-> l.id]
      OBVIOUS
    <2>2. m = [l EXCEPT !.pc = "write"]
      BY <1>3, <2>1
    <2>3. Does(w, m)
      BY <1>6, <2>2, Zenon
    <2> QED
      BY <1>3, <1>4, <2>1, <2>3
  <1>7. CASE Does(w, [l EXCEPT !.tries = @ + 1,
                               !.pc = IF l.tries < MaxRetries THEN "ask" ELSE "write"])
    <2>1. PICK pc, tries : /\ pc = (IF l.tries < MaxRetries THEN "ask" ELSE "write")
                           /\ tries = l.tries + 1
      OBVIOUS
    <2>2. PICK m : m = [pc |-> pc, wrote |-> l.wrote, found |-> l.found, p |-> l.p,
                        tries |-> tries, id |-> l.id]
      OBVIOUS
    <2>3. m = [l EXCEPT !.tries = @ + 1,
                        !.pc = IF l.tries < MaxRetries THEN "ask" ELSE "write"]
      <3>1. m = [l EXCEPT !.tries = tries, !.pc = pc]
        BY <1>3, <2>2, TwoFieldsSet, Zenon
      <3> QED
        BY <2>1, <3>1, Zenon
    <2>4. Does(w, m)
      BY <1>7, <2>3, Zenon
    <2>5. /\ pc \in {"ask", "write"} /\ tries \in 0..(MaxRetries + 1)
          /\ pc = "ask" => tries <= MaxRetries
      BY <1>3, <2>1, LookupAssumption
    <2> QED
      BY <1>3, <1>4, <2>2, <2>4, <2>5
  <1> QED
    BY <1>1, <1>5, <1>6, <1>7, Zenon DEF AskRegistry

LEMMA WriteKeeps ==
  ASSUME LookupInv, NEW w \in Workers, Write(w)
  PROVE  LookupInv'
  <1>1. PICK l : l = look[w]
    OBVIOUS
  <1>2. /\ l.wrote \in Transactions /\ l.found \in FoundPairs /\ l.found \subseteq RightIds
        /\ \A q \in Packages : \A s \in l.wrote[q] : <<q, s.id>> \in RightIds
        /\ l.pc = "write"
    BY <1>1, LookersAre DEF Write
  <1>3. /\ l.p \in Packages /\ l.id \in SpdxIds \union {Unknown} /\ <<l.p, l.id>> \in RightIds
    BY <1>1, <1>2, LookersAre
  <1>4. PICK wrote : wrote = [l.wrote EXCEPT ![l.p] = {[id |-> l.id, fresh |-> TRUE]}]
    OBVIOUS
  <1>5. PICK row : row = [id |-> l.id, fresh |-> TRUE]
    OBVIOUS
  <1>6. row \in CacheRows /\ row.id = l.id
    BY <1>3, <1>5 DEF CacheRows
  <1>7. wrote \in Transactions
    BY <1>2, <1>3, <1>4, <1>5, <1>6 DEF Transactions
  <1>8. \A q \in Packages : \A s \in wrote[q] : <<q, s.id>> \in RightIds
    <2> SUFFICES ASSUME NEW q \in Packages, NEW s \in wrote[q] PROVE <<q, s.id>> \in RightIds
      OBVIOUS
    <2>1. CASE q = l.p
      BY <1>2, <1>3, <1>4, <1>5, <1>6, <2>1 DEF Transactions
    <2>2. CASE q # l.p
      <3>1. s \in l.wrote[q]
        BY <1>2, <1>4, <2>2 DEF Transactions
      <3> QED
        BY <1>2, <3>1
    <2> QED
      BY <2>1, <2>2
  <1>9. PICK m : m = [pc |-> "write", wrote |-> wrote, found |-> l.found]
    OBVIOUS
  <1>10. Careful(Concludes(m, l.p, l.id), RightIds, Able)
    BY <1>2, <1>3, <1>7, <1>8, <1>9, ConcludesIs
  <1>11. m = [pc |-> "write", found |-> l.found,
              wrote |-> [l.wrote EXCEPT ![l.p] = {[id |-> l.id, fresh |-> TRUE]}]]
    BY <1>4, <1>9
  <1>12. Does(w, Concludes(m, l.p, l.id))
    BY <1>1, <1>11, Zenon DEF Write
  <1> QED
    BY <1>10, <1>12, OneLooks DEF Write

LEMMA CommitLookupsKeeps ==
  ASSUME LookupInv, NEW w \in Workers, CommitLookups(w)
  PROVE  LookupInv'
  <1>1. WorldInv' /\ RightIds' = RightIds /\ Able' = Able
    BY RightStays DEF LookupInv, CommitLookups
  <1>2. /\ DOMAIN look' = Workers
        /\ \A v \in Workers : look'[v] = IF v = w THEN Resting ELSE look[v]
    BY DEF CommitLookups, Does, LookupInv
  <1>3. \A v \in Workers : Careful(look'[v], RightIds, Able)
    BY <1>2, RestingIsCareful DEF LookupInv
  <1>4. PICK seen : seen = [p \in Packages |-> Sees(w, p)]
    OBVIOUS
  <1>5. seen \in [Packages -> CacheRows] /\ \A p \in Packages : <<p, seen[p].id>> \in RightIds
    BY <1>4, SeesRight
  <1>6. cacheRow' = seen
    BY <1>4 DEF CommitLookups
  <1>7. concluded' \in FoundPairs /\ concluded' \subseteq RightIds
    <2>1. look[w].found \in FoundPairs /\ look[w].found \subseteq RightIds
      BY LookersAre
    <2> QED
      BY <2>1 DEF CommitLookups, LookupInv, FoundPairs
  <1> QED
    BY <1>1, <1>2, <1>3, <1>5, <1>6, <1>7 DEF LookupInv

LEMMA GrowStaleKeeps ==
  ASSUME LookupInv, NEW p \in Packages, GrowStale(p)
  PROVE  LookupInv'
  <1>1. WorldInv' /\ RightIds' = RightIds /\ Able' = Able
    BY RightStays DEF LookupInv, GrowStale
  <1>2. cacheRow' = [cacheRow EXCEPT ![p].fresh = FALSE]
    BY DEF GrowStale
  <1>3. /\ cacheRow' \in [Packages -> CacheRows]
        /\ \A q \in Packages : cacheRow'[q].id = cacheRow[q].id
    BY <1>2 DEF LookupInv, CacheRows
  <1>4. \A q \in Packages : <<q, cacheRow'[q].id>> \in RightIds
    BY <1>3 DEF LookupInv
  <1> QED
    BY <1>1, <1>3, <1>4 DEF LookupInv, GrowStale

LEMMA LookupInvStep == LookupInv /\ [LookupNext]_lookupVars => LookupInv'
  <1> SUFFICES ASSUME LookupInv, [LookupNext]_lookupVars PROVE LookupInv'
    OBVIOUS
  <1>1. CASE UNCHANGED lookupVars
    <2>1. WorldInv' /\ RightIds' = RightIds /\ Able' = Able
      BY <1>1, RightStays DEF LookupInv, lookupVars
    <2> QED
      BY <1>1, <2>1 DEF LookupInv, lookupVars
  <1>2. ASSUME NEW p \in Packages, GrowStale(p) PROVE LookupInv'
    BY <1>2, GrowStaleKeeps
  <1>3. ASSUME NEW w \in Workers, NEW p \in Packages, LookUp(w, p) PROVE LookupInv'
    BY <1>3, LookUpKeeps
  <1>4. ASSUME NEW w \in Workers, AskRegistry(w) PROVE LookupInv'
    BY <1>4, AskKeeps
  <1>5. ASSUME NEW w \in Workers, Write(w) PROVE LookupInv'
    BY <1>5, WriteKeeps
  <1>6. ASSUME NEW w \in Workers, CommitLookups(w) PROVE LookupInv'
    BY <1>6, CommitLookupsKeeps
  <1>7. ASSUME NEW w \in Workers, Forget(w) PROVE LookupInv'
    BY <1>7, RestingIsCareful, OneLooks DEF Forget
  <1> QED
    BY <1>1, <1>2, <1>3, <1>4, <1>5, <1>6, <1>7, Zenon DEF LookupNext

\* The cache, the pipelines and the licences that were concluded keep to their types,
\* whatever the registries answer.
THEOREM LookupTypeCorrect == LookupSpec => []LookupTypeOK
  <1>1. LookupInv => LookupTypeOK
    <2> SUFFICES ASSUME LookupInv PROVE LookupTypeOK
      OBVIOUS
    <2>1. registry \in [Packages -> Registries] /\ concluded \subseteq Packages \X SpdxIds
      BY DEF LookupInv, WorldInv, FoundPairs
    <2>2. \A p \in Packages :
            /\ \A i \in DOMAIN says[p].texts : says[p].texts[i] \in Seq(Words)
            /\ cacheRow[p].id \in SpdxIds \union {Unknown}
      BY DEF LookupInv, WorldInv, AllSayings, CacheRows
    <2>3. ASSUME NEW w \in Workers
          PROVE  /\ look[w].pc \in {"idle", "ask", "write"}
                 /\ look[w].pc # "idle" => look[w].tries \in 0..(MaxRetries + 1)
      <3>1. look[w] \in Lookers
        BY LookersAre
      <3>2. look[w].pc \in {"idle", "ask", "write"}
        BY <3>1 DEF Lookers
      <3> QED
        BY <3>2, LookersAre
    <2> QED
      BY <2>1, <2>2, <2>3 DEF LookupTypeOK
  <1> QED
    BY <1>1, LookupInvInit, LookupInvStep, PTL DEF LookupSpec

\* To comply with the licence that a scan is given for a package is enough for one of the
\* texts that its registry has, whatever that text combines, unless a classifier names the
\* licence: however many texts and classifiers there are, and however look-ups fail, are
\* repeated and share the cache (the fetchers, normalize_spdx_id, _cache_lookup,
\* _cache_write).  Of several texts that all apply it says this of one only.
THEOREM LicenceIsEnough == LookupSpec => []LicenceSuffices
  <1>1. LookupInv => LicenceSuffices
    <2> SUFFICES ASSUME LookupInv, NEW c \in concluded
                 PROVE  \/ \E i \in DOMAIN says[c[1]].texts :
                             Suffices(c[2], says[c[1]].texts[i])
                        \/ c[2] \in ToSet(says[c[1]].classifiers)
      BY DEF LicenceSuffices
    <2>1. c \in Packages \X SpdxIds /\ c \in RightIds
      BY DEF LookupInv, FoundPairs
    <2>2. c[1] \in Able /\ c[2] = FetchedFor(c[1]) /\ c[2] # Unknown
      BY <2>1, UnknownIsNoId DEF RightIds
    <2>3. WorldInv /\ c[1] \in Packages /\ Supported(c[1])
      BY <2>2 DEF LookupInv, Able
    <2> QED
      BY <2>2, <2>3, FetchedSuffices
  <1> QED
    BY <1>1, LookupInvInit, LookupInvStep, PTL DEF LookupSpec

=============================================================================
