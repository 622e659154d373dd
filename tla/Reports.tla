-------------------------------- MODULE Reports --------------------------------
(***************************************************************************)
(* What the portal tells of a project: the tabs of its page                *)
(* (services/project_detail_service.py, license_service.py,                *)
(* obligation_service.py, vulnerability_service.py), the NOTICE, the SBOM  *)
(* (services/sbom_export.py) and the numbers of the comment on a pull      *)
(* request (api/v1/policy_gate.py).  Every report is a few queries, each   *)
(* with a snapshot of its own, over rows that a scan stores in two         *)
(* transactions and deletes when it is executed again.  The tabs and the   *)
(* NOTICE read projects.latest_scan_id, the SBOM and the comment the       *)
(* latest scan that succeeded.  A tab is read between two commits, an      *)
(* export while scans go on.                                               *)
(***************************************************************************)
EXTENDS Naturals, Sequences, FiniteSets

CONSTANTS
  ProjectScans, \* numbers, in the order of created_at
  Components,   \* numbers, in the order of name and id
  Licences, Forbidden, Permitted, \* by category; the others are 'unknown'
  Obliged,      \* the licences with an obligation in the catalogue
  Cves, Critical, Unrated,        \* by severity; the others are 'info'
  DrawerCap                       \* _AFFECTED_COMPONENTS_CAP

ASSUME ReportsAssumption ==
  /\ ProjectScans \subseteq Nat \ {0} /\ Components \subseteq Nat /\ DrawerCap \in Nat
  /\ IsFiniteSet(ProjectScans) /\ IsFiniteSet(Components) /\ IsFiniteSet(Cves)
  /\ IsFiniteSet(Licences)
  /\ Forbidden \intersect Permitted = {} /\ Critical \intersect Unrated = {}

VARIABLES
  outcome,  \* scans.status of each scan
  found,    \* what the tools find in each scan (the SBOM, and what DT answers)
  stored,   \* scan_components, license_findings, vulnerability_findings
  pointer,  \* projects.latest_scan_id, 0 when null
  visit     \* the export that is being made, how many queries it has asked, and the answers

scanVars == <<outcome, found, stored, pointer>>
reportVars == <<scanVars, visit>>

Nothing == [components |-> {}, licences |-> {}, findings |-> {}]

Inventories ==
  {r \in [components : SUBSET Components,
          licences   : SUBSET (Components \X Licences),
          findings   : SUBSET (Components \X Cves)] :
     \A pair \in r.licences \union r.findings : pair[1] \in r.components}

NoVisit == [kind |-> "none"]

\* _SEVERITY_RANK and _LICENSE_CATEGORY_RANK: an unrated CVE counts as 'info'.
\* 'low', 'medium', 'high' and 'conditional' lie between and are left out.
SeverityRank == [none |-> 0, info |-> 1, unknown |-> 1, critical |-> 5]
CategoryRank == [unknown |-> 0, allowed |-> 1, forbidden |-> 3]

Severity(v) ==
  IF v \in Critical THEN "critical" ELSE IF v \in Unrated THEN "unknown" ELSE "info"

\* _classify_license_category.
Category(l) ==
  IF l \in Forbidden THEN "forbidden" ELSE IF l \in Permitted THEN "allowed" ELSE "unknown"

Of(pairs, c) == {x[2] : x \in {y \in pairs : y[1] = c}}
With(pairs, x) == {y[1] : y \in {z \in pairs : z[2] = x}}

\* COALESCE(MAX(rank), 0).
Highest(ranks) == CHOOSE n \in ranks \union {0} : \A m \in ranks : m <= n

WorstSeverity(r, c) == Highest({SeverityRank[Severity(v)] : v \in Of(r.findings, c)})
WorstCategory(r, c) == Highest({CategoryRank[Category(l)] : l \in Of(r.licences, c)})

-------------------------------------------------------------------------------

InFlight == {s \in ProjectScans : outcome[s] \in {"queued", "running"}}
Successes == {s \in ProjectScans : outcome[s] = "succeeded"}
AtWork(s) == outcome[s] \in {"running", "cancelled"}

\* _load_latest_succeeded_scan: by created_at.
LatestSuccess ==
  IF Successes = {} THEN 0 ELSE CHOOSE s \in Successes : \A t \in Successes : t <= s

ReportInit ==
  /\ outcome = [s \in ProjectScans |-> "none"]
  /\ found \in [ProjectScans -> Inventories]
  /\ stored = [s \in ProjectScans |-> Nothing]
  /\ pointer = 0
  /\ visit = NoVisit

\* trigger_scan: the pointer moves with the INSERT, before anything is stored.
ScanQueued(s) ==
  /\ outcome[s] = "none" /\ InFlight = {}
  /\ \A t \in ProjectScans : t < s => outcome[t] # "none"
  /\ outcome' = [outcome EXCEPT ![s] = "queued"]
  /\ pointer' = s
  /\ UNCHANGED <<visit, found, stored>>

\* Wrong on purpose: a scan that succeeded is not skipped.
ScanStartsAnew(s) ==
  /\ outcome[s] # "none" /\ InFlight \subseteq {s}
  /\ outcome' = [outcome EXCEPT ![s] = "running"]
  /\ stored' = [stored EXCEPT ![s] = Nothing]
  /\ UNCHANGED <<visit, found, pointer>>

\* An execution, the first or a later one: _reset_scan_for_rerun, and later the
\* tools.  A delivery that overlaps another one is left out.
ScanStarts(s) ==
  /\ outcome[s] \in {"queued", "running", "failed", "cancelled"} /\ InFlight \subseteq {s}
  /\ outcome' = [outcome EXCEPT ![s] = "running"]
  /\ stored' = [stored EXCEPT ![s] = Nothing]
  /\ UNCHANGED <<visit, found, pointer>>

\* _persist_components, with the licences.  An execution does not read the status:
\* one that is cancelled goes on until the revoke reaches it.
ComponentsStored(s) ==
  /\ AtWork(s) /\ stored[s] = Nothing
  /\ stored' = [stored EXCEPT ![s] = [found[s] EXCEPT !.findings = {}]]
  /\ UNCHANGED <<visit, outcome, found, pointer>>

\* _persist_findings, of what DT answered.
FindingsStored(s) ==
  /\ AtWork(s)
  /\ stored[s] # found[s] /\ stored[s].components = found[s].components
  /\ stored' = [stored EXCEPT ![s] = found[s]]
  /\ UNCHANGED <<visit, outcome, found, pointer>>

\* _mark_succeeded.
ScanSucceeds(s) ==
  /\ AtWork(s) /\ stored[s] = found[s]
  /\ outcome' = [outcome EXCEPT ![s] = "succeeded"]
  /\ UNCHANGED <<visit, found, stored, pointer>>

\* _record_terminal_failure: what is stored stays.
ScanFails(s) ==
  /\ s \in InFlight \/ AtWork(s)
  /\ outcome' = [outcome EXCEPT ![s] = "failed"]
  /\ UNCHANGED <<visit, found, stored, pointer>>

\* Wrong on purpose: a scan that has ended is cancelled too.
ScanCancelledLate(s) ==
  /\ outcome[s] # "none"
  /\ outcome' = [outcome EXCEPT ![s] = "cancelled"]
  /\ UNCHANGED <<visit, found, stored, pointer>>

\* cancel_scan.
ScanCancelled(s) ==
  /\ s \in InFlight
  /\ outcome' = [outcome EXCEPT ![s] = "cancelled"]
  /\ UNCHANGED <<visit, found, stored, pointer>>

-------------------------------------------------------------------------------

\* The components of r in worst class n, and the keys of a distribution.
InSeverity(r, n) == {c \in r.components : WorstSeverity(r, c) = n}
InCategory(r, n) == {c \in r.components : WorstCategory(r, c) = n}

\* get_project_overview: components by their worst finding.
Overview(r) ==
  [total      |-> Cardinality(r.components),
   severities |-> [k \in {"critical", "info", "none"} |->
                     Cardinality(InSeverity(r, SeverityRank[k]))],
   categories |-> [k \in DOMAIN CategoryRank |->
                     Cardinality(InCategory(r, CategoryRank[k]))]]

\* list_components_for_project: the count of rows under each filter.
Totals(r) ==
  [severities |-> [k \in DOMAIN SeverityRank |->
                     Cardinality(InSeverity(r, SeverityRank[k]))],
   categories |-> [k \in DOMAIN CategoryRank |->
                     Cardinality(InCategory(r, CategoryRank[k]))]]

\* Wrong on purpose: ORDER BY severity alone.
PrecedesBySeverity(r, c, d) == c # d /\ WorstSeverity(r, c) >= WorstSeverity(r, d)

\* ORDER BY severity DESC, name, id.
Precedes(r, c, d) ==
  \/ WorstSeverity(r, c) > WorstSeverity(r, d)
  \/ WorstSeverity(r, c) = WorstSeverity(r, d) /\ c < d

\* The orders the database may return the rows in.
Orders(r) ==
  {q \in [1 .. Cardinality(r.components) -> r.components] :
     \A i, j \in DOMAIN q : i < j => Precedes(r, q[i], q[j])}

\* The rows of a page with limit 1.
Pages(r, offset) == {{q[i] : i \in DOMAIN q \intersect {offset + 1}} : q \in Orders(r)}

\* The drawer of each component of a page: get_component_detail, which of the
\* projects' current scans takes the latest with the component; here of one project.
Drawers(r, page) ==
  [c \in page \intersect r.components |->
     [severity |-> WorstSeverity(r, c), category |-> WorstCategory(r, c),
      cves     |-> Of(r.findings, c)]]

\* list_project_vulnerabilities: a row for each finding, with the number of
\* components that have its CVE.
FindingRows(r) == [f \in r.findings |-> Cardinality(With(r.findings, f[2]))]

\* list_project_licenses: the components that have each licence.
LicenceRows(r) ==
  [l \in {x[2] : x \in r.licences} |-> Cardinality(With(r.licences, l))]

\* _compute_distribution: a component counts in every category it has.
LicenceChart(r) ==
  [k \in DOMAIN CategoryRank |->
     Cardinality({c \in Components : \E l \in Of(r.licences, c) : Category(l) = k})]

\* list_project_obligations: the obligations of the licences of the scan.
DutyRows(r) ==
  [l \in {x[2] : x \in r.licences} \intersect Obliged |->
     Cardinality(With(r.licences, l))]

\* _load_affected_components: the first rows in the order of name, up to the cap,
\* and how many there are in all.  A component has a licence under one kind: what
\* it declares, or what a registry says when it declares none.
Affected(affected) ==
  [items     |-> {c \in affected : Cardinality({d \in affected : d < c}) < DrawerCap},
   total     |-> Cardinality(affected),
   truncated |-> Cardinality(affected) > DrawerCap]

\* get_license_finding_detail, opened from a row of the licence tab: the scan and
\* the licence are those of the finding.
LicenceDrawers(r) == [x \in r.licences |-> Affected(With(r.licences, x[2]))]

\* get_obligation_detail: an obligation whose licence the current scan does not
\* have is not found.
DutyDrawers(r) ==
  [l \in {m \in Obliged : With(r.licences, m) # {}} |-> Affected(With(r.licences, l))]

\* _compute_kind_distribution.
DutyChart(r) == Cardinality({x[2] : x \in r.licences} \intersect Obliged)

\* _load_notice_data, its first trip: the components of each licence.
Credits(r) == [l \in {x[2] : x \in r.licences} |-> With(r.licences, l)]

\* Its second: the obligations of the licences of the first.
Duties(credits) == DOMAIN credits \intersect Obliged

\* _render_notice: a section for each licence of the first trip, with the obligations
\* the second found for it.
Printed(credits, duties) ==
  [l \in DOMAIN credits |-> [components |-> credits[l], obliged |-> l \in duties]]

\* _load_scan_components, and what the serializers of the two families write.
CycloneDx(r) == r.components
Spdx(r) == r.components

\* evaluate_gate and _build_summary_for_scan; every finding is still open.  Of the
\* buckets the comment prints, the one that has a part in the verdict.
CriticalCount(r) == Cardinality({f \in r.findings : f[2] \in Critical})
BlockedCount(r) ==
  Cardinality({c \in Components : Of(r.licences, c) \intersect Forbidden # {}})
OpenBySeverity(r) ==
  [critical |-> Cardinality({f \in r.findings : Severity(f[2]) = "critical"})]

\* The exports, and the queries of each.
Queries ==
  [notice |-> <<"credits", "duties">>, cyclonedx |-> <<"packages">>, spdx |-> <<"packages">>,
   comment |-> <<"critical", "blocked", "count", "severities", "chart">>]

\* What a query answers when it finds the rows r, after the answers got.
Answer(kind, query, r, got) ==
  CASE query = "credits"    -> Credits(r)
    [] query = "duties"     -> Duties(got.credits)
    [] query = "packages"   -> IF kind = "spdx" THEN Spdx(r) ELSE CycloneDx(r)
    [] query = "critical"   -> CriticalCount(r)
    [] query = "blocked"    -> BlockedCount(r)
    [] query = "count"      -> Cardinality(r.components)
    [] query = "severities" -> OpenBySeverity(r)
    [] query = "chart"      -> LicenceChart(r)

\* The rows of the scan a request chose; none without a scan.
RowsOf(s) == IF s = 0 THEN Nothing ELSE stored[s]

\* A request arrives and reads the project's pointer, or looks for the latest
\* scan that succeeded.
Begin(kind) ==
  /\ visit = NoVisit
  /\ visit' = [kind  |-> kind,
               s     |-> IF kind = "notice" THEN pointer ELSE LatestSuccess,
               asked |-> 0,
               got   |-> [query \in {} |-> 0]]
  /\ UNCHANGED scanVars

Complete ==
  visit # NoVisit /\ visit.asked = Len(Queries[visit.kind])

\* The next query.
Ask ==
  /\ visit # NoVisit /\ ~Complete
  /\ LET query == Queries[visit.kind][visit.asked + 1] IN
       visit' = [visit EXCEPT
         !.asked = @ + 1,
         !.got = [q \in DOMAIN @ \union {query} |->
                    IF q = query THEN Answer(visit.kind, query, RowsOf(visit.s), @) ELSE @[q]]]
  /\ UNCHANGED scanVars

\* The response is out.
Respond ==
  /\ Complete
  /\ visit' = NoVisit
  /\ UNCHANGED scanVars

ReportNext ==
  \/ \E s \in ProjectScans :
       \/ ScanQueued(s) \/ ScanStarts(s) \/ ComponentsStored(s) \/ FindingsStored(s)
       \/ ScanSucceeds(s) \/ ScanFails(s) \/ ScanCancelled(s)
  \/ \E kind \in DOMAIN Queries : Begin(kind)
  \/ Ask \/ Respond

ReportSpec == ReportInit /\ [][ReportNext]_reportVars

-------------------------------------------------------------------------------
(***************************************************************************)
(* Properties.                                                             *)
(***************************************************************************)

\* The variables stay in their domains.
ReportTypeOK ==
  /\ outcome \in [ProjectScans ->
                  {"none", "queued", "running", "succeeded", "failed", "cancelled"}]
  /\ found \in [ProjectScans -> Inventories] /\ stored \in [ProjectScans -> Inventories]
  /\ pointer \in ProjectScans \union {0}
  /\ visit # NoVisit => visit.s \in ProjectScans \union {0}

AtMostTwo(n) == IF n < 2 THEN n ELSE 2

\* The tabs of a project count the same components by worst severity and by worst
\* category, in the chart, under each filter and in the drawers; and two pages of
\* the list, each in an order of its own, are disjoint and leave nobody out.
TabsAgree(r) ==
  LET chart == Overview(r)
      totals == Totals(r) IN
  /\ chart.total = chart.severities.critical + chart.severities.info + chart.severities.none
  /\ \A k \in DOMAIN chart.severities : totals.severities[k] = chart.severities[k]
  /\ totals.categories = chart.categories
  /\ \A first \in Pages(r, 0), second \in Pages(r, 1) :
       /\ first \intersect second = {}
       /\ Cardinality(first \union second) = AtMostTwo(chart.total)
  /\ LET drawers == Drawers(r, r.components) IN
       /\ \A k \in DOMAIN chart.severities :
            chart.severities[k] =
              Cardinality({c \in DOMAIN drawers : drawers[c].severity = SeverityRank[k]})
       /\ \A f \in DOMAIN FindingRows(r) :
            FindingRows(r)[f] = Cardinality({c \in DOMAIN drawers : f[2] \in drawers[c].cves})

\* The licence tab, the obligations tab and the NOTICE speak of the same licences
\* and components; a category that is a component's worst in the Overview is at
\* least as tall in the licence chart, and the forbidden bars are equal; the drawer
\* of a row counts its components and is cut short exactly when some are missing.
LicencesAgree(r) ==
  LET chart == Overview(r).categories
      bars == LicenceChart(r)
      rows == LicenceRows(r)
      duties == DutyRows(r)
      credits == Credits(r)
      drawers == LicenceDrawers(r)
      dutyDrawers == DutyDrawers(r) IN
  /\ \A k \in DOMAIN chart \ {"unknown"} : bars[k] >= chart[k]
  /\ bars.forbidden = chart.forbidden
  /\ rows = [l \in DOMAIN credits |-> Cardinality(credits[l])]
  /\ \A l \in DOMAIN rows : bars[Category(l)] >= rows[l]
  /\ DOMAIN duties = Duties(credits) /\ DutyChart(r) = Cardinality(DOMAIN duties)
  /\ \A l \in DOMAIN duties : duties[l] = rows[l]
  /\ \A x \in DOMAIN drawers :
       /\ drawers[x].total = rows[x[2]]
       /\ drawers[x].truncated <=> drawers[x].items # credits[x[2]]
  /\ DOMAIN dutyDrawers = DOMAIN duties
  /\ \A l \in DOMAIN dutyDrawers :
       /\ dutyDrawers[l].total = duties[l]
       /\ \A x \in DOMAIN drawers : x[2] = l => drawers[x] = dutyDrawers[l]

\* The SBOM is the same list of components in every format; the comment gives the
\* reasons of its verdict in its own numbers; and, read of the same scan, both
\* agree with the tabs.
ExportsAgree(r) ==
  LET chart == Overview(r) IN
  /\ Spdx(r) = CycloneDx(r) /\ Cardinality(Spdx(r)) = chart.total
  /\ CriticalCount(r) > 0 <=> OpenBySeverity(r).critical > 0
  /\ CriticalCount(r) > 0 <=> chart.severities.critical > 0
  /\ BlockedCount(r) = LicenceChart(r).forbidden
  /\ BlockedCount(r) = chart.categories.forbidden

\* Reports that a user reads one after the other, between two commits of a scan,
\* agree with each other, also while the scan runs and when it has failed.  (A
\* project with no scan has nothing to report.)
ReportsAgree ==
  \A s \in {pointer, LatestSuccess} \ {0} :
    TabsAgree(RowsOf(s)) /\ LicencesAgree(RowsOf(s)) /\ ExportsAgree(RowsOf(s))

\* Whatever scans commit while it is being made, an SBOM lists all the components
\* that its scan found, a comment has the numbers of one whole scan, and a NOTICE
\* credits every component under every licence of its scan, with the licence's
\* obligations, or none at all.
ExportsAreWhole ==
  LET got == visit.got
      all == found[visit.s] IN
  Complete /\ visit.s # 0 =>
    /\ visit.kind \in {"cyclonedx", "spdx"} => got.packages = all.components
    /\ visit.kind = "comment" =>
         /\ got.count = Cardinality(all.components)
         /\ got.critical = CriticalCount(all) /\ got.severities.critical = got.critical
         /\ got.blocked = BlockedCount(all) /\ got.chart.forbidden = got.blocked
    /\ visit.kind = "notice" =>
         Printed(got.credits, got.duties) \in
           {Printed(Credits(r), Duties(Credits(r))) : r \in {Nothing, all}}

TheProject == "the project"

ReportBoard ==
  INSTANCE ScanBoard WITH
    Scans <- ProjectScans, NoScan <- 0, Projects <- {TheProject},
    ProjectOf <- [s \in ProjectScans |-> TheProject],
    status <- outcome, latest <- [p \in {TheProject} |-> pointer]

\* The scans whose rows the reports read, with the pointer of their project, change
\* as the board of ScanBoard does: as those that the workers execute (ScanLifecycle)
\* and those that a push starts (Deliveries).
ReportsKeepBoard == ReportBoard!Spec

\* sbom.md:11: SBOMs and the NOTICE are generated "from the latest successful scan".
NoticeFollowsSuccess ==
  [][visit = NoVisit /\ visit' # NoVisit /\ visit'.kind = "notice" /\ Successes # {}
       => visit'.s = LatestSuccess]_reportVars
===============================================================================
