------------------------------ MODULE Catalogue ------------------------------
(***************************************************************************)
(* What scans share: the rows of components, licences, vulnerabilities and *)
(* of the licence cache, which every pipeline selects and inserts when it  *)
(* finds none (tasks/scan_source.py, tasks/scan_container.py), and which   *)
(* the resync with Dependency-Track updates (tasks/dt_resync.py).  A       *)
(* pipeline stores its whole report in one transaction, at READ COMMITTED, *)
(* with no savepoint and in the order of the report.  One action is one    *)
(* statement of one transaction; a component and its version, two tables   *)
(* written alike one after the other, are one row.                         *)
(***************************************************************************)
EXTENDS Integers, Sequences, Functions, FiniteSets

CONSTANTS
  Writers,    \* the transactions
  Packages,   \* what an SBOM or an image holds
  Declared,   \* the packages whose SBOM entry names a licence
  Cves,
  Found,      \* <<package, CVE>> that trivy may find in an image
  Nobody

ASSUME CatalogueAssumption ==
  /\ Declared \subseteq Packages
  /\ Found \subseteq Packages \X Cves
  /\ Nobody \notin Writers
  /\ IsFiniteSet(Writers)

VARIABLES
  catalogue,  \* the committed rows of the shared tables
  writing,    \* the rows inserted or updated by a transaction in progress
  rows,       \* the committed rows of each writer's own scan
  tx          \* the transactions

catalogueVars == <<catalogue, writing, rows, tx>>

\* Source scans and container scans name their packages apart.
Shared ==
  ({"source", "container"} \X Packages) \union ({"cache"} \X Packages)
    \union ({"vulnerability"} \X Cves) \union {<<"licence", "spdx">>}

Own == Packages \union Found

\* Statements: get or create, get or create after a licence was found, update or
\* create, refresh in the cache, and insert a row of the scan.
Get(k)      == [op |-> "get", row |-> k]
Conclude(k) == [op |-> "conclude", row |-> k]
Put(k)      == [op |-> "put", row |-> k]
Cache(k)    == [op |-> "cache", row |-> k]
Insert(k)   == [op |-> "insert", row |-> k]

Licence == <<"licence", "spdx">>

\* _persist_components and _persist_component_licenses, for one entry.
SourceEntry(p) ==
  <<Get(<<"source", p>>), Insert(p)>> \o
    (IF p \in Declared THEN <<Get(Licence)>>
                       ELSE <<Cache(<<"cache", p>>), Conclude(Licence)>>)

\* _persist_trivy_report, for one vulnerability.
ImageEntry(e) ==
  <<Get(<<"container", e[1]>>), Insert(e[1]), Get(<<"vulnerability", e[2]>>), Insert(e)>>

\* _upsert_vulnerability.
ResyncEntry(v) == <<Put(<<"vulnerability", v>>)>>

\* A report, or a page, of one or two different entries.
Lists(entries) ==
  entries \union {e[1] \o e[2] : e \in {d \in entries \X entries : d[1] # d[2]}}

Reports ==
  Lists({SourceEntry(p) : p \in Packages}) \union
  Lists({ImageEntry(e) : e \in Found}) \union
  Lists({ResyncEntry(v) : v \in Cves})

NoTx == [pc |-> "idle", report |-> <<>>, todo |-> <<>>, fresh |-> {}, aborted |-> FALSE]

CatalogueInit ==
  /\ catalogue \in {{"source"} \X P : P \in SUBSET Packages}
  /\ writing = [k \in Shared |-> Nobody]
  /\ rows = [w \in Writers |-> {}]
  /\ tx = [w \in Writers |-> NoTx]

-------------------------------------------------------------------------------

\* Helpers: the statement at hand, what it sees, and what becomes of the locks of
\* a transaction that ends.

Now(w) == Head(tx[w].todo)

Sees(w, k) == k \in catalogue \/ writing[k] = w

\* The end of the statement, in a report that goes on.
Done(w) == [tx[w] EXCEPT !.pc = "at", !.todo = Tail(@)]

GiveUp(w) == writing' = [k \in Shared |-> IF writing[k] = w THEN Nobody ELSE writing[k]]

\* The owner of the row that a transaction waits for.
WaitsFor(w) == IF tx[w].pc \in {"insert", "update"} THEN writing[Now(w).row] ELSE Nobody

Waits(w) == WaitsFor(w) \notin {Nobody, w}

\* Transactions wait for each other in a circle, and w among them.
InCircle(w) ==
  \E S \in SUBSET {q \in Writers : Waits(q)} : w \in S /\ {WaitsFor(q) : q \in S} = S

InProgress(w) == tx[w].pc \in {"at", "insert", "update"}

\* Wrong on purpose: the session stays open after an error.
FailInOpenSession(w) ==
  /\ tx' = [tx EXCEPT ![w].pc = "failed"]
  /\ UNCHANGED <<catalogue, writing, rows>>

\* The error reaches the task: the session is closed, the transaction rolled
\* back, and the scan marked failed in another session.
Fail(w) ==
  /\ tx' = [tx EXCEPT ![w].pc = "failed"]
  /\ GiveUp(w)
  /\ UNCHANGED <<catalogue, rows>>

-------------------------------------------------------------------------------

\* The scanner or the page of DT is done, and a session is opened.
Begin(w, report) ==
  /\ tx[w].pc = "idle"
  /\ tx' = [tx EXCEPT ![w].pc = "at", ![w].report = report, ![w].todo = report]
  /\ UNCHANGED <<catalogue, writing, rows>>

\* A row of the scan itself, with its unique key.
AddRow(w) ==
  /\ tx[w].pc = "at"
  /\ tx[w].todo # <<>>
  /\ Now(w).op = "insert"
  /\ IF tx[w].aborted \/ Now(w).row \in tx[w].fresh
     THEN Fail(w)
     ELSE /\ tx' = [tx EXCEPT ![w].todo = Tail(@), ![w].fresh = @ \union {Now(w).row}]
          /\ UNCHANGED <<catalogue, writing, rows>>

\* No SELECT: the registry knows no licence, or nothing there is a known one.
NoLicence(w) ==
  /\ tx[w].pc = "at"
  /\ tx[w].todo # <<>>
  /\ Now(w).op = "conclude"
  /\ tx' = [tx EXCEPT ![w] = Done(w)]
  /\ UNCHANGED <<catalogue, writing, rows>>

\* Where the SELECT before a write leads to: a row that is there is used, and one
\* of the cache may be too old; one of DT's is updated.
After(w, fresh) ==
  LET found == Sees(w, Now(w).row)
      used == found /\ (Now(w).op = "cache" => fresh) /\ Now(w).op # "put"
      updated == Now(w).op = "cache" \/ (Now(w).op = "put" /\ found)
  IN  IF used THEN Done(w) ELSE [tx[w] EXCEPT !.pc = IF updated THEN "update" ELSE "insert"]

Select(w, fresh) ==
  /\ tx[w].pc = "at"
  /\ tx[w].todo # <<>>
  /\ Now(w).op # "insert"
  /\ IF tx[w].aborted
     THEN Fail(w)
     ELSE /\ tx' = [tx EXCEPT ![w] = After(w, fresh)]
          /\ UNCHANGED <<catalogue, writing, rows>>

\* INSERT, when no transaction in progress has the row: it is refused when one
\* committed it since the SELECT.
InsertShared(w) ==
  /\ tx[w].pc = "insert"
  /\ ~Waits(w)
  /\ IF Now(w).row \in catalogue
     THEN Fail(w)
     ELSE /\ writing' = [writing EXCEPT ![Now(w).row] = w]
          /\ tx' = [tx EXCEPT ![w] = Done(w)]
          /\ UNCHANGED <<catalogue, rows>>

\* Wrong on purpose: the licence fetcher commits what it cached.
CacheAndCommit(w) ==
  /\ tx[w].pc = "update"
  /\ ~Waits(w)
  /\ catalogue' = catalogue \union {Now(w).row} \union {k \in Shared : writing[k] = w}
  /\ rows' = [rows EXCEPT ![w] = @ \union tx[w].fresh]
  /\ GiveUp(w)
  /\ tx' = [tx EXCEPT ![w] = Done(w)]

\* UPDATE, or INSERT ON CONFLICT DO UPDATE.
Upsert(w) ==
  /\ tx[w].pc = "update"
  /\ ~Waits(w)
  /\ writing' = [writing EXCEPT ![Now(w).row] = w]
  /\ tx' = [tx EXCEPT ![w] = Done(w)]
  /\ UNCHANGED <<catalogue, rows>>

\* PostgreSQL aborts one of the transactions that wait for each other.  The error
\* of a write to the licence cache is logged, and the report goes on.
BreakDeadlock(w) ==
  /\ InCircle(w)
  /\ IF Now(w).op = "cache"
     THEN /\ tx' = [tx EXCEPT ![w].pc = "at", ![w].aborted = TRUE,
                              ![w].todo = SubSeq(@, 3, Len(@))]
          /\ GiveUp(w)
          /\ UNCHANGED <<catalogue, rows>>
     ELSE Fail(w)

\* The server answers COMMIT of an aborted transaction with ROLLBACK, which the
\* driver takes for an answer like any other.
Commit(w) ==
  /\ tx[w].pc = "at"
  /\ tx[w].todo = <<>>
  /\ IF tx[w].aborted
     THEN UNCHANGED <<catalogue, rows>>
     ELSE /\ catalogue' = catalogue \union {k \in Shared : writing[k] = w}
          /\ rows' = [rows EXCEPT ![w] = tx[w].fresh]
  /\ tx' = [tx EXCEPT ![w].pc = "committed"]
  /\ GiveUp(w)

\* The worker is lost, and its connection with it.
LoseWriter(w) ==
  /\ InProgress(w)
  /\ Fail(w)

Statement(w) ==
  \/ AddRow(w) \/ NoLicence(w) \/ InsertShared(w) \/ Upsert(w) \/ BreakDeadlock(w) \/ Commit(w)
  \/ \E fresh \in BOOLEAN : Select(w, fresh)

CatalogueNext ==
  \E w \in Writers :
    \/ \E report \in Reports : Begin(w, report)
    \/ Statement(w) \/ LoseWriter(w)

\* Workers and the database go on; the detector of deadlocks runs in every
\* session that waits.
CatalogueFairness == \A w \in Writers : WF_catalogueVars(Statement(w))

CatalogueSpec == CatalogueInit /\ [][CatalogueNext]_catalogueVars /\ CatalogueFairness

(***************************************************************************)
(* Properties.                                                             *)
(***************************************************************************)

Statements ==
  [op : {"get", "conclude", "put", "cache"}, row : Shared] \union [op : {"insert"}, row : Own]

Transactions ==
  [pc      : {"idle", "at", "insert", "update", "failed", "committed"},
   report  : Seq(Statements),
   todo    : Seq(Statements),
   fresh   : SUBSET Own,
   aborted : BOOLEAN]

\* The variables stay in their domains.
CatalogueTypeOK ==
  /\ catalogue \subseteq Shared
  /\ writing \in [Shared -> Writers \union {Nobody}]
  /\ rows \in [Writers -> SUBSET Own]
  /\ tx \in [Writers -> Transactions]

\* What a report has to leave behind.
OwnRows(report) == {s.row : s \in {q \in Range(report) : q.op = "insert"}}
Needed(report) == {s.row : s \in {q \in Range(report) : q.op \in {"get", "put"}}}

\* A scan shows all of its report, with every shared row it refers to, or none of
\* it: a transaction that failed half way, by a row that another scan inserted, by
\* a deadlock or a lost worker, leaves nothing behind.
AllOrNothing ==
  \A w \in Writers : rows[w] # {} =>
    /\ tx[w].pc = "committed"
    /\ rows[w] = OwnRows(tx[w].report)
    /\ Needed(tx[w].report) \subseteq catalogue

\* Among the transactions in progress, and all that they wait for, there is one that
\* can go on: it waits for none, or the server finds the circle that it waits in.
\* Whoever is waited for will end, and gives up its rows when it does.
SomeoneGoesOn ==
  \A S \in SUBSET Writers :
    (\E w \in S : InProgress(w)) /\ (\A w \in S : Waits(w) => WaitsFor(w) \in S)
      => \E w \in S : InProgress(w) /\ (Waits(w) => InCircle(w))

\* What a transaction has yet to do: two steps for a statement, one after its SELECT.
ToDo(w) ==
  IF ~InProgress(w) THEN 0
  ELSE IF tx[w].pc = "at" THEN 2 * Len(tx[w].todo) + 1 ELSE 2 * Len(tx[w].todo)

\* A transaction in progress comes closer to its end with each step, an error or the
\* report that goes on after one included.
StatementsRunOut ==
  [][\A w \in Writers : InProgress(w) /\ tx'[w] # tx[w] => ToDo(w)' < ToDo(w)]_catalogueVars

\* No pipeline waits for another for good, whatever the order of their reports
\* and however the other one ends.
PipelinesEnd ==
  \A w \in Writers : tx[w].pc = "at" ~> tx[w].pc \in {"failed", "committed"}

\* A pipeline that went on after its commit has stored its components: an error of
\* the licence cache costs it nothing else.
CommittedIsStored ==
  \A w \in Writers :
    tx[w].pc = "committed" => rows[w] = OwnRows(tx[w].report)
===============================================================================
