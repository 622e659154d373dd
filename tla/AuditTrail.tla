------------------------------ MODULE AuditTrail ------------------------------
(***************************************************************************)
(* The rows of projects, the audit rows written with them, and the export  *)
(* of those (services/project_service, the listener of core/audit,         *)
(* services/admin_audit_service and their endpoints).                      *)
(*                                                                         *)
(* A request reads the row it changes without a lock and writes, when it   *)
(* commits, the columns that it changed; the listener adds a row to        *)
(* audit_logs with the same columns, in the same transaction.  Requests    *)
(* overlap.  An audit row carries the time at which its transaction began  *)
(* (now() of PostgreSQL), so rows may become visible in another order than *)
(* that of their times.  An export counts the rows and then reads them     *)
(* chunk by chunk, the latest first, each chunk in a statement of its own, *)
(* while others commit.                                                    *)
(*                                                                         *)
(* A project is known by its team and slug, which are unique and which     *)
(* nothing changes.  Left out: who may make a request (a refused one       *)
(* changes nothing), the other filters, and what masking leaves of a value.*)
(***************************************************************************)
EXTENDS Portal, FiniteSets, Naturals

CONSTANTS
  Slugs,      \* (team_id, slug)
  Texts,      \* what the columns hold
  MaxWrites,  \* a bound: the transactions that write
  Chunk,      \* _CSV_STREAM_CHUNK_ROWS
  Limit       \* _CSV_EXPORT_HARD_LIMIT

ASSUME AuditAssumption ==
  MaxWrites \in Nat /\ Limit \in Nat /\ Chunk \in Nat \ {0}

VARIABLES
  project,   \* the rows of projects
  trail,     \* the rows of audit_logs, by the time their transactions began
  ticks,     \* the time
  commits,   \* how many transactions have committed
  preq,      \* the request in each slot
  export     \* an export

auditVars == <<project, trail, ticks, commits, preq, export>>

Columns == {"name", "description", "archived_at"}
Patched == {"name", "description"}

Times == 1..MaxWrites

NoProject == [c \in Columns |-> "none"]
NoEntry == [action |-> "none"]
NoExport == [pc |-> "none"]

AuditInit ==
  /\ project = [s \in Slugs |-> NoProject]
  /\ trail = [t \in Times |-> NoEntry]
  /\ ticks = 0 /\ commits = 0
  /\ preq = [c \in Requests |-> Idle]
  /\ export = NoExport

There(s) == project[s] # NoProject

(***************************************************************************)
(* Requests for projects.  That the user is loaded a statement earlier is  *)
(* left out: the order of times and commits is any in either case.         *)
(***************************************************************************)

\* A transaction begins, with its first statement.
Begins(c, r) ==
  /\ preq[c] = Idle
  /\ ticks < MaxWrites
  /\ ticks' = ticks + 1
  /\ preq' = [preq EXCEPT ![c] = [pc |-> r.pc, at |-> ticks + 1, of |-> r.of,
                                  read |-> project[r.of], sets |-> r.sets]]
  /\ UNCHANGED <<project, trail, commits, export>>

BeginCreate(c, s, name) ==
  Begins(c, [pc |-> "create", of |-> s,
             sets |-> [f \in Columns |-> IF f = "name" THEN name ELSE "null"]])

\* _load_project, and the fields that the caller sent.
BeginUpdate(c, s, sets) ==
  /\ There(s)
  /\ Begins(c, [pc |-> "update", of |-> s, sets |-> sets])

\* archive_project, of one that was not archived when it was read.
BeginArchive(c, s) ==
  /\ There(s) /\ project[s].archived_at = "null"
  /\ Begins(c, [pc |-> "update", of |-> s, sets |-> [f \in {"archived_at"} |-> "now"]])

\* _changed_columns: what was set to something else than was read.
Changed(r) == {f \in DOMAIN r.sets : r.sets[f] # r.read[f]}

\* _before_flush: the audit row of the transaction.
Audits(r, action, columns) ==
  /\ trail' = [trail EXCEPT ![r.at] =
                 [action |-> action, of |-> r.of, nr |-> commits + 1,
                  diff |-> [f \in columns |-> r.sets[f]]]]
  /\ commits' = commits + 1

Ends(c) == preq' = [preq EXCEPT ![c] = Idle]

\* create_project: a slug that is taken is a 409, and nothing of it stays.
CommitCreate(c) ==
  LET r == preq[c] IN
  /\ r.pc = "create"
  /\ IF There(r.of)
     THEN UNCHANGED <<project, trail, commits>>
     ELSE /\ project' = [project EXCEPT ![r.of] = r.sets]
          /\ Audits(r, "create", Columns)
  /\ Ends(c)
  /\ UNCHANGED <<ticks, export>>

\* Wrong on purpose: the row is written as it was read and changed.
WriteWholeRow(c) ==
  LET r == preq[c] IN
  /\ r.pc = "update"
  /\ project' = [project EXCEPT ![r.of] =
                   [f \in Columns |->
                      IF f \in DOMAIN r.sets THEN r.sets[f] ELSE r.read[f]]]
  /\ Audits(r, "update", Changed(r))
  /\ Ends(c)
  /\ UNCHANGED <<ticks, export>>

\* update_project and archive_project: the columns that changed, and no others.
CommitUpdate(c) ==
  LET r == preq[c] IN
  /\ r.pc = "update"
  /\ project' = [project EXCEPT ![r.of] =
                   [f \in Columns |-> IF f \in Changed(r) THEN r.sets[f] ELSE @[f]]]
  /\ Audits(r, "update", Changed(r))
  /\ Ends(c)
  /\ UNCHANGED <<ticks, export>>

\* The request is refused, or fails before its commit.
EndProjectReq(c) ==
  /\ preq[c] # Idle
  /\ Ends(c)
  /\ UNCHANGED <<project, trail, ticks, commits, export>>

(***************************************************************************)
(* The export.                                                             *)
(***************************************************************************)

\* _apply_filters, with an action or without.
Matches(filter) == {t \in Times : trail[t].action \in filter}

\* ORDER BY created_at DESC LIMIT Chunk OFFSET offset.
Page(rows, offset) ==
  {t \in rows : Cardinality({u \in rows : u > t}) \in offset .. (offset + Chunk - 1)}

\* stream_audit_csv: the count, which must be within the limit.
BeginExport(filter) ==
  /\ export = NoExport
  /\ Cardinality(Matches(filter)) <= Limit
  /\ export' = [pc |-> "read", filter |-> filter, had |-> Matches(filter),
                total |-> Cardinality(Matches(filter)), got |-> {}, offset |-> 0]
  /\ UNCHANGED <<project, trail, ticks, commits, preq>>

\* Wrong on purpose: the offset counts chunks from one.
SkipAChunk ==
  LET chunk == Page(Matches(export.filter), export.offset + Chunk) IN
  /\ export.pc = "read"
  /\ export' = IF export.offset >= export.total \/ chunk = {}
               THEN [export EXCEPT !.pc = "done"]
               ELSE [export EXCEPT !.got = @ \union chunk, !.offset = @ + Cardinality(chunk)]
  /\ UNCHANGED <<project, trail, ticks, commits, preq>>

\* The next chunk, from the offset reached; the end, when it is the total or there
\* are no more.
ReadChunk ==
  LET chunk == Page(Matches(export.filter), export.offset) IN
  /\ export.pc = "read"
  /\ export' = IF export.offset >= export.total \/ chunk = {}
               THEN [export EXCEPT !.pc = "done"]
               ELSE [export EXCEPT !.got = @ \union chunk, !.offset = @ + Cardinality(chunk)]
  /\ UNCHANGED <<project, trail, ticks, commits, preq>>

\* The client has it all, or goes away.
EndExport ==
  /\ export # NoExport
  /\ export' = NoExport
  /\ UNCHANGED <<project, trail, ticks, commits, preq>>

Actions == {"create", "update"}

\* create_project_endpoint.
Creating(c) == CommitCreate(c) \/ \E s \in Slugs, name \in Texts : BeginCreate(c, s, name)

\* update_project_endpoint and delete_project_endpoint.
Changing(c) ==
  \/ \E s \in Slugs, f \in SUBSET Patched : \E sets \in [f -> Texts] : BeginUpdate(c, s, sets)
  \/ \E s \in Slugs : BeginArchive(c, s)
  \/ CommitUpdate(c)

AuditNext ==
  \/ \E c \in Requests : Creating(c) \/ Changing(c) \/ EndProjectReq(c)
  \/ \E filter \in {Actions, {"update"}} : BeginExport(filter)
  \/ ReadChunk \/ EndExport

AuditSpec == AuditInit /\ [][AuditNext]_auditVars

(***************************************************************************)
(* Properties.                                                             *)
(***************************************************************************)

Values == Texts \union {"none", "null", "now"}

\* What columns may be given.
Diffs == UNION {[columns -> Values] : columns \in SUBSET Columns}

Entries == [action : Actions, of : Slugs, nr : Times, diff : Diffs]

ProjectRequests ==
  [pc : {"create", "update"}, at : Times, of : Slugs, read : [Columns -> Values], sets : Diffs]

Exports ==
  [pc : {"read", "done"}, filter : SUBSET Actions, had : SUBSET Times, total : 0..MaxWrites,
   got : SUBSET Times, offset : Nat]

\* Every variable stays in its domain.
AuditTypeOK ==
  /\ project \in [Slugs -> [Columns -> Values]]
  /\ trail \in [Times -> Entries \union {NoEntry}]
  /\ ticks \in 0..MaxWrites /\ commits \in 0..ticks
  /\ preq \in [Requests -> ProjectRequests \union {Idle}]
  /\ export \in Exports \union {NoExport}

\* The audit rows that say something of a column.
Naming(s, f) ==
  {t \in Times : trail[t] # NoEntry /\ trail[t].of = s /\ f \in DOMAIN trail[t].diff}

\* The audit rows of a project, replayed in the order of their commits, give the row:
\* each column has the value that the last of them to name it recorded, however
\* PATCHes that read the same row, an archiving and creations of one slug overlap.
AuditReplays ==
  \A s \in Slugs : There(s) => \A f \in Columns :
    \E t \in Naming(s, f) :
      /\ trail[t].diff[f] = project[s][f]
      /\ \A u \in Naming(s, f) : trail[u].nr <= trail[t].nr

\* What an export has so far is, of the rows there were when it began, the latest, with
\* none left out between them; and what is missing at its end is no more than what
\* was committed meanwhile, which shifts the rows between two chunks.
ExportLosesOnlyTheOldest ==
  export # NoExport =>
    LET missing == export.had \ export.got IN
    /\ \A t \in missing, u \in export.got : t < u
    /\ export.pc = "done" =>
         Cardinality(missing) <= Cardinality(Matches(export.filter) \ export.had)
===============================================================================
