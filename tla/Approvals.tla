------------------------------ MODULE Approvals ------------------------------
(***************************************************************************)
(* The approval workflow of a component in a project                       *)
(* (services/component_approval_service.py, api/v1/approvals.py).  Rows of *)
(* component_approvals are read and written by concurrent HTTP requests:   *)
(* create checks before it inserts and relies on a partial unique index,   *)
(* transition reads FOR UPDATE and compares the version the caller was     *)
(* shown, delete reads without a lock.                                     *)
(*                                                                         *)
(* One action is one database statement or commit of one request.  Callers *)
(* are members of the row's team: to anybody else every route answers 404. *)
(***************************************************************************)
EXTENDS Naturals

CONSTANTS
  Clients,   \* users, each with at most one request under way
  Admins,    \* the team_admins and super_admins among them
  Ids,       \* ids the INSERTs will hand out
  Pairs,     \* (component, project)
  None       \* null

ASSUME ClientsAssumption ==
  /\ Admins \subseteq Clients
  /\ None \notin Clients \union Ids \union Pairs

VARIABLES
  status,    \* component_approvals.status; "absent" before and "deleted" after
  version,   \* the ETag
  pair,      \* component_id and project_id
  requester, \* requested_by_user_id
  decider,   \* decided_by_user_id
  lock,      \* the client that holds the row FOR UPDATE
  etag,      \* what each client was last shown: the row, its version, its status
  req        \* the request each client has under way

cols == <<status, version, pair, requester, decider>>
vars == <<status, version, pair, requester, decider, lock, etag, req>>

Open == {"pending", "under_review"}
Decided == {"approved", "rejected"}
Present == Open \union Decided

\* _TRANSITION_MAP.
Allowed == [pending      |-> {"under_review", "rejected"},
            under_review |-> Decided,
            approved     |-> {},
            rejected     |-> {}]

NoTag == [id |-> None, version |-> 0, status |-> "absent"]
NoReq == [pc |-> "idle", id |-> None, pair |-> None, to |-> "absent"]

Tag(i) == [id |-> i, version |-> version[i], status |-> status[i]]

Request(c, r) == req' = [req EXCEPT ![c] = r]

Done(c) == Request(c, NoReq)

Init ==
  /\ status = [i \in Ids |-> "absent"]
  /\ version = [i \in Ids |-> 0]
  /\ pair = [i \in Ids |-> None]
  /\ requester = [i \in Ids |-> None]
  /\ decider = [i \in Ids |-> None]
  /\ lock = [i \in Ids |-> None]
  /\ etag = [c \in Clients |-> NoTag]
  /\ req = [c \in Clients |-> NoReq]

\* get_approval, list_approvals: the client is shown a row and its version.
Look(c, i) ==
  /\ req[c].pc = "idle"
  /\ status[i] \in Present
  /\ etag' = [etag EXCEPT ![c] = Tag(i)]
  /\ UNCHANGED <<cols, lock, req>>

(***************************************************************************)
(* create_approval.                                                        *)
(***************************************************************************)

\* Row i is open for p.
OpenFor(i, p) == status[i] \in Open /\ pair[i] = p

\* The preflight query finds no open approval of the pair.
Preflight(c, p) ==
  /\ req[c].pc = "idle"
  /\ \A i \in Ids : ~OpenFor(i, p)
  /\ Request(c, [pc |-> "insert", id |-> None, pair |-> p, to |-> "absent"])
  /\ UNCHANGED <<cols, lock, etag>>

\* Wrong on purpose: the preflight is trusted, there is no unique index.
InsertUnchecked(c, i) ==
  /\ req[c].pc = "insert"
  /\ status[i] = "absent"
  /\ status' = [status EXCEPT ![i] = "pending"]
  /\ version' = [version EXCEPT ![i] = 1]
  /\ pair' = [pair EXCEPT ![i] = req[c].pair]
  /\ requester' = [requester EXCEPT ![i] = c]
  /\ Done(c)
  /\ UNCHANGED <<decider, lock, etag>>

\* INSERT and COMMIT, through ix_component_approvals_unique_open.
Insert(c, i) ==
  /\ req[c].pc = "insert"
  /\ status[i] = "absent"
  /\ \A j \in Ids : ~OpenFor(j, req[c].pair)
  /\ status' = [status EXCEPT ![i] = "pending"]
  /\ version' = [version EXCEPT ![i] = 1]
  /\ pair' = [pair EXCEPT ![i] = req[c].pair]
  /\ requester' = [requester EXCEPT ![i] = c]
  /\ Done(c)
  /\ UNCHANGED <<decider, lock, etag>>

\* The index refuses the row: 409.
InsertRefused(c) ==
  /\ req[c].pc = "insert"
  /\ \E j \in Ids : OpenFor(j, req[c].pair)
  /\ Done(c)
  /\ UNCHANGED <<cols, lock, etag>>

(***************************************************************************)
(* transition_approval.                                                    *)
(***************************************************************************)

\* The guards, in the state the row is read: version, matrix, role.  Each
\* target needs team_admin.
Passes(c, i, to) ==
  /\ etag[c].version = version[i]
  /\ to \in Allowed[status[i]]
  /\ c \in Admins

\* Wrong on purpose: the ETag is not compared.
LockIgnoringVersion(c, i, to) ==
  /\ req[c].pc = "idle"
  /\ etag[c].id = i
  /\ status[i] \in Present
  /\ lock[i] = None
  /\ to \in Allowed[status[i]]
  /\ c \in Admins
  /\ lock' = [lock EXCEPT ![i] = c]
  /\ Request(c, [pc |-> "commit", id |-> i, pair |-> None, to |-> to])
  /\ UNCHANGED <<cols, etag>>

\* SELECT ... FOR UPDATE, then the guards.  A request that fails one of them
\* (404, 412, 409, 403) rolls back and has changed nothing.
Lock(c, i, to) ==
  /\ req[c].pc = "idle"
  /\ etag[c].id = i
  /\ status[i] \in Present
  /\ lock[i] = None
  /\ Passes(c, i, to)
  /\ lock' = [lock EXCEPT ![i] = c]
  /\ Request(c, [pc |-> "commit", id |-> i, pair |-> None, to |-> to])
  /\ UNCHANGED <<cols, etag>>

\* The new status and version, the decision if it is one, COMMIT.  The
\* response carries the new ETag.
Commit(c) ==
  LET i == req[c].id
      to == req[c].to IN
  /\ req[c].pc = "commit"
  /\ status' = [status EXCEPT ![i] = to]
  /\ version' = [version EXCEPT ![i] = @ + 1]
  /\ decider' = [decider EXCEPT ![i] = IF to \in Decided THEN c ELSE @]
  /\ lock' = [lock EXCEPT ![i] = None]
  /\ etag' = [etag EXCEPT ![c] = [id |-> i, version |-> version[i] + 1,
                                  status |-> to]]
  /\ Done(c)
  /\ UNCHANGED <<pair, requester>>

\* The request dies before its commit: the transaction rolls back.
Abort(c) ==
  /\ req[c].pc # "idle"
  /\ lock' = [i \in Ids |-> IF lock[i] = c THEN None ELSE lock[i]]
  /\ Done(c)
  /\ UNCHANGED <<cols, etag>>

(***************************************************************************)
(* delete_approval.                                                        *)
(***************************************************************************)

\* SELECT without a lock, then the guards: not decided, and the caller is the
\* requester or a team_admin.
ReadToDelete(c, i) ==
  /\ req[c].pc = "idle"
  /\ status[i] \in Open
  /\ c = requester[i] \/ c \in Admins
  /\ Request(c, [pc |-> "delete", id |-> i, pair |-> None, to |-> "absent"])
  /\ UNCHANGED <<cols, lock, etag>>

\* DELETE ... WHERE id, once nobody holds the row; no row is left to delete
\* when another request was faster.
Delete(c) ==
  LET i == req[c].id IN
  /\ req[c].pc = "delete"
  /\ lock[i] = None
  /\ status' = [status EXCEPT ![i] = "deleted"]
  /\ Done(c)
  /\ UNCHANGED <<version, pair, requester, decider, lock, etag>>

Next ==
  \E c \in Clients :
    \/ \E i \in Ids :
         \/ Look(c, i) \/ Insert(c, i) \/ ReadToDelete(c, i)
         \/ \E to \in Present : Lock(c, i, to)
    \/ \E p \in Pairs : Preflight(c, p)
    \/ InsertRefused(c) \/ Commit(c) \/ Abort(c) \/ Delete(c)

Spec == Init /\ [][Next]_vars

(***************************************************************************)
(* Properties.                                                             *)
(***************************************************************************)

Tags == [id      : Ids \union {None},
         version : Nat,
         status  : Present \union {"absent"}]

ApprovalRequests ==
  {NoReq}
    \union [pc : {"insert"}, id : {None}, pair : Pairs, to : {"absent"}]
    \union [pc : {"commit"}, id : Ids, pair : {None}, to : Present]
    \union [pc : {"delete"}, id : Ids, pair : {None}, to : {"absent"}]

\* Every variable stays in its domain.
TypeOK ==
  /\ status \in [Ids -> Present \union {"absent", "deleted"}]
  /\ version \in [Ids -> Nat]
  /\ pair \in [Ids -> Pairs \union {None}]
  /\ requester \in [Ids -> Clients \union {None}]
  /\ decider \in [Ids -> Clients \union {None}]
  /\ lock \in [Ids -> Clients \union {None}]
  /\ etag \in [Clients -> Tags]
  /\ req \in [Clients -> ApprovalRequests]

\* Two requests that both found no open approval of a pair do not both open
\* one.
OneOpen ==
  \A i, j \in Ids, p \in Pairs : OpenFor(i, p) /\ OpenFor(j, p) => i = j

\* The version counts the steps of the workflow, so that an approval is only
\* ever approved out of a review; a decided row names an admin, and no open
\* row does.
DecidedInOrder ==
  \A i \in Ids :
    /\ status[i] = "pending" => version[i] = 1
    /\ status[i] = "under_review" => version[i] = 2
    /\ status[i] = "approved" => version[i] = 3
    /\ status[i] = "rejected" => version[i] \in {2, 3}
    /\ status[i] \in Decided => decider[i] \in Admins
    /\ status[i] \in Open => decider[i] = None

\* The ETag stands for what the client saw: when a transition commits, the
\* row still has the status the client was shown, whoever acted in between.
DecidedAsSeen ==
  [][\A c \in Clients :
       req[c].pc = "commit" /\ etag'[c] # etag[c]
         => etag[c].id = req[c].id /\ etag[c].status = status[req[c].id]]_vars

\* A decision is never overwritten: of two reviewers who decide at the same
\* time, one is refused.
DecisionIsFinal ==
  [][\A i \in Ids :
       status[i] \in Decided =>
         /\ status'[i] \in {status[i], "deleted"}
         /\ decider'[i] = decider[i]]_vars

\* ApprovalTerminalState: an approval in a terminal state "cannot be deleted".
DecidedIsKept ==
  [][\A i \in Ids : status[i] \in Decided => status'[i] # "deleted"]_vars
=============================================================================
