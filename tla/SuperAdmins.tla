----------------------------- MODULE SuperAdmins -----------------------------
(***************************************************************************)
(* Who is a super admin (services/admin_user_service.py): promotions,      *)
(* demotions, deactivations and activations.  The last active super admin  *)
(* is protected three times: nobody acts on himself, the active super      *)
(* admins are counted under FOR UPDATE, and a trigger on users counts      *)
(* again (alembic/versions/0013_last_super_admin_constraint.py).           *)
(*                                                                         *)
(* A request loads the user, may lock, sends its UPDATE (Flush: the row is *)
(* locked and the trigger runs, nobody else sees it) and commits.          *)
(***************************************************************************)
EXTENDS Portal, FiniteSets, Naturals

VARIABLES
  super,     \* users.is_superuser
  active,    \* users.is_active
  areq,      \* the admin request in each slot
  overtaken  \* (history) a deactivation that read its user as an ordinary one
             \* has taken an active super admin away

adminVars == <<super, active, areq, overtaken>>

AdminOps == {"promote", "demote", "deactivate", "activate"}

ActiveSupers == {u \in Users : super[u] /\ active[u]}

\* Request d holds the row of user u.
HoldsUser(d, u) ==
  /\ areq[d] # Idle
  /\ \/ u \in areq[d].rows
     \/ areq[d].pc = "flushed" /\ areq[d].u = u

FreeFor(c, u) == \A d \in Requests \ {c} : ~HoldsUser(d, u)

\* What the request makes of its user, given what it loaded.
TakesSuper(c) == areq[c].op = "demote" /\ areq[c].super
TakesActive(c) == areq[c].op = "deactivate"

\* _lock_and_count_active_super_admins is called.
MustLock(c) == areq[c].super /\ areq[c].op \in {"demote", "deactivate"}

AdminInit ==
  /\ super \in [Users -> BOOLEAN]
  /\ active \in [Users -> BOOLEAN]
  /\ ActiveSupers # {}
  /\ areq = [c \in Requests |-> Idle]
  /\ overtaken = FALSE

\* require_super_admin_or_404 for somebody else than u, then
\* _load_user_with_memberships.  Deactivating an inactive user, or activating
\* an active one, ends here.
LoadUser(c, op, u) ==
  /\ areq[c] = Idle
  /\ ActiveSupers \ {u} # {}
  /\ op = "deactivate" => active[u]
  /\ op = "activate" => ~active[u]
  /\ areq' = [areq EXCEPT ![c] = [pc |-> "loaded", op |-> op, u |-> u,
                                  super |-> super[u], active |-> active[u],
                                  rows |-> {}]]
  /\ UNCHANGED <<super, active, overtaken>>

\* The guard against taking the last one, over the rows just locked.  A
\* demotion trusts the is_active it loaded.
NotTheLast(c, n) ==
  \/ n > 1
  \/ areq[c].op = "demote" /\ ~areq[c].active

\* Wrong on purpose: a plain SELECT count().
CountSupersUnlocked(c) ==
  /\ areq[c].pc = "loaded"
  /\ MustLock(c)
  /\ NotTheLast(c, Cardinality(ActiveSupers))
  /\ areq' = [areq EXCEPT ![c].pc = "locked"]
  /\ UNCHANGED <<super, active, overtaken>>

\* _lock_and_count_active_super_admins, and the guard.
LockSupers(c) ==
  /\ areq[c].pc = "loaded"
  /\ MustLock(c)
  /\ \A u \in ActiveSupers : FreeFor(c, u)
  /\ NotTheLast(c, Cardinality(ActiveSupers))
  /\ areq' = [areq EXCEPT ![c] = [@ EXCEPT !.pc = "locked",
                                               !.rows = ActiveSupers]]
  /\ UNCHANGED <<super, active, overtaken>>

\* enforce_last_super_admin, which sees what is committed.
TriggerAllows(c) ==
  \/ ~(TakesSuper(c) \/ TakesActive(c))
  \/ areq[c].u \notin ActiveSupers
  \/ ActiveSupers \ {areq[c].u} # {}

\* The UPDATE of the user.
FlushUser(c) ==
  /\ \/ areq[c].pc = "loaded" /\ ~MustLock(c)
     \/ areq[c].pc = "locked"
  /\ FreeFor(c, areq[c].u)
  /\ TriggerAllows(c)
  /\ areq' = [areq EXCEPT ![c].pc = "flushed"]
  /\ UNCHANGED <<super, active, overtaken>>

\* Request c deactivates an active super admin it read as an ordinary user:
\* a promotion was committed in between, and nobody counted.
Overtakes(c) ==
  TakesActive(c) /\ ~areq[c].super /\ areq[c].u \in ActiveSupers

\* COMMIT.  SQLAlchemy sends is_superuser only when it differs from what was
\* loaded.
CommitUser(c) ==
  LET u == areq[c].u
      op == areq[c].op IN
  /\ areq[c].pc = "flushed"
  /\ super' = [super EXCEPT ![u] =
                 IF TakesSuper(c) THEN FALSE
                 ELSE IF op = "promote" /\ ~areq[c].super THEN TRUE ELSE @]
  /\ active' = [active EXCEPT ![u] =
                  IF TakesActive(c) THEN FALSE
                  ELSE IF op = "activate" THEN TRUE ELSE @]
  /\ overtaken' = (overtaken \/ Overtakes(c))
  /\ areq' = [areq EXCEPT ![c] = Idle]

\* The request is refused, fails or dies: the transaction rolls back.
EndAdminReq(c) ==
  /\ areq[c] # Idle
  /\ areq' = [areq EXCEPT ![c] = Idle]
  /\ UNCHANGED <<super, active, overtaken>>

AdminNext ==
  \E c \in Requests :
    \/ \E op \in AdminOps, u \in Users : LoadUser(c, op, u)
    \/ LockSupers(c) \/ FlushUser(c) \/ CommitUser(c) \/ EndAdminReq(c)

AdminSpec == AdminInit /\ [][AdminNext]_adminVars

(***************************************************************************)
(* Properties.                                                             *)
(***************************************************************************)

AdminRequests == [pc     : {"loaded", "locked", "flushed"},
                  op     : AdminOps,
                  u      : Users,
                  super  : BOOLEAN,
                  active : BOOLEAN,
                  rows   : SUBSET Users]

\* Every variable stays in its domain.
AdminTypeOK ==
  /\ super \in [Users -> BOOLEAN]
  /\ active \in [Users -> BOOLEAN]
  /\ overtaken \in BOOLEAN
  /\ areq \in [Requests -> {Idle} \union AdminRequests]

\* Whatever demotions and deactivations run at once, on each other's actors
\* too, somebody can still administer the portal.  The exception is in
\* ActiveSuperAdminLeft: a deactivation that loaded its user before a
\* promotion of that user was committed takes him away without a count.
SuperAdminRemains == overtaken \/ ActiveSupers # {}

\* The admin guide: "The portal refuses to demote or deactivate the last active
\* super_admin in the organization", and concurrent attempts "are serialized rather than
\* racing".  Two deactivations of users read as ordinary, both promoted since, lock
\* nothing and each pass a trigger that still sees the other's row active.
ActiveSuperAdminLeft == ActiveSupers # {}
=============================================================================
