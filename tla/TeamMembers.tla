----------------------------- MODULE TeamMembers -----------------------------
(***************************************************************************)
(* Who is in a team, and who administers it (services/admin_team_service,  *)
(* and the membership half of services/admin_user_service.                 *)
(* update_user_role).  Removing or demoting a team_admin locks the         *)
(* team_admin rows of the team, counts them and the members, and refuses   *)
(* to take the last one from the others.                                   *)
(*                                                                         *)
(* A request reads the membership, may lock, and commits; a deletion of    *)
(* the team locks the team and commits.                                    *)
(***************************************************************************)
EXTENDS Portal, FiniteSets, Naturals

ASSUME UsersAssumption == IsFiniteSet(Users)

VARIABLES
  team,    \* "absent", "present" or "deleted"
  role,    \* memberships.role of each user in each team; "none" without a row
  mreq     \* the request in each slot

memberVars == <<team, role, mreq>>

Roles == {"developer", "team_admin"}

\* add_team_member, remove_team_member and update_user_role.
MemberOps == {"add", "remove", "assign"}

Nobody == [u \in Users |-> "none"]

Members(t) == {u \in Users : role[t][u] # "none"}
TeamAdmins(t) == {u \in Users : role[t][u] = "team_admin"}

\* Another request holds the membership row, or the row of the team.
RowHeld(c, t, u) ==
  \E d \in Requests \ {c} :
    mreq[d].pc = "locked" /\ mreq[d].t = t /\ u \in mreq[d].rows

TeamHeld(c, t) ==
  \E d \in Requests \ {c} : mreq[d].pc = "deleting" /\ mreq[d].t = t

MemberInit ==
  /\ team = [t \in Teams |-> "absent"]
  /\ role = [t \in Teams |-> Nobody]
  /\ mreq = [c \in Requests |-> Idle]

\* create_team, whose slug is free.
CreateTeam(t) ==
  /\ team[t] = "absent"
  /\ team' = [team EXCEPT ![t] = "present"]
  /\ UNCHANGED <<role, mreq>>

\* The team is there, and the row as it is now.  Nothing is left to do for a
\* member who is not there or has the role already.
ReadMember(c, op, t, u, to) ==
  /\ mreq[c] = Idle
  /\ team[t] = "present"
  /\ to = "none" <=> op = "remove"
  /\ to # role[t][u]
  /\ mreq' = [mreq EXCEPT ![c] = [pc |-> "read", op |-> op, t |-> t, u |-> u,
                                  to |-> to, seen |-> role[t][u],
                                  rows |-> {}, counted |-> Nobody]]
  /\ UNCHANGED <<team, role>>

\* The guard applies: a team_admin, as read, stops being one.
Guarded(c) == mreq[c].op # "assign" /\ mreq[c].seen = "team_admin"

\* Somebody else is left to administer the team, or nobody to be.
NotTheLastAdmin(t) ==
  Cardinality(TeamAdmins(t)) > 1 \/ Cardinality(Members(t)) <= 1

\* Wrong on purpose: the count takes no lock.
CountAdminsUnlocked(c) ==
  /\ mreq[c].pc = "read"
  /\ Guarded(c)
  /\ NotTheLastAdmin(mreq[c].t)
  /\ mreq' = [mreq EXCEPT ![c] = [@ EXCEPT !.pc = "locked",
                                           !.counted = role[mreq[c].t]]]
  /\ UNCHANGED <<team, role>>

\* _lock_and_count_team_admins, _count_team_members and the guard.
LockAdmins(c) ==
  LET t == mreq[c].t IN
  /\ mreq[c].pc = "read"
  /\ Guarded(c)
  /\ \A u \in TeamAdmins(t) : ~RowHeld(c, t, u)
  /\ NotTheLastAdmin(t)
  /\ mreq' = [mreq EXCEPT ![c] = [@ EXCEPT !.pc = "locked",
                                           !.rows = TeamAdmins(t),
                                           !.counted = role[t]]]
  /\ UNCHANGED <<team, role>>

\* INSERT: the primary key and the foreign key to the team accept the row.
Accepts(c) ==
  LET t == mreq[c].t IN
  role[t][mreq[c].u] = "none" /\ team[t] = "present" /\ ~TeamHeld(c, t)

\* The INSERT, UPDATE or DELETE, and COMMIT.
CommitMember(c) ==
  LET t == mreq[c].t
      u == mreq[c].u IN
  /\ \/ mreq[c].pc = "read" /\ ~Guarded(c)
     \/ mreq[c].pc = "locked"
  /\ IF mreq[c].seen = "none" THEN Accepts(c) ELSE role[t][u] # "none"
  /\ ~RowHeld(c, t, u)
  /\ role' = [role EXCEPT ![t][u] = mreq[c].to]
  /\ mreq' = [mreq EXCEPT ![c] = Idle]
  /\ UNCHANGED team

\* delete_team: the team row FOR UPDATE.
LockTeam(c, t) ==
  /\ mreq[c] = Idle
  /\ team[t] = "present"
  /\ ~TeamHeld(c, t)
  /\ mreq' = [mreq EXCEPT ![c] = [pc |-> "deleting", t |-> t]]
  /\ UNCHANGED <<team, role>>

\* Wrong on purpose: a soft delete, with a status the table does not have.
ArchiveTeam(c) ==
  LET t == mreq[c].t IN
  /\ mreq[c].pc = "deleting"
  /\ team' = [team EXCEPT ![t] = "archived"]
  /\ mreq' = [mreq EXCEPT ![c] = Idle]
  /\ UNCHANGED role

\* DELETE, with the memberships by cascade, and COMMIT.
DeleteTeam(c) ==
  LET t == mreq[c].t IN
  /\ mreq[c].pc = "deleting"
  /\ \A u \in Members(t) : ~RowHeld(c, t, u)
  /\ team' = [team EXCEPT ![t] = "deleted"]
  /\ role' = [role EXCEPT ![t] = Nobody]
  /\ mreq' = [mreq EXCEPT ![c] = Idle]

\* The request is refused (a guard, a constraint, a scan in flight, a row that
\* is gone), fails or dies: the transaction rolls back.
EndMemberReq(c) ==
  /\ mreq[c] # Idle
  /\ mreq' = [mreq EXCEPT ![c] = Idle]
  /\ UNCHANGED <<team, role>>

MemberNext ==
  \/ \E t \in Teams : CreateTeam(t)
  \/ \E c \in Requests :
       \/ \E t \in Teams :
            \/ LockTeam(c, t)
            \/ \E op \in MemberOps, u \in Users, to \in Roles \union {"none"} :
                 ReadMember(c, op, t, u, to)
       \/ LockAdmins(c) \/ CommitMember(c) \/ DeleteTeam(c) \/ EndMemberReq(c)

MemberSpec == MemberInit /\ [][MemberNext]_memberVars

(***************************************************************************)
(* Properties.                                                             *)
(***************************************************************************)

MemberRequests ==
  [pc      : {"read", "locked"},
   op      : MemberOps,
   t       : Teams,
   u       : Users,
   to      : Roles \union {"none"},
   seen    : Roles \union {"none"},
   rows    : SUBSET Users,
   counted : [Users -> Roles \union {"none"}]]

\* Every variable stays in its domain.
MemberTypeOK ==
  /\ team \in [Teams -> {"absent", "present", "deleted"}]
  /\ role \in [Teams -> [Users -> Roles \union {"none"}]]
  /\ mreq \in [Requests -> {Idle} \union MemberRequests
                             \union [pc : {"deleting"}, t : Teams]]

\* A request that counted its user as a team_admin and then takes the team's
\* last one leaves no other member it counted: of two admins who remove each
\* other at once, or while roles are assigned elsewhere, one stays as long as
\* somebody else is in the team.
LastAdminStays ==
  [][\A c \in Requests, t \in Teams :
       /\ mreq[c].pc = "locked"
       /\ mreq[c].t = t
       /\ mreq[c].counted[mreq[c].u] = "team_admin"
       /\ mreq'[c] = Idle
       /\ TeamAdmins(t) # {}
       /\ TeamAdmins(t)' = {}
       => \A v \in Users \ {mreq[c].u} :
            mreq[c].counted[v] # "none" => role'[t][v] = "none"]_memberVars
=============================================================================
