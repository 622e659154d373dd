-------------------------------- MODULE ApiKeys --------------------------------
(***************************************************************************)
(* Keys for CI (services/api_key_service, core/api_key_auth,               *)
(* api/v1/api_keys): issued for the organization, a team or a project,     *)
(* revoked, and presented instead of a login.                              *)
(*                                                                         *)
(* A request is made with the roles its user had when it began.  It reads  *)
(* a key, if it needs one, without a lock, and commits later; meanwhile    *)
(* roles change and other requests commit.                                 *)
(*                                                                         *)
(* Left out: what a key is made of (a prefix that is taken, after five     *)
(* attempts, is one with any failure), the list of keys, which only reads, *)
(* and the deletion of teams and projects, which takes their keys with it. *)
(***************************************************************************)
EXTENDS Portal, Naturals

CONSTANTS
  Issuers,   \* the users
  Tenants,   \* the teams
  Keys,      \* rows that can be made
  Projects,
  Null    \* NULL

ASSUME NullAssumption == Null \notin Tenants \union Projects \union Issuers

VARIABLES
  owner,    \* projects.team_id
  supers,   \* the active super admins
  rank,     \* the role of each user in each team, or "none"
  key,      \* the rows of api_keys
  kreq      \* the request in each slot

keyVars == <<owner, supers, rank, key, kreq>>

Ranks == {"none", "developer", "team_admin"}

NoKey == [scope |-> "none", team |-> Null, project |-> Null,
          by |-> Null, revoked |-> FALSE, revoker |-> Null, used |-> FALSE]

\* A user as a request knows it: _load_current_user, or the issuer of a key as
\* get_api_key_principal finds it, with the roles of now.
Actor(u) == [id |-> u, super |-> u \in supers, roles |-> [t \in Tenants |-> rank[t][u]]]

TeamIds(a) == {t \in Tenants : a.roles[t] # "none"}

KeyInit ==
  /\ owner \in [Projects -> Tenants]
  /\ supers \in SUBSET Issuers
  /\ rank = [t \in Tenants |-> [u \in Issuers |-> "none"]]
  /\ key = [k \in Keys |-> NoKey]
  /\ kreq = [c \in Requests |-> Idle]

\* Someone's role changes, in any of the ways of the other services.
Regrade(t, u, r) ==
  /\ rank[t][u] # r
  /\ rank' = [rank EXCEPT ![t][u] = r]
  /\ UNCHANGED <<owner, supers, key, kreq>>

(***************************************************************************)
(* Who may do what.                                                        *)
(***************************************************************************)

\* _can_issue_at_scope.
CanIssue(a, scope, team, projectTeam) ==
  \/ a.super
  \/ scope = "team" /\ team \in Tenants /\ a.roles[team] = "team_admin"
  \/ scope = "project" /\ projectTeam \in TeamIds(a)

\* _can_view_key.
CanView(a, k) ==
  \/ a.super
  \/ key[k].by = a.id
  \/ key[k].scope = "team" /\ key[k].team \in TeamIds(a)
  \/ key[k].scope = "project" /\ key[k].project # Null /\ key[k].team \in TeamIds(a)

\* _can_revoke_key.
CanRevoke(a, k) ==
  \/ a.super
  \/ key[k].by = a.id
  \/ key[k].team \in Tenants /\ a.roles[key[k].team] = "team_admin"

(***************************************************************************)
(* Requests.                                                               *)
(***************************************************************************)

\* The scope and the ids of a payload fit together.
Coherent(scope, team, project) ==
  \/ scope = "org" /\ team = Null /\ project = Null
  \/ scope = "team" /\ team # Null /\ project = Null
  \/ scope = "project" /\ project # Null

\* issue_api_key up to its INSERT: the row has the team of its project, whatever
\* team the payload names.
BeginIssue(c, u, scope, team, project) ==
  LET projectTeam == IF scope = "project" THEN owner[project] ELSE Null IN
  /\ kreq[c] = Idle
  /\ Coherent(scope, team, project)
  /\ CanIssue(Actor(u), scope, team, projectTeam)
  /\ kreq' = [kreq EXCEPT ![c] =
                [pc |-> "issue",
                 row |-> [NoKey EXCEPT !.scope = scope, !.project = project, !.by = u,
                                       !.team = IF scope = "project" THEN projectTeam
                                                                     ELSE team]]]
  /\ UNCHANGED <<owner, supers, rank, key>>

CommitIssue(c, k) ==
  /\ kreq[c].pc = "issue"
  /\ key[k] = NoKey
  /\ key' = [key EXCEPT ![k] = kreq[c].row]
  /\ kreq' = [kreq EXCEPT ![c] = Idle]
  /\ UNCHANGED <<owner, supers, rank>>

\* revoke_api_key, where the key is there, may be seen and revoked, and is not
\* revoked yet.
BeginRevoke(c, u, k) ==
  /\ kreq[c] = Idle
  /\ key[k] # NoKey
  /\ CanView(Actor(u), k) /\ CanRevoke(Actor(u), k)
  /\ ~key[k].revoked
  /\ kreq' = [kreq EXCEPT ![c] = [pc |-> "revoke", key |-> k, by |-> u]]
  /\ UNCHANGED <<owner, supers, rank, key>>

CommitRevoke(c) ==
  /\ kreq[c].pc = "revoke"
  /\ key' = [key EXCEPT ![kreq[c].key].revoked = TRUE,
                        ![kreq[c].key].revoker = kreq[c].by]
  /\ kreq' = [kreq EXCEPT ![c] = Idle]
  /\ UNCHANGED <<owner, supers, rank>>

\* authenticate_api_key: a row that is not revoked, and the secret fits.
BeginUse(c, k) ==
  /\ kreq[c] = Idle
  /\ key[k] # NoKey /\ ~key[k].revoked
  /\ kreq' = [kreq EXCEPT ![c] = [pc |-> "use", key |-> k]]
  /\ UNCHANGED <<owner, supers, rank, key>>

\* Wrong on purpose: the row is written back as it was read.
TouchWholeRow(c) ==
  /\ kreq[c].pc = "use"
  /\ key' = [key EXCEPT ![kreq[c].key].used = TRUE,
                        ![kreq[c].key].revoked = FALSE,
                        ![kreq[c].key].revoker = Null]
  /\ kreq' = [kreq EXCEPT ![c] = Idle]
  /\ UNCHANGED <<owner, supers, rank>>

\* last_used_at alone is written; the request goes on as the issuer with the roles
\* it has by now, whether the write succeeded or not.
Touch(c) ==
  /\ kreq[c].pc = "use"
  /\ key' = [key EXCEPT ![kreq[c].key].used = TRUE]
  /\ kreq' = [kreq EXCEPT ![c] = Idle]
  /\ UNCHANGED <<owner, supers, rank>>

\* The request fails before its commit.
EndKeyReq(c) ==
  /\ kreq[c] # Idle
  /\ kreq' = [kreq EXCEPT ![c] = Idle]
  /\ UNCHANGED <<owner, supers, rank, key>>

\* create_api_key_endpoint.
Issuing(c) ==
  \/ \E u \in Issuers, scope \in {"org", "team", "project"},
        team \in Tenants \union {Null}, project \in Projects \union {Null} :
       BeginIssue(c, u, scope, team, project)
  \/ \E k \in Keys : CommitIssue(c, k)

\* revoke_api_key_endpoint.
Revoking(c) == CommitRevoke(c) \/ \E u \in Issuers, k \in Keys : BeginRevoke(c, u, k)

KeyNext ==
  \/ \E t \in Tenants, u \in Issuers, r \in Ranks : Regrade(t, u, r)
  \/ \E c \in Requests :
       \/ Issuing(c) \/ Revoking(c)
       \/ \E k \in Keys : BeginUse(c, k)
       \/ Touch(c) \/ EndKeyReq(c)

KeySpec == KeyInit /\ [][KeyNext]_keyVars

(***************************************************************************)
(* Properties.                                                             *)
(***************************************************************************)

KeyRows ==
  [scope   : {"none", "org", "team", "project"},
   team    : Tenants \union {Null},
   project : Projects \union {Null},
   by      : Issuers \union {Null},
   revoked : BOOLEAN,
   revoker : Issuers \union {Null},
   used    : BOOLEAN]

\* Every variable stays in its domain.
KeyTypeOK ==
  /\ owner \in [Projects -> Tenants]
  /\ supers \subseteq Issuers
  /\ rank \in [Tenants -> [Issuers -> Ranks]]
  /\ key \in [Keys -> KeyRows]
  /\ kreq \in [Requests -> {Idle} \union [pc : {"issue"}, row : KeyRows]
                             \union [pc : {"revoke"}, key : Keys, by : Issuers]
                             \union [pc : {"use"}, key : Keys]]

\* A revocation is irreversible, and loses no use that was noted before it, nor is lost
\* in one: a request that read the row while it was good may commit last_used_at after
\* the revocation, which read it too.  What the key is for, and who issued it, never
\* change.  Of two revocations at once the second's revoker stays, although revoke_api_key
\* calls itself idempotent: nothing is said of the revoker here.
RevocationSticks ==
  [][\A k \in Keys : key[k] # NoKey =>
       /\ key[k].revoked => key'[k].revoked
       /\ key[k].used => key'[k].used
       /\ \A column \in {"scope", "team", "project", "by"} :
            key'[k][column] = key[k][column]]_keyVars
=============================================================================
