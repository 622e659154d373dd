-------------------------------- MODULE SignIns --------------------------------
(***************************************************************************)
(* Signing in with an account at GitHub or Google (services/oauth_service, *)
(* services/oauth_identity_service, api/v1/oauth, and register_user of     *)
(* services/auth_service).                                                 *)
(*                                                                         *)
(* An external account has an id that stays and an email that its owner    *)
(* may change.  The callback finds the user the account is linked to, or   *)
(* links it to the user with its email, or creates a user with a team of   *)
(* its own.  Nothing is locked: unique constraints decide between          *)
(* callbacks that overlap, and the loser starts its transaction again.     *)
(*                                                                         *)
(* A user is known by its email, which none of these services changes.  A  *)
(* key that another transaction has inserted and not yet committed makes   *)
(* an INSERT of it wait.  That a callback finds its user inactive, that    *)
(* the provider fails, or the state token, is one with any other end of a  *)
(* request before its commit.                                              *)
(***************************************************************************)
EXTENDS Portal, FiniteSets, Naturals

CONSTANTS
  Accounts,    \* accounts at a provider: (provider, provider_user_id)
  Emails,
  MaxUnlinks   \* a bound: the identities that are deleted

ASSUME SignInAssumption == MaxUnlinks \in Nat /\ "none" \notin Emails

VARIABLES
  email,        \* the email of each account at its provider
  registered,   \* the users, by email
  identity,     \* the row of oauth_identities of each account
  slugs,        \* the accounts whose personal team is there
  unlinks,      \* the identities deleted; a later row is another row
  signed,       \* history: the users an account signed in as since it was linked
  xreq          \* the request in each slot

signInVars == <<email, registered, identity, slugs, unlinks, signed, xreq>>

NoLink == [user |-> "none", nr |-> 0]

\* The rows a transaction has inserted and not committed.
UniqueKeys ==
  [table : {"users"}, key : Emails]
    \union [table : {"teams", "identities"}, key : Accounts]

Key(table, key) == [table |-> table, key |-> key]

SignInInit ==
  /\ email \in [Accounts -> Emails]
  /\ registered = {}
  /\ identity = [x \in Accounts |-> NoLink]
  /\ slugs = {}
  /\ unlinks = 0
  /\ signed = [x \in Accounts |-> {}]
  /\ xreq = [c \in Requests |-> Idle]

Moves(c, r) == xreq' = [xreq EXCEPT ![c] = r]

Linked(x) == identity[x] # NoLink

Inserted(c) == IF xreq[c].pc \in {"idle", "unlink"} THEN {} ELSE xreq[c].rows

\* No other transaction has inserted the row without committing it.
KeyFree(c, k) == \A d \in Requests \ {c} : k \notin Inserted(d)

(***************************************************************************)
(* The callback: _resolve_or_create_user.                                  *)
(***************************************************************************)

\* The provider tells the account's email; (a) the account is linked, or it is not.
BeginSignIn(c, x) ==
  /\ xreq[c] = Idle
  /\ Moves(c, [pc   |-> IF Linked(x) THEN "known" ELSE "unknown",
               x    |-> x,
               mail |-> email[x],
               link |-> identity[x],
               rows |-> {}])
  /\ UNCHANGED <<email, registered, identity, slugs, unlinks, signed>>

\* (b) or (c): is there a user with the email?
ReadByEmail(c) ==
  /\ xreq[c].pc = "unknown"
  /\ Moves(c, [xreq[c] EXCEPT !.pc =
                 IF xreq[c].mail \in registered THEN "link" ELSE "create"])
  /\ UNCHANGED <<email, registered, identity, slugs, unlinks, signed>>

\* The link of a callback that inserts one.
OwnLink(c) == [user |-> xreq[c].mail, nr |-> unlinks]

\* The INSERT of an identity.  Where the account is linked by now, (b) rolls back
\* and looks again; after (c) has found its user taken the error is not caught.
LinkUser(c) ==
  LET x == xreq[c].x IN
  /\ xreq[c].pc \in {"link", "linkLate"}
  /\ KeyFree(c, Key("identities", x))
  /\ IF Linked(x)
     THEN Moves(c, IF xreq[c].pc = "link" THEN [xreq[c] EXCEPT !.pc = "again"]
                                          ELSE Idle)
     ELSE Moves(c, [xreq[c] EXCEPT !.pc = "ready", !.link = OwnLink(c),
                                   !.rows = {Key("identities", x)}])
  /\ UNCHANGED <<email, registered, identity, slugs, unlinks, signed>>

\* Wrong on purpose: signs in the user with the email all the same.
LookByEmail(c) ==
  /\ xreq[c].pc = "again"
  /\ IF Linked(xreq[c].x)
     THEN Moves(c, [xreq[c] EXCEPT !.pc = "known",
                                   !.link = [identity[xreq[c].x] EXCEPT
                                               !.user = xreq[c].mail]])
     ELSE Moves(c, Idle)
  /\ UNCHANGED <<email, registered, identity, slugs, unlinks, signed>>

\* Someone else linked the account: sign in as the user it is linked to.
LookAgain(c) ==
  /\ xreq[c].pc = "again"
  /\ IF Linked(xreq[c].x)
     THEN Moves(c, [xreq[c] EXCEPT !.pc = "known", !.link = identity[xreq[c].x]])
     ELSE Moves(c, Idle)
  /\ UNCHANGED <<email, registered, identity, slugs, unlinks, signed>>

\* _create_user_with_personal_team: the user, which may be there by now.
CreateUser(c) ==
  LET k == Key("users", xreq[c].mail) IN
  /\ xreq[c].pc = "create"
  /\ KeyFree(c, k)
  /\ IF xreq[c].mail \in registered
     THEN Moves(c, [xreq[c] EXCEPT !.pc = "linkLate"])
     ELSE Moves(c, [xreq[c] EXCEPT !.pc = "team", !.rows = {k}])
  /\ UNCHANGED <<email, registered, identity, slugs, unlinks, signed>>

\* The team, whose slug is made of the account.  Where it is taken the fallback
\* reads the organization after the rollback, and ends in an error.
CreatePersonalTeam(c) ==
  LET k == Key("teams", xreq[c].x) IN
  /\ xreq[c].pc = "team"
  /\ KeyFree(c, k)
  /\ IF xreq[c].x \in slugs
     THEN Moves(c, Idle)
     ELSE Moves(c, [xreq[c] EXCEPT !.pc = "identity", !.rows = @ \union {k}])
  /\ UNCHANGED <<email, registered, identity, slugs, unlinks, signed>>

\* The membership and the identity.
CreateIdentity(c) ==
  LET k == Key("identities", xreq[c].x) IN
  /\ xreq[c].pc = "identity"
  /\ KeyFree(c, k)
  /\ IF Linked(xreq[c].x)
     THEN Moves(c, Idle)
     ELSE Moves(c, [xreq[c] EXCEPT !.pc = "ready", !.rows = @ \union {k},
                                   !.link = OwnLink(c)])
  /\ UNCHANGED <<email, registered, identity, slugs, unlinks, signed>>

\* _issue_token_pair_in_session: all of it, with the refresh token, at once.  The
\* UPDATE of an identity that was deleted meanwhile matches no row and is an error.
CommitSignIn(c) ==
  LET x == xreq[c].x
      rows == xreq[c].rows
      link == xreq[c].link IN
  /\ \/ xreq[c].pc = "ready"
     \/ xreq[c].pc = "known" /\ Linked(x) /\ identity[x].nr = link.nr
  /\ registered' = registered \union {e \in Emails : Key("users", e) \in rows}
  /\ slugs' = slugs \union {y \in Accounts : Key("teams", y) \in rows}
  /\ identity' = IF Key("identities", x) \in rows
                 THEN [identity EXCEPT ![x] = link] ELSE identity
  /\ signed' = [signed EXCEPT ![x] = @ \union {link.user}]
  /\ Moves(c, Idle)
  /\ UNCHANGED <<email, unlinks>>

(***************************************************************************)
(* What else happens to users and accounts.                                *)
(***************************************************************************)

\* register_user, which commits or finds the email taken.
RegisterUser(c, e) ==
  /\ xreq[c] = Idle
  /\ e \notin registered
  /\ KeyFree(c, Key("users", e))
  /\ registered' = registered \union {e}
  /\ UNCHANGED <<email, identity, slugs, unlinks, signed, xreq>>

\* The owner changes the account's email at the provider.
ChangeEmail(x, e) ==
  /\ e # email[x]
  /\ email' = [email EXCEPT ![x] = e]
  /\ UNCHANGED <<registered, identity, slugs, unlinks, signed, xreq>>

\* unlink_oauth_identity: the row is read, the user locked.  The guard against
\* taking a user's only way to log in never fires: every user has a password.
BeginUnlink(c, x) ==
  /\ xreq[c] = Idle
  /\ Linked(x)
  /\ unlinks < MaxUnlinks
  /\ Moves(c, [pc |-> "unlink", x |-> x, link |-> identity[x]])
  /\ UNCHANGED <<email, registered, identity, slugs, unlinks, signed>>

\* The row is deleted, if it is still there.
CommitUnlink(c) ==
  LET x == xreq[c].x IN
  /\ xreq[c].pc = "unlink" /\ unlinks < MaxUnlinks
  /\ IF identity[x] = xreq[c].link
     THEN /\ identity' = [identity EXCEPT ![x] = NoLink]
          /\ unlinks' = unlinks + 1
          /\ signed' = [signed EXCEPT ![x] = {}]
     ELSE UNCHANGED <<identity, unlinks, signed>>
  /\ Moves(c, Idle)
  /\ UNCHANGED <<email, registered, slugs>>

\* The request is refused or fails before its commit.
EndSignIn(c) ==
  /\ xreq[c] # Idle
  /\ Moves(c, Idle)
  /\ UNCHANGED <<email, registered, identity, slugs, unlinks, signed>>

\* callback: a user comes back from the provider.
Callback(c) ==
  \/ \E x \in Accounts : BeginSignIn(c, x)
  \/ ReadByEmail(c) \/ LinkUser(c) \/ LookAgain(c)
  \/ CreateUser(c) \/ CreatePersonalTeam(c) \/ CreateIdentity(c)
  \/ CommitSignIn(c)

\* delete_oauth_identity.
Unlinking(c) == CommitUnlink(c) \/ \E x \in Accounts : BeginUnlink(c, x)

SignInNext ==
  \/ \E x \in Accounts, e \in Emails : ChangeEmail(x, e)
  \/ \E c \in Requests :
       \/ Callback(c) \/ Unlinking(c) \/ EndSignIn(c)
       \/ \E e \in Emails : RegisterUser(c, e)

SignInSpec == SignInInit /\ [][SignInNext]_signInVars

(***************************************************************************)
(* Properties.                                                             *)
(***************************************************************************)

Links == {NoLink} \union [user : Emails, nr : 0..MaxUnlinks]

SignInRequests ==
  {Idle}
    \union [pc   : {"known", "unknown", "link", "linkLate", "again", "create", "team",
                    "identity", "ready"},
            x    : Accounts,
            mail : Emails,
            link : Links,
            rows : SUBSET UniqueKeys]
    \union [pc : {"unlink"}, x : Accounts, link : Links]

\* Every variable stays in its domain.
SignInTypeOK ==
  /\ email \in [Accounts -> Emails]
  /\ registered \subseteq Emails
  /\ identity \in [Accounts -> Links]
  /\ slugs \subseteq Accounts
  /\ unlinks \in 0..MaxUnlinks
  /\ signed \in [Accounts -> SUBSET Emails]
  /\ xreq \in [Requests -> SignInRequests]

\* From the first sign-in with an external account until it is unlinked, every
\* sign-in with it is as one user, which is in the table with the link: though
\* callbacks overlap, its email changes between them, and users with those emails
\* register or have been there before.
SameAccount ==
  \A x \in Accounts :
    signed[x] # {} => Linked(x) /\ signed[x] = {identity[x].user}
                      /\ identity[x].user \in registered
=============================================================================
