------------------------------- MODULE Sessions -------------------------------
(***************************************************************************)
(* One account and one browser that is signed in to it                     *)
(* (services/auth_service, services/password_reset_service, the last third *)
(* of services/admin_user_service, and what lib/api.ts of the frontend     *)
(* does with the answers).                                                 *)
(*                                                                         *)
(* The tabs of the browser share a cookie, which names one row of          *)
(* refresh_tokens.  A refresh revokes that row and gives the browser a     *)
(* child of it.  Each tab has at most one refresh under way, but the tabs  *)
(* do not know of each other: two can present the same row, and the second *)
(* finds it revoked.  Administrators deactivate the account; links that    *)
(* reset its password are issued, superseded, mailed and used.             *)
(*                                                                         *)
(* Left out: what passwords and tokens are made of, and that they expire   *)
(* (an expired JWT is refused before its row is read, and the cookie is as *)
(* old as its JWT).                                                        *)
(***************************************************************************)
EXTENDS Portal, Naturals

CONSTANTS
  MaxTokens,   \* a bound: the rows of refresh_tokens
  MaxResets    \* a bound: the rows of password_reset_tokens

ASSUME SessionAssumption == MaxTokens \in Nat \ {0} /\ MaxResets \in Nat \ {0}

VARIABLES
  enabled,   \* users.is_active
  token,     \* the rows of refresh_tokens, in the order of their insertion
  cookie,    \* the row the browser's cookie names, or 0
  reset,     \* the rows of password_reset_tokens, likewise
  mailed,    \* history: the links mailed
  settled,   \* history: the links that were of no use when one was used
  forfeit,   \* history: the rows the browser has no claim to: revoked without its
             \* hearing of it, or of a family of which a revoked row was presented
  sreq       \* the request in each slot

sessionVars == <<enabled, token, cookie, reset, mailed, settled, forfeit, sreq>>

RefreshTokens == 1..MaxTokens
ResetTokens == 1..MaxResets

NoToken == [state |-> "none", parent |-> 0]
NoReset == [there |-> FALSE, void |-> FALSE, used |-> FALSE, recent |-> FALSE]

Live == {t \in RefreshTokens : token[t].state = "live"}

\* Neither used nor superseded.
Pending == {r \in ResetTokens : reset[r].there /\ ~reset[r].void /\ ~reset[r].used}

\* The row the next INSERT makes.
FreshToken == CHOOSE t \in RefreshTokens :
                /\ token[t] = NoToken
                /\ \A s \in 1..(t - 1) : token[s] # NoToken
FreshReset == CHOOSE r \in ResetTokens :
                /\ ~reset[r].there
                /\ \A s \in 1..(r - 1) : reset[s].there

SessionInit ==
  /\ enabled = TRUE
  /\ token = [t \in RefreshTokens |-> NoToken]
  /\ cookie = 0
  /\ reset = [r \in ResetTokens |-> NoReset]
  /\ mailed = {} /\ settled = {} /\ forfeit = {}
  /\ sreq = [c \in Requests |-> Idle]

Goes(c, r) == sreq' = [sreq EXCEPT ![c] = r]

Revoked(rows, reason) ==
  [t \in RefreshTokens |->
     IF t \in rows THEN [token[t] EXCEPT !.state = reason] ELSE token[t]]

(***************************************************************************)
(* Login, refresh and logout.                                              *)
(***************************************************************************)

\* login: the user is there, active, and the password is right (authenticate).
BeginLogin(c) ==
  /\ sreq[c] = Idle
  /\ enabled
  /\ Goes(c, [pc |-> "login"])
  /\ UNCHANGED <<enabled, token, cookie, reset, mailed, settled, forfeit>>

\* issue_token_pair.
CommitLogin(c) ==
  /\ sreq[c].pc = "login"
  /\ token[MaxTokens] = NoToken
  /\ token' = [token EXCEPT ![FreshToken] = [state |-> "live", parent |-> 0]]
  /\ Goes(c, [pc |-> "answer", sent |-> 0, gives |-> FreshToken])
  /\ UNCHANGED <<enabled, cookie, reset, mailed, settled, forfeit>>

\* A 401 makes the tab refresh, once for all the calls that got one.
BeginRefresh(c) ==
  /\ sreq[c] = Idle
  /\ cookie # 0
  /\ Goes(c, [pc |-> "refresh", sent |-> cookie])
  /\ UNCHANGED <<enabled, token, cookie, reset, mailed, settled, forfeit>>

\* All that descends from the login that t descends from.
Family(t) ==
  LET Root[s \in RefreshTokens] ==
        IF token[s].parent = 0 THEN s ELSE Root[token[s].parent]
  IN {s \in RefreshTokens : token[s] # NoToken /\ Root[s] = Root[t]}

\* _revoke_chain: the row and what it descends from.
Chain(t) ==
  LET Up[s \in 0..MaxTokens] == IF s = 0 THEN {} ELSE {s} \union Up[token[s].parent]
  IN Up[t]

\* rotate_refresh, which finds the row revoked (and answers 401, which leaves the
\* cookie as it is), or the user inactive.
RefuseRefresh(c) ==
  LET t == sreq[c].sent IN
  /\ sreq[c].pc = "refresh"
  /\ \/ /\ token[t].state # "live"
        /\ token' = Revoked(Chain(t) \intersect Live, "reuse_detected")
        /\ forfeit' = forfeit \union Family(t)
     \/ token[t].state = "live" /\ ~enabled /\ UNCHANGED <<token, forfeit>>
  /\ Goes(c, Idle)
  /\ UNCHANGED <<enabled, cookie, reset, mailed, settled>>

\* rotate_refresh, which finds the row live and the user active.
ReadToken(c) ==
  /\ sreq[c].pc = "refresh"
  /\ token[sreq[c].sent].state = "live" /\ enabled
  /\ Goes(c, [sreq[c] EXCEPT !.pc = "rotate"])
  /\ UNCHANGED <<enabled, token, cookie, reset, mailed, settled, forfeit>>

\* The row is revoked, whatever has become of it since, and a child of it inserted.
CommitRotation(c) ==
  LET t == sreq[c].sent IN
  /\ sreq[c].pc = "rotate"
  /\ token[MaxTokens] = NoToken
  /\ token' = [Revoked({t}, "rotated") EXCEPT
                 ![FreshToken] = [state |-> "live", parent |-> t]]
  /\ Goes(c, [pc |-> "answer", sent |-> t, gives |-> FreshToken])
  /\ UNCHANGED <<enabled, cookie, reset, mailed, settled, forfeit>>

BeginLogout(c) ==
  /\ sreq[c] = Idle
  /\ Goes(c, [pc |-> "logout", sent |-> cookie])
  /\ UNCHANGED <<enabled, token, cookie, reset, mailed, settled, forfeit>>

\* revoke_refresh.
ReadLogout(c) ==
  LET t == sreq[c].sent IN
  /\ sreq[c].pc = "logout"
  /\ IF t \in Live
     THEN Goes(c, [sreq[c] EXCEPT !.pc = "revoke"])
     ELSE Goes(c, [pc |-> "answer", sent |-> t, gives |-> 0])
  /\ UNCHANGED <<enabled, token, cookie, reset, mailed, settled, forfeit>>

\* Wrong on purpose: every session of the user ends.
LogoutEverywhere(c) ==
  /\ sreq[c].pc = "revoke"
  /\ token' = Revoked(Live, "logout")
  /\ Goes(c, [pc |-> "answer", sent |-> sreq[c].sent, gives |-> 0])
  /\ UNCHANGED <<enabled, cookie, reset, mailed, settled, forfeit>>

CommitLogout(c) ==
  LET t == sreq[c].sent IN
  /\ sreq[c].pc = "revoke"
  /\ token' = Revoked({t}, "logout")
  /\ Goes(c, [pc |-> "answer", sent |-> t, gives |-> 0])
  /\ UNCHANGED <<enabled, cookie, reset, mailed, settled, forfeit>>

\* The answer sets the cookie, or clears it.
ReceiveAnswer(c) ==
  /\ sreq[c].pc = "answer"
  /\ cookie' = sreq[c].gives
  /\ Goes(c, Idle)
  /\ UNCHANGED <<enabled, token, reset, mailed, settled, forfeit>>

\* The answer does not reach the browser: it keeps a cookie that is of no use.
LoseAnswer(c) ==
  /\ sreq[c].pc = "answer"
  /\ forfeit' = forfeit \union ({sreq[c].sent} \ {0})
  /\ Goes(c, Idle)
  /\ UNCHANGED <<enabled, token, cookie, reset, mailed, settled>>

(***************************************************************************)
(* Administrators.                                                         *)
(***************************************************************************)

\* deactivate_user, which reads the rows that are live.
BeginDeactivation(c) ==
  /\ sreq[c] = Idle
  /\ enabled
  /\ Goes(c, [pc |-> "deactivate", rows |-> Live])
  /\ UNCHANGED <<enabled, token, cookie, reset, mailed, settled, forfeit>>

CommitDeactivation(c) ==
  /\ sreq[c].pc = "deactivate"
  /\ enabled' = FALSE
  /\ token' = Revoked(sreq[c].rows, "logout")
  /\ forfeit' = forfeit \union sreq[c].rows
  /\ Goes(c, Idle)
  /\ UNCHANGED <<cookie, reset, mailed, settled>>

\* activate_user.
Activate ==
  /\ ~enabled
  /\ enabled' = TRUE
  /\ UNCHANGED <<token, cookie, reset, mailed, settled, forfeit, sreq>>

(***************************************************************************)
(* Resetting the password.                                                 *)
(***************************************************************************)

\* request_password_reset and initiate_password_reset, up to the rows they will
\* supersede.  The first is for an active user with no link of late, the second
\* is the administrator's.
BeginReset(c, by) ==
  /\ sreq[c] = Idle
  /\ by = "user" => enabled /\ \A r \in Pending : ~reset[r].recent
  /\ Goes(c, [pc |-> "reset", by |-> by, rows |-> Pending])
  /\ UNCHANGED <<enabled, token, cookie, reset, mailed, settled, forfeit>>

\* Wrong on purpose: the row is added before the rows to supersede are read,
\* which flushes it, so that it is one of them.
IssueAndSupersede(c) ==
  LET req == sreq[c] IN
  /\ req.pc = "reset"
  /\ ~reset[MaxResets].there
  /\ reset' = [r \in ResetTokens |->
                 IF r = FreshReset
                 THEN [there |-> TRUE, void |-> TRUE, used |-> FALSE, recent |-> TRUE]
                 ELSE [reset[r] EXCEPT !.void = @ \/ r \in req.rows]]
  /\ Goes(c, IF req.by = "user" THEN [pc |-> "mail", row |-> FreshReset] ELSE Idle)
  /\ UNCHANGED <<enabled, token, cookie, mailed, settled, forfeit>>

\* The rows that were read are superseded, and a new one is inserted.
IssueReset(c) ==
  LET req == sreq[c] IN
  /\ req.pc = "reset"
  /\ ~reset[MaxResets].there
  /\ reset' = [r \in ResetTokens |->
                 IF r = FreshReset
                 THEN [there |-> TRUE, void |-> FALSE, used |-> FALSE, recent |-> TRUE]
                 ELSE [reset[r] EXCEPT !.void = @ \/ r \in req.rows]]
  /\ Goes(c, IF req.by = "user" THEN [pc |-> "mail", row |-> FreshReset] ELSE Idle)
  /\ UNCHANGED <<enabled, token, cookie, mailed, settled, forfeit>>

\* _enqueue_reset_email, for the user's own; a failure of the broker is swallowed.
MailReset(c) ==
  /\ sreq[c].pc = "mail"
  /\ mailed' \in {mailed, mailed \union {sreq[c].row}}
  /\ Goes(c, Idle)
  /\ UNCHANGED <<enabled, token, cookie, reset, settled, forfeit>>

\* PASSWORD_RESET_EMAIL_COOLDOWN_SECONDS have passed.
CooldownEnds(r) ==
  /\ reset[r].recent
  /\ reset' = [reset EXCEPT ![r].recent = FALSE]
  /\ UNCHANGED <<enabled, token, cookie, mailed, settled, forfeit, sreq>>

\* consume_reset_token: the link is good, the user active; the sessions are read.
BeginConsume(c, r) ==
  /\ sreq[c] = Idle
  /\ r \in Pending \intersect mailed
  /\ enabled
  /\ Goes(c, [pc |-> "consume", row |-> r, rows |-> Live])
  /\ UNCHANGED <<enabled, token, cookie, reset, mailed, settled, forfeit>>

\* The password, the link and the sessions, which end as if reused.
CommitConsume(c) ==
  /\ sreq[c].pc = "consume"
  /\ reset' = [reset EXCEPT ![sreq[c].row].used = TRUE]
  /\ token' = Revoked(sreq[c].rows, "reuse_detected")
  /\ settled' = settled \union {r \in ResetTokens : reset[r].there /\ r \notin Pending'}
  /\ forfeit' = forfeit \union sreq[c].rows
  /\ Goes(c, Idle)
  /\ UNCHANGED <<enabled, cookie, mailed>>

\* The request fails or its server dies before the commit.
EndSessionReq(c) ==
  /\ sreq[c].pc \notin {"idle", "answer", "mail"}
  /\ Goes(c, Idle)
  /\ UNCHANGED <<enabled, token, cookie, reset, mailed, settled, forfeit>>

\* login, refresh and logout, of one browser's tabs.
CookieRequests(c) ==
  \/ BeginLogin(c) \/ CommitLogin(c)
  \/ BeginRefresh(c) \/ RefuseRefresh(c) \/ ReadToken(c) \/ CommitRotation(c)
  \/ BeginLogout(c) \/ ReadLogout(c) \/ CommitLogout(c)
  \/ ReceiveAnswer(c) \/ LoseAnswer(c)

\* forgot_password, an administrator's reset, and reset_password.
ResetRequests(c) ==
  \/ \E by \in {"user", "admin"} : BeginReset(c, by)
  \/ IssueReset(c) \/ MailReset(c)
  \/ \E r \in ResetTokens : BeginConsume(c, r)
  \/ CommitConsume(c)

SessionNext ==
  \/ Activate
  \/ \E r \in ResetTokens : CooldownEnds(r)
  \/ \E c \in Requests :
       \/ CookieRequests(c) \/ ResetRequests(c)
       \/ BeginDeactivation(c) \/ CommitDeactivation(c) \/ EndSessionReq(c)

SessionSpec == SessionInit /\ [][SessionNext]_sessionVars

(***************************************************************************)
(* Properties.                                                             *)
(***************************************************************************)

Reasons == {"rotated", "logout", "reuse_detected"}

SessionRequests ==
  {Idle, [pc |-> "login"]}
    \union [pc : {"refresh", "rotate"}, sent : RefreshTokens]
    \union [pc : {"logout", "revoke"}, sent : 0..MaxTokens]
    \union [pc : {"answer"}, sent : 0..MaxTokens, gives : 0..MaxTokens]
    \union [pc : {"deactivate"}, rows : SUBSET RefreshTokens]
    \union [pc : {"reset"}, by : {"user", "admin"}, rows : SUBSET ResetTokens]
    \union [pc : {"mail"}, row : ResetTokens]
    \union [pc : {"consume"}, row : ResetTokens, rows : SUBSET RefreshTokens]

\* Every variable stays in its domain.
SessionTypeOK ==
  /\ enabled \in BOOLEAN
  /\ token \in [RefreshTokens -> [state : Reasons \union {"none", "live"},
                                  parent : 0..MaxTokens]]
  /\ cookie \in 0..MaxTokens
  /\ reset \in [ResetTokens -> [there : BOOLEAN, void : BOOLEAN, used : BOOLEAN,
                                recent : BOOLEAN]]
  /\ mailed \subseteq ResetTokens /\ settled \subseteq ResetTokens
  /\ forfeit \subseteq RefreshTokens
  /\ sreq \in [Requests -> SessionRequests]

\* With no answer to come, the cookie the browser holds is good for another
\* refresh: tabs that refresh at the same time, log in and log out in any order, do
\* not end the browser's session between them.  Not claimed of a row that a
\* deactivation, a reset or a request whose answer was lost has revoked, nor of a
\* family of which a revoked row was presented: there the documentation has the
\* whole chain revoked, while _revoke_chain revokes ancestors only.
TabsStaySignedIn ==
  /\ cookie # 0
  /\ \A c \in Requests :
       sreq[c].pc \notin {"login", "refresh", "rotate", "logout", "revoke", "answer"}
  => cookie \in Live \union forfeit

\* The links whose plaintext somebody has: the owner, or a request that will mail it.
Delivered == mailed \union {sreq[c].row : c \in {d \in Requests : sreq[d].pc = "mail"}}

IsNewest(r) == reset[r].there /\ \A q \in ResetTokens : reset[q].there => q <= r

\* Once links have been mailed and until one is used, one that is mailed, or about to
\* be, is good, however the requests for links overlap: what supersedes a link does not
\* supersede itself, and two do not each other.  The exception: the newest link is in
\* nobody's hands, for it is an administrator's, who discards it, or the broker refused
\* its mail.  Such a link supersedes a mailed one all the same.
AMailedLinkWorks ==
  mailed \ settled # {} =>
    \/ Pending \intersect Delivered # {}
    \/ \E r \in ResetTokens \ Delivered : IsNewest(r)
===============================================================================
