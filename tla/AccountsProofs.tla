---------------------------- MODULE AccountsProofs ----------------------------
(***************************************************************************)
(* Theorems of ApiKeys, SignIns and Sessions, for any number of keys,      *)
(* accounts and requests.                                                  *)
(*                                                                         *)
(* RevocationSticks: a commit writes single columns of the row of now,     *)
(* whatever the request read of it (KeyWritten).                           *)
(*                                                                         *)
(* SameAccount: links are numbered as they are made.  What a callback      *)
(* knows of a link is the link of now or an older one (Known), and while a *)
(* callback has inserted a link that it has not committed nobody else      *)
(* links that account or its user (InHand, Apart).                         *)
(*                                                                         *)
(* TabsStaySignedIn: a row of refresh_tokens descends from rows that are   *)
(* revoked (FamilyOK), so a replay revokes nothing that is live; what an   *)
(* answer is about to give the browser is good, and is known to no other   *)
(* request (Standing, Private).  AMailedLinkWorks: nothing supersedes the  *)
(* newest link, and if that was used, nothing that was not good still is   *)
(* left unsettled (LinksOK).                                               *)
(***************************************************************************)
EXTENDS ApiKeys, SignIns, Sessions, NumberLemmas, TLAPS

-------------------------------------------------------------------------------
\* API keys.

IssueRequests == [pc : {"issue"}, row : KeyRows]
RevokeRequests == [pc : {"revoke"}, key : Keys, by : Issuers]
UseRequests == [pc : {"use"}, key : Keys]
KeyRequests == {Idle} \union IssueRequests \union RevokeRequests \union UseRequests

LEMMA KeyKinds ==
  ASSUME KeyTypeOK, NEW c \in Requests
  PROVE  /\ kreq \in [Requests -> KeyRequests]
         /\ kreq[c] \in KeyRequests
         /\ kreq[c].pc = "issue" => kreq[c] \in IssueRequests
         /\ kreq[c].pc = "revoke" => kreq[c] \in RevokeRequests
         /\ kreq[c].pc = "use" => kreq[c] \in UseRequests
  <1>1. kreq \in [Requests -> KeyRequests]
    BY DEF KeyTypeOK, KeyRequests, IssueRequests, RevokeRequests, UseRequests
  <1>2. kreq[c] \in KeyRequests
    BY <1>1
  <1> QED
    BY <1>1, <1>2 DEF KeyRequests, IssueRequests, RevokeRequests, UseRequests, Idle

LEMMA NoKeyIsRow == NoKey \in KeyRows
  BY DEF NoKey, KeyRows

\* A step in which request c becomes r.
LEMMA KeyOneSlot ==
  ASSUME KeyTypeOK, NEW c \in Requests, NEW r \in KeyRequests,
         UNCHANGED <<owner, supers, rank>>, kreq' = [kreq EXCEPT ![c] = r],
         key' \in [Keys -> KeyRows]
  PROVE  KeyTypeOK'
  <1>1. kreq' \in [Requests -> KeyRequests]
    BY KeyKinds
  <1> QED
    BY <1>1 DEF KeyTypeOK, KeyRequests, IssueRequests, RevokeRequests, UseRequests

\* What remains of a row of which another is made.
Remains(old, new) ==
  /\ old.revoked => new.revoked
  /\ old.used => new.used
  /\ \A column \in {"scope", "team", "project", "by"} : new[column] = old[column]

\* A commit writes single columns of the row of now.
LEMMA KeyWritten ==
  ASSUME KeyTypeOK, NEW c \in Requests, CommitRevoke(c) \/ Touch(c)
  PROVE  \E k \in Keys, row \in KeyRows :
           key' = [key EXCEPT ![k] = row] /\ Remains(key[k], row)
  <1> DEFINE k == kreq[c].key
  <1>1. CASE CommitRevoke(c)
    <2> DEFINE row == [key[k] EXCEPT !.revoked = TRUE, !.revoker = kreq[c].by]
    <2>1. k \in Keys /\ kreq[c].by \in Issuers
      BY <1>1, KeyKinds DEF CommitRevoke, RevokeRequests
    <2>2. key[k] \in KeyRows
      BY <2>1 DEF KeyTypeOK
    <2>3. row \in KeyRows /\ Remains(key[k], row)
      BY <2>1, <2>2 DEF KeyRows, Remains
    <2>4. key' = [key EXCEPT ![k] = row]
      BY <1>1, <2>1, <2>2 DEF CommitRevoke, KeyTypeOK
    <2> QED
      BY <2>1, <2>3, <2>4
  <1>2. CASE Touch(c)
    <2> DEFINE row == [key[k] EXCEPT !.used = TRUE]
    <2>1. k \in Keys
      BY <1>2, KeyKinds DEF Touch, UseRequests
    <2>2. key[k] \in KeyRows
      BY <2>1 DEF KeyTypeOK
    <2>3. row \in KeyRows /\ Remains(key[k], row)
      BY <2>1, <2>2 DEF KeyRows, Remains
    <2>4. key' = [key EXCEPT ![k] = row]
      BY <1>2, <2>1, <2>2 DEF Touch, KeyTypeOK
    <2> QED
      BY <2>1, <2>3, <2>4
  <1> QED
    BY <1>1, <1>2

LEMMA KeyTypeStep ==
  ASSUME KeyTypeOK, [KeyNext]_keyVars
  PROVE  KeyTypeOK'
  <1>0. Idle \in KeyRequests
    BY DEF KeyRequests
  <1>1. ASSUME NEW t \in Tenants, NEW u \in Issuers, NEW r \in Ranks, Regrade(t, u, r)
        PROVE  KeyTypeOK'
    BY <1>1 DEF Regrade, KeyTypeOK
  <1>2. ASSUME NEW c \in Requests, NEW u \in Issuers, NEW scope \in {"org", "team", "project"},
               NEW team \in Tenants \union {Null}, NEW project \in Projects \union {Null},
               BeginIssue(c, u, scope, team, project)
        PROVE  KeyTypeOK'
    <2> DEFINE pt == IF scope = "project" THEN owner[project] ELSE Null
               row == [NoKey EXCEPT !.scope = scope, !.project = project, !.by = u,
                                    !.team = IF scope = "project" THEN pt ELSE team]
               r == [pc |-> "issue", row |-> row]
    <2>1. Coherent(scope, team, project) /\ kreq' = [kreq EXCEPT ![c] = r]
      BY <1>2 DEF BeginIssue
    <2>2. scope = "project" => owner[project] \in Tenants
      BY <2>1 DEF Coherent, KeyTypeOK
    <2>3. row \in KeyRows
      BY <2>2 DEF NoKey, KeyRows
    <2> HIDE DEF row
    <2>4. r \in KeyRequests
      BY <2>3 DEF KeyRequests, IssueRequests
    <2> QED
      BY <1>2, <2>1, <2>4, KeyOneSlot DEF BeginIssue, KeyTypeOK
  <1>3. ASSUME NEW c \in Requests, NEW k \in Keys, CommitIssue(c, k)
        PROVE  KeyTypeOK'
    <2>1. key' \in [Keys -> KeyRows]
      BY <1>3, KeyKinds DEF CommitIssue, IssueRequests, KeyTypeOK
    <2> QED
      BY <1>0, <1>3, <2>1, KeyOneSlot DEF CommitIssue
  <1>4. ASSUME NEW c \in Requests, NEW u \in Issuers, NEW k \in Keys, BeginRevoke(c, u, k)
        PROVE  KeyTypeOK'
    <2> DEFINE r == [pc |-> "revoke", key |-> k, by |-> u]
    <2>1. r \in KeyRequests
      BY DEF KeyRequests, RevokeRequests
    <2> QED
      BY <1>4, <2>1, KeyOneSlot DEF BeginRevoke, KeyTypeOK
  <1>5. ASSUME NEW c \in Requests, CommitRevoke(c)
        PROVE  KeyTypeOK'
    <2>1. key' \in [Keys -> KeyRows]
      BY <1>5, KeyWritten DEF KeyTypeOK
    <2> QED
      BY <1>0, <1>5, <2>1, KeyOneSlot DEF CommitRevoke
  <1>6. ASSUME NEW c \in Requests, NEW k \in Keys, BeginUse(c, k)
        PROVE  KeyTypeOK'
    <2> DEFINE r == [pc |-> "use", key |-> k]
    <2>1. r \in KeyRequests
      BY DEF KeyRequests, UseRequests
    <2> QED
      BY <1>6, <2>1, KeyOneSlot DEF BeginUse, KeyTypeOK
  <1>7. ASSUME NEW c \in Requests, Touch(c)
        PROVE  KeyTypeOK'
    <2>1. key' \in [Keys -> KeyRows]
      BY <1>7, KeyWritten DEF KeyTypeOK
    <2> QED
      BY <1>0, <1>7, <2>1, KeyOneSlot DEF Touch
  <1>8. ASSUME NEW c \in Requests, EndKeyReq(c)
        PROVE  KeyTypeOK'
    BY <1>0, <1>8, KeyOneSlot DEF EndKeyReq, KeyTypeOK
  <1>9. CASE UNCHANGED keyVars
    BY <1>9 DEF keyVars, KeyTypeOK
  <1> QED
    BY <1>1, <1>2, <1>3, <1>4, <1>5, <1>6, <1>7, <1>8, <1>9 DEF KeyNext, Issuing, Revoking

\* Every variable of ApiKeys stays in its domain.
THEOREM KeyTypeCorrect == KeySpec => []KeyTypeOK
  <1>1. KeyInit => KeyTypeOK
    BY NoKeyIsRow DEF KeyInit, KeyTypeOK, Ranks
  <1> QED
    BY <1>1, KeyTypeStep, PTL DEF KeySpec

\* A revoked key stays revoked, a use that was noted stays noted, and what a key is for
\* never changes, however requests that read it before overlap.
THEOREM KeysStayRevoked == KeySpec => RevocationSticks
  <1>1. ASSUME KeyTypeOK, [KeyNext]_keyVars, NEW k \in Keys, key[k] # NoKey
        PROVE  Remains(key[k], key'[k])
    <2>1. CASE UNCHANGED key
      BY <2>1 DEF Remains
    <2>2. ASSUME NEW c \in Requests, NEW j \in Keys, CommitIssue(c, j)
          PROVE  Remains(key[k], key'[k])
      <3>1. key'[k] = key[k]
        BY <1>1, <2>2 DEF CommitIssue, KeyTypeOK
      <3> QED
        BY <3>1 DEF Remains
    <2>3. ASSUME NEW c \in Requests, CommitRevoke(c) \/ Touch(c)
          PROVE  Remains(key[k], key'[k])
      <3>1. PICK j \in Keys, row \in KeyRows :
              key' = [key EXCEPT ![j] = row] /\ Remains(key[j], row)
        BY <1>1, <2>3, KeyWritten
      <3>2. CASE j = k
        <4>1. key'[k] = row
          BY <1>1, <3>1, <3>2 DEF KeyTypeOK
        <4> QED
          BY <3>1, <3>2, <4>1
      <3>3. CASE j # k
        <4>1. key'[k] = key[k]
          BY <1>1, <3>1, <3>3 DEF KeyTypeOK
        <4> QED
          BY <4>1 DEF Remains
      <3> QED
        BY <3>2, <3>3
    <2> QED
      BY <1>1, <2>1, <2>2, <2>3
      DEF KeyNext, keyVars, Regrade, Issuing, Revoking, BeginIssue, BeginRevoke, BeginUse,
          EndKeyReq
  <1>2. KeyTypeOK /\ [KeyNext]_keyVars =>
          [\A k \in Keys : key[k] # NoKey => Remains(key[k], key'[k])]_keyVars
    BY <1>1
  <1> QED
    BY <1>2, KeyTypeCorrect, PTL DEF KeySpec, RevocationSticks, Remains

-------------------------------------------------------------------------------
\* Signing in with an account at a provider.

Flights ==
  [pc   : {"known", "unknown", "link", "linkLate", "again", "create", "team",
           "identity", "ready"},
   x    : Accounts,
   mail : Emails,
   link : Links,
   rows : SUBSET UniqueKeys]

LEMMA SignInKinds ==
  ASSUME SignInTypeOK, NEW c \in Requests
  PROVE  /\ xreq \in [Requests -> SignInRequests]
         /\ xreq[c] \in SignInRequests
         /\ xreq[c].pc \notin {"idle", "unlink"} => xreq[c] \in Flights
         /\ xreq[c].pc = "unlink" =>
              /\ xreq[c] \in [pc : {"unlink"}, x : Accounts, link : Links]
              /\ xreq[c].x \in Accounts
         /\ xreq[c] # Idle => xreq[c].pc # "idle"
  <1>1. xreq[c] \in SignInRequests
    BY DEF SignInTypeOK
  <1> QED
    BY <1>1 DEF SignInTypeOK, SignInRequests, Flights, Idle

LEMMA LinksAreRecords ==
  /\ NoLink \in Links
  /\ \A l \in Links : l # NoLink => l.user \in Emails /\ l.nr \in 0..MaxUnlinks
  /\ \A u \in Emails, n \in 0..MaxUnlinks :
       [user |-> u, nr |-> n] \in Links /\ [user |-> u, nr |-> n] # NoLink
  BY SignInAssumption DEF Links, NoLink

LEMMA KeysAreApart ==
  /\ \A e \in Emails : Key("users", e) \in UniqueKeys
  /\ \A x \in Accounts : Key("teams", x) \in UniqueKeys /\ Key("identities", x) \in UniqueKeys
  /\ \A y, z : Key("users", y) # Key("identities", z) /\ Key("teams", y) # Key("identities", z)
               /\ Key("users", y) # Key("teams", z)
  BY DEF Key, UniqueKeys

InsertedBy(r) == IF r.pc \in {"idle", "unlink"} THEN {} ELSE r.rows

\* A link of x that was read: it is the link of now, or older than any there will be.
Known(x, l) ==
  /\ l # NoLink
  /\ l.nr <= unlinks
  /\ IF Linked(x) THEN identity[x] = l \/ l.nr < identity[x].nr ELSE l.nr < unlinks

\* What a request knows and has inserted.  Nobody links the account of a request
\* that has inserted a link of it.
InHand(r) ==
  /\ r.pc \in {"known", "unknown", "link", "linkLate", "again", "create"} => r.rows = {}
  /\ r.pc \in {"link", "linkLate"} => r.mail \in registered
  /\ r.pc \in {"team", "identity"} => Key("users", r.mail) \in r.rows
  /\ r.pc = "known" => Known(r.x, r.link)
  /\ r.pc = "ready" =>
       /\ Key("identities", r.x) \in r.rows
       /\ r.link # NoLink /\ r.link.user = r.mail
       /\ r.link.nr \in 0..unlinks
       /\ ~Linked(r.x)
       /\ r.mail \in registered \/ Key("users", r.mail) \in r.rows

\* No row is inserted twice, and a link that is read is older than one that is inserted.
Apart(q, r) ==
  /\ InsertedBy(q) \intersect InsertedBy(r) = {}
  /\ q.pc = "known" /\ r.pc = "ready" /\ q.x = r.x => q.link.nr < r.link.nr

SignInInv ==
  /\ SignInTypeOK
  /\ \A x \in Accounts : Linked(x) => identity[x].nr <= unlinks
                                      /\ identity[x].user \in registered
  /\ \A x \in Accounts : signed[x] \subseteq (IF Linked(x) THEN {identity[x].user} ELSE {})
  /\ \A c \in Requests : InHand(xreq[c])
  /\ \A c, d \in Requests : c # d => Apart(xreq[c], xreq[d])

LEMMA SignInInvInit == SignInInit => SignInInv
  BY SignInAssumption, LinksAreRecords
     DEF SignInInit, SignInInv, SignInTypeOK, SignInRequests, Idle, InHand, Apart,
     InsertedBy, Linked

\* A step in which request c becomes r and nothing else changes.
LEMMA SignInOneSlot ==
  ASSUME SignInInv, NEW c \in Requests, NEW r \in SignInRequests, Moves(c, r),
         UNCHANGED <<email, registered, identity, slugs, unlinks, signed>>,
         InHand(r),
         \A d \in Requests \ {c} : Apart(r, xreq[d]) /\ Apart(xreq[d], r)
  PROVE  SignInInv'
  <1>1. \A d \in Requests : xreq'[d] = IF d = c THEN r ELSE xreq[d]
    BY SignInKinds DEF SignInInv, Moves
  <1>2. SignInTypeOK'
    BY SignInKinds DEF SignInInv, SignInTypeOK, Moves
  <1>3. ASSUME NEW d \in Requests
        PROVE  InHand(xreq[d])'
    <2>1. InHand(IF d = c THEN r ELSE xreq[d])
      BY DEF SignInInv
    <2>2. xreq'[d] = IF d = c THEN r ELSE xreq[d]
      BY <1>1
    <2> DEFINE q == IF d = c THEN r ELSE xreq[d]
    <2> HIDE DEF q
    <2>3. InHand(q) /\ xreq'[d] = q
      BY <2>1, <2>2 DEF q
    <2> QED
      BY <2>3 DEF InHand, Known, Linked
  <1>4. ASSUME NEW a \in Requests, NEW b \in Requests, a # b
        PROVE  Apart(xreq[a], xreq[b])'
    <2>1. CASE a = c
      <3>1. Apart(r, xreq[b]) /\ xreq'[a] = r /\ xreq'[b] = xreq[b]
        BY <1>1, <1>4, <2>1
      <3> QED
        BY <3>1 DEF Apart, InsertedBy
    <2>2. CASE b = c
      <3>1. Apart(xreq[a], r) /\ xreq'[b] = r /\ xreq'[a] = xreq[a]
        BY <1>1, <1>4, <2>2
      <3> QED
        BY <3>1 DEF Apart, InsertedBy
    <2>3. CASE a # c /\ b # c
      <3>1. Apart(xreq[a], xreq[b]) /\ xreq'[b] = xreq[b] /\ xreq'[a] = xreq[a]
        BY <1>1, <1>4, <2>3 DEF SignInInv
      <3> QED
        BY <3>1 DEF Apart, InsertedBy
    <2> QED
      BY <2>1, <2>2, <2>3
  <1>5. \A x \in Accounts : (Linked(x) => identity[x].nr <= unlinks
                                         /\ identity[x].user \in registered)'
    BY DEF SignInInv, Linked
  <1>6. \A x \in Accounts : (signed[x] \subseteq (IF Linked(x) THEN {identity[x].user} ELSE {}))'
    BY DEF SignInInv, Linked
  <1> QED
    BY <1>2, <1>3, <1>4, <1>5, <1>6 DEF SignInInv

\* A request that has inserted nothing, and does not sign in, is apart from the others.
LEMMA NothingInserted ==
  ASSUME NEW c \in Requests, NEW r, InsertedBy(r) = {}, r.pc \notin {"known", "ready"}
  PROVE  \A d \in Requests \ {c} : Apart(r, xreq[d]) /\ Apart(xreq[d], r)
  BY DEF Apart

LEMMA EndOfSignIn ==
  ASSUME SignInInv, NEW c \in Requests, Moves(c, Idle),
         UNCHANGED <<email, registered, identity, slugs, unlinks, signed>>
  PROVE  SignInInv'
  <1>1. Idle \in SignInRequests /\ Idle.pc = "idle" /\ InsertedBy(Idle) = {}
    BY DEF Idle, SignInRequests, InsertedBy
  <1>2. InHand(Idle)
    BY <1>1 DEF InHand
  <1> QED
    BY <1>1, <1>2, SignInOneSlot, NothingInserted

\* What a callback that inserts key k into nobody's way needs.
LEMMA FreeKeyIsApart ==
  ASSUME SignInInv, NEW c \in Requests, NEW k, KeyFree(c, k), NEW r,
         xreq[c].pc \notin {"idle", "unlink"}, r.pc \notin {"idle", "unlink", "known"},
         r.rows \subseteq xreq[c].rows \union {k}
  PROVE  \A d \in Requests \ {c} : InsertedBy(r) \intersect InsertedBy(xreq[d]) = {}
  <1>1. ASSUME NEW d \in Requests \ {c}
        PROVE  InsertedBy(r) \intersect InsertedBy(xreq[d]) = {}
    <2>1. InsertedBy(xreq[c]) \intersect InsertedBy(xreq[d]) = {}
      BY DEF SignInInv, Apart
    <2>2. k \notin InsertedBy(xreq[d])
      BY DEF KeyFree, Inserted, InsertedBy
    <2>3. InsertedBy(xreq[c]) = xreq[c].rows /\ InsertedBy(r) = r.rows
      BY DEF InsertedBy
    <2> QED
      BY <2>1, <2>2, <2>3
  <1> QED
    BY <1>1

LEMMA BeginSignInKeeps ==
  ASSUME SignInInv, NEW c \in Requests, NEW x \in Accounts, BeginSignIn(c, x)
  PROVE  SignInInv'
  <1> DEFINE r == [pc |-> IF Linked(x) THEN "known" ELSE "unknown", x |-> x,
                   mail |-> email[x], link |-> identity[x], rows |-> {}]
  <1>1. r \in SignInRequests
    BY DEF SignInInv, SignInTypeOK, SignInRequests
  <1>2. /\ r.pc = IF Linked(x) THEN "known" ELSE "unknown"
        /\ r.x = x /\ r.link = identity[x] /\ r.rows = {}
    OBVIOUS
  <1> HIDE DEF r
  <1>3. InHand(r)
    BY <1>2 DEF InHand, SignInInv, Known, Linked
  <1>4. \A d \in Requests \ {c} : Apart(r, xreq[d]) /\ Apart(xreq[d], r)
    BY <1>2 DEF SignInInv, InHand, Apart, InsertedBy
  <1> QED
    BY <1>1, <1>3, <1>4, SignInOneSlot DEF BeginSignIn, r

LEMMA ReadByEmailKeeps ==
  ASSUME SignInInv, NEW c \in Requests, ReadByEmail(c)
  PROVE  SignInInv'
  <1> DEFINE r == [xreq[c] EXCEPT !.pc = IF xreq[c].mail \in registered THEN "link" ELSE "create"]
  <1>1. xreq[c] \in Flights /\ xreq[c].rows = {}
    BY SignInKinds DEF ReadByEmail, SignInInv, InHand
  <1>2. r \in SignInRequests
    BY <1>1 DEF Flights, SignInRequests
  <1>3. InHand(r) /\ InsertedBy(r) = {} /\ r.pc \notin {"known", "ready"}
    BY <1>1 DEF InHand, Flights, InsertedBy
  <1> QED
    BY <1>2, <1>3, SignInOneSlot, NothingInserted DEF ReadByEmail

LEMMA LinkUserKeeps ==
  ASSUME SignInInv, NEW c \in Requests, LinkUser(c)
  PROVE  SignInInv'
  <1> DEFINE x == xreq[c].x
             k == Key("identities", x)
             again == [xreq[c] EXCEPT !.pc = "again"]
             ready == [xreq[c] EXCEPT !.pc = "ready", !.link = OwnLink(c), !.rows = {k}]
  <1>1. xreq[c] \in Flights /\ xreq[c].rows = {} /\ xreq[c].mail \in registered
    BY SignInKinds DEF LinkUser, SignInInv, InHand
  <1>2. x \in Accounts /\ k \in UniqueKeys
    BY <1>1, KeysAreApart DEF Flights
  <1>3. CASE Linked(x)
    <2>1. again \in SignInRequests
      BY <1>1 DEF Flights, SignInRequests
    <2>2. InHand(again) /\ InsertedBy(again) = {} /\ again.pc \notin {"known", "ready"}
      BY <1>1 DEF InHand, Flights, InsertedBy
    <2> QED
      BY <1>3, <2>1, <2>2, SignInOneSlot, NothingInserted, EndOfSignIn DEF LinkUser
  <1>4. CASE ~Linked(x)
    <2>1. /\ OwnLink(c) \in Links /\ OwnLink(c) # NoLink
          /\ OwnLink(c).user = xreq[c].mail /\ OwnLink(c).nr = unlinks
          /\ unlinks \in 0..MaxUnlinks
      BY <1>1, LinksAreRecords DEF OwnLink, Flights, SignInInv, SignInTypeOK
    <2>2. /\ ready.pc = "ready" /\ ready.x = x /\ ready.mail = xreq[c].mail
          /\ ready.link = OwnLink(c) /\ ready.rows = {k}
      BY <1>1 DEF Flights
    <2>3. ready \in SignInRequests
      BY <1>1, <1>2, <2>1 DEF Flights, SignInRequests
    <2> HIDE DEF ready
    <2>4. InHand(ready)
      BY <1>1, <1>4, <2>1, <2>2, SignInAssumption DEF InHand
    <2>5. \A d \in Requests \ {c} : InsertedBy(ready) \intersect InsertedBy(xreq[d]) = {}
      BY <1>1, <2>2, FreeKeyIsApart DEF LinkUser
    <2>6. \A d \in Requests \ {c} : Apart(ready, xreq[d]) /\ Apart(xreq[d], ready)
      BY <1>4, <2>1, <2>2, <2>5 DEF Apart, SignInInv, InHand, Known
    <2> QED
      BY <1>4, <2>3, <2>4, <2>6, SignInOneSlot DEF LinkUser, ready
  <1> QED
    BY <1>3, <1>4

LEMMA LookAgainKeeps ==
  ASSUME SignInInv, NEW c \in Requests, LookAgain(c)
  PROVE  SignInInv'
  <1> DEFINE x == xreq[c].x
             r == [xreq[c] EXCEPT !.pc = "known", !.link = identity[x]]
  <1>1. xreq[c] \in Flights /\ xreq[c].rows = {} /\ x \in Accounts
    BY SignInKinds DEF LookAgain, SignInInv, InHand, Flights
  <1>2. CASE Linked(x)
    <2>1. r \in SignInRequests
      BY <1>1 DEF Flights, SignInRequests, SignInInv, SignInTypeOK
    <2>2. r.pc = "known" /\ r.x = x /\ r.link = identity[x] /\ r.rows = {}
      BY <1>1 DEF Flights
    <2> HIDE DEF r
    <2>3. InHand(r)
      BY <1>1, <1>2, <2>2 DEF InHand, SignInInv, Known, Linked
    <2>4. \A d \in Requests \ {c} : Apart(r, xreq[d]) /\ Apart(xreq[d], r)
      BY <1>2, <2>2 DEF SignInInv, InHand, Apart, InsertedBy
    <2> QED
      BY <1>2, <2>1, <2>3, <2>4, SignInOneSlot DEF LookAgain, r
  <1> QED
    BY <1>2, EndOfSignIn DEF LookAgain

LEMMA CreateUserKeeps ==
  ASSUME SignInInv, NEW c \in Requests, CreateUser(c)
  PROVE  SignInInv'
  <1> DEFINE k == Key("users", xreq[c].mail)
             late == [xreq[c] EXCEPT !.pc = "linkLate"]
             r == [xreq[c] EXCEPT !.pc = "team", !.rows = {k}]
  <1>1. xreq[c] \in Flights /\ xreq[c].rows = {}
    BY SignInKinds DEF CreateUser, SignInInv, InHand
  <1>2. CASE xreq[c].mail \in registered
    <2>1. late \in SignInRequests
      BY <1>1 DEF Flights, SignInRequests
    <2>2. InHand(late) /\ InsertedBy(late) = {} /\ late.pc \notin {"known", "ready"}
      BY <1>1, <1>2 DEF InHand, Flights, InsertedBy
    <2> QED
      BY <1>2, <2>1, <2>2, SignInOneSlot, NothingInserted DEF CreateUser
  <1>3. CASE xreq[c].mail \notin registered
    <2>1. /\ r.pc = "team" /\ r.mail = xreq[c].mail /\ r.rows = {k}
          /\ k \in UniqueKeys
      BY <1>1, KeysAreApart DEF Flights
    <2>2. r \in SignInRequests
      BY <1>1, <2>1 DEF Flights, SignInRequests
    <2> HIDE DEF r
    <2>3. InHand(r)
      BY <2>1 DEF InHand
    <2>4. \A d \in Requests \ {c} : InsertedBy(r) \intersect InsertedBy(xreq[d]) = {}
      BY <1>1, <2>1, FreeKeyIsApart DEF CreateUser
    <2>5. \A d \in Requests \ {c} : Apart(r, xreq[d]) /\ Apart(xreq[d], r)
      BY <2>1, <2>4 DEF Apart
    <2> QED
      BY <1>3, <2>2, <2>3, <2>5, SignInOneSlot DEF CreateUser, r
  <1> QED
    BY <1>2, <1>3

LEMMA CreatePersonalTeamKeeps ==
  ASSUME SignInInv, NEW c \in Requests, CreatePersonalTeam(c)
  PROVE  SignInInv'
  <1> DEFINE k == Key("teams", xreq[c].x)
             r == [xreq[c] EXCEPT !.pc = "identity", !.rows = @ \union {k}]
  <1>1. xreq[c] \in Flights /\ Key("users", xreq[c].mail) \in xreq[c].rows
    BY SignInKinds DEF CreatePersonalTeam, SignInInv, InHand
  <1>2. CASE xreq[c].x \in slugs
    BY <1>2, EndOfSignIn DEF CreatePersonalTeam
  <1>3. CASE xreq[c].x \notin slugs
    <2>1. /\ r.pc = "identity" /\ r.mail = xreq[c].mail /\ r.rows = xreq[c].rows \union {k}
          /\ k \in UniqueKeys
      BY <1>1, KeysAreApart DEF Flights
    <2>2. r \in SignInRequests
      BY <1>1, <2>1 DEF Flights, SignInRequests
    <2> HIDE DEF r
    <2>3. InHand(r)
      BY <1>1, <2>1 DEF InHand
    <2>4. \A d \in Requests \ {c} : InsertedBy(r) \intersect InsertedBy(xreq[d]) = {}
      BY <1>1, <2>1, FreeKeyIsApart DEF CreatePersonalTeam
    <2>5. \A d \in Requests \ {c} : Apart(r, xreq[d]) /\ Apart(xreq[d], r)
      BY <2>1, <2>4 DEF Apart
    <2> QED
      BY <1>3, <2>2, <2>3, <2>5, SignInOneSlot DEF CreatePersonalTeam, r
  <1> QED
    BY <1>2, <1>3

LEMMA CreateIdentityKeeps ==
  ASSUME SignInInv, NEW c \in Requests, CreateIdentity(c)
  PROVE  SignInInv'
  <1> DEFINE x == xreq[c].x
             k == Key("identities", x)
             r == [xreq[c] EXCEPT !.pc = "ready", !.rows = @ \union {k}, !.link = OwnLink(c)]
  <1>1. xreq[c] \in Flights /\ Key("users", xreq[c].mail) \in xreq[c].rows /\ x \in Accounts
    BY SignInKinds DEF CreateIdentity, SignInInv, InHand, Flights
  <1>2. CASE Linked(x)
    BY <1>2, EndOfSignIn DEF CreateIdentity
  <1>3. CASE ~Linked(x)
    <2>1. /\ OwnLink(c) \in Links /\ OwnLink(c) # NoLink
          /\ OwnLink(c).user = xreq[c].mail /\ OwnLink(c).nr = unlinks
          /\ unlinks \in 0..MaxUnlinks
      BY <1>1, LinksAreRecords DEF OwnLink, Flights, SignInInv, SignInTypeOK
    <2>2. /\ r.pc = "ready" /\ r.x = x /\ r.mail = xreq[c].mail
          /\ r.link = OwnLink(c) /\ r.rows = xreq[c].rows \union {k}
          /\ k \in UniqueKeys
      BY <1>1, KeysAreApart DEF Flights
    <2>3. r \in SignInRequests
      BY <1>1, <2>1, <2>2 DEF Flights, SignInRequests
    <2> HIDE DEF r
    <2>4. InHand(r)
      BY <1>1, <1>3, <2>1, <2>2, SignInAssumption DEF InHand
    <2>5. \A d \in Requests \ {c} : InsertedBy(r) \intersect InsertedBy(xreq[d]) = {}
      BY <1>1, <2>2, FreeKeyIsApart DEF CreateIdentity
    <2>6. \A d \in Requests \ {c} : Apart(r, xreq[d]) /\ Apart(xreq[d], r)
      BY <1>3, <2>1, <2>2, <2>5 DEF Apart, SignInInv, InHand, Known
    <2> QED
      BY <1>3, <2>3, <2>4, <2>6, SignInOneSlot DEF CreateIdentity, r
  <1> QED
    BY <1>2, <1>3

LEMMA BeginUnlinkKeeps ==
  ASSUME SignInInv, NEW c \in Requests, NEW x \in Accounts, BeginUnlink(c, x)
  PROVE  SignInInv'
  <1> DEFINE r == [pc |-> "unlink", x |-> x, link |-> identity[x]]
  <1>1. r \in SignInRequests
    BY DEF SignInInv, SignInTypeOK, SignInRequests
  <1>2. InHand(r) /\ InsertedBy(r) = {} /\ r.pc \notin {"known", "ready"}
    BY DEF InHand, InsertedBy
  <1> QED
    BY <1>1, <1>2, SignInOneSlot, NothingInserted DEF BeginUnlink

\* A step in which request c ends, and that may change the tables.
LEMMA SignInSlotEnds ==
  ASSUME SignInInv, NEW c \in Requests, Moves(c, Idle), SignInTypeOK',
         \A x \in Accounts : (Linked(x) => identity[x].nr <= unlinks
                                           /\ identity[x].user \in registered)',
         \A x \in Accounts : (signed[x] \subseteq (IF Linked(x) THEN {identity[x].user}
                                                                ELSE {}))',
         \A d \in Requests \ {c} : InHand(xreq[d]) /\ xreq'[d] = xreq[d] => InHand(xreq[d])'
  PROVE  SignInInv'
  <1>1. \A d \in Requests : xreq'[d] = IF d = c THEN Idle ELSE xreq[d]
    BY SignInKinds DEF SignInInv, Moves
  <1>2. ASSUME NEW d \in Requests
        PROVE  InHand(xreq[d])'
    <2>1. CASE d = c
      BY <1>1, <2>1 DEF InHand, Idle
    <2>2. CASE d # c
      BY <1>1, <2>2 DEF SignInInv
    <2> QED
      BY <2>1, <2>2
  <1>3. ASSUME NEW a \in Requests, NEW b \in Requests, a # b
        PROVE  Apart(xreq[a], xreq[b])'
    <2>1. CASE a = c \/ b = c
      BY <1>1, <2>1 DEF Apart, InsertedBy, Idle
    <2>2. CASE a # c /\ b # c
      <3>1. Apart(xreq[a], xreq[b]) /\ xreq'[b] = xreq[b] /\ xreq'[a] = xreq[a]
        BY <1>1, <1>3, <2>2 DEF SignInInv
      <3> QED
        BY <3>1 DEF Apart, InsertedBy
    <2> QED
      BY <2>1, <2>2
  <1> QED
    BY <1>2, <1>3 DEF SignInInv

LEMMA CommitUnlinkKeeps ==
  ASSUME SignInInv, NEW c \in Requests, CommitUnlink(c)
  PROVE  SignInInv'
  <1> DEFINE x == xreq[c].x
  <1>1. x \in Accounts /\ Moves(c, Idle) /\ registered' = registered
    BY SignInKinds DEF CommitUnlink, SignInInv
  <1>2. CASE UNCHANGED <<identity, unlinks, signed>>
    BY <1>2, <1>1, EndOfSignIn DEF CommitUnlink
  <1>3. CASE /\ identity' = [identity EXCEPT ![x] = NoLink]
             /\ unlinks' = unlinks + 1
             /\ signed' = [signed EXCEPT ![x] = {}]
    <2>0. unlinks \in 0..MaxUnlinks /\ unlinks' = unlinks + 1 /\ unlinks' \in 0..MaxUnlinks
      BY <1>3, SignInAssumption DEF SignInInv, SignInTypeOK, CommitUnlink
    <2>1. \A y \in Accounts : /\ identity'[y] = IF y = x THEN NoLink ELSE identity[y]
                              /\ signed'[y] = IF y = x THEN {} ELSE signed[y]
      BY <1>3 DEF SignInInv, SignInTypeOK
    <2>2. Idle \in SignInRequests
      BY DEF SignInRequests
    <2>3. xreq' \in [Requests -> SignInRequests]
      BY <1>1, <2>2, SignInKinds DEF Moves, SignInInv, SignInTypeOK
    <2>4. identity' \in [Accounts -> Links] /\ signed' \in [Accounts -> SUBSET Emails]
      BY <1>3, LinksAreRecords DEF SignInInv, SignInTypeOK
    <2>5. SignInTypeOK'
      BY <2>0, <2>3, <2>4 DEF SignInInv, SignInTypeOK, CommitUnlink
    <2>6. \A y \in Accounts : (Linked(y) => identity[y].nr <= unlinks
                                            /\ identity[y].user \in registered)'
      <3> SUFFICES ASSUME NEW y \in Accounts, identity'[y] # NoLink
                   PROVE  identity'[y].nr <= unlinks' /\ identity'[y].user \in registered'
        BY DEF Linked
      <3>1. y # x /\ identity'[y] = identity[y] /\ identity[y] # NoLink
        BY <2>1
      <3>2. identity[y].nr <= unlinks /\ identity[y].user \in registered
            /\ identity[y].nr \in 0..MaxUnlinks
        BY <3>1, LinksAreRecords DEF SignInInv, SignInTypeOK, Linked
      <3> QED
        BY <3>1, <3>2, <2>0, <1>1
    <2>7. \A y \in Accounts : (signed[y] \subseteq (IF Linked(y) THEN {identity[y].user}
                                                                 ELSE {}))'
      BY <2>1 DEF SignInInv, Linked
    <2>8. ASSUME NEW d \in Requests \ {c}, InHand(xreq[d]), xreq'[d] = xreq[d]
          PROVE  InHand(xreq[d])'
      <3> DEFINE r == xreq[d]
      <3>1. CASE r.pc = "known"
        <4>1. r \in Flights
          BY <3>1, SignInKinds DEF SignInInv
        <4>2. r.x \in Accounts /\ r.link.nr \in 0..MaxUnlinks /\ Known(r.x, r.link)
              /\ r.rows = {}
          BY <2>8, <3>1, <4>1, LinksAreRecords DEF Flights, InHand, Known
        <4>3. Known(r.x, r.link)'
          BY <4>2, <2>0, <2>1, <2>8 DEF Known, Linked
        <4> QED
          BY <3>1, <4>2, <4>3, <2>8 DEF InHand
      <3>2. CASE r.pc = "ready"
        <4>1. r \in Flights
          BY <3>2, SignInKinds DEF SignInInv
        <4>2. /\ r.x \in Accounts /\ Key("identities", r.x) \in r.rows
              /\ r.link # NoLink /\ r.link.user = r.mail
              /\ r.link.nr \in 0..unlinks /\ ~Linked(r.x)
              /\ r.mail \in registered \/ Key("users", r.mail) \in r.rows
          BY <2>8, <3>2, <4>1 DEF Flights, InHand
        <4>3. ~Linked(r.x)' /\ r.link.nr \in 0..unlinks'
          BY <4>2, <2>0, <2>1, <2>8 DEF Linked
        <4> QED
          BY <3>2, <4>2, <4>3, <2>8, <1>1 DEF InHand, Linked
      <3>3. CASE r.pc \notin {"known", "ready"}
        BY <3>3, <2>8, <1>1 DEF InHand
      <3> QED
        BY <3>1, <3>2, <3>3
    <2> QED
      BY <1>1, <2>5, <2>6, <2>7, <2>8, SignInSlotEnds
  <1> QED
    BY <1>2, <1>3 DEF CommitUnlink

\* A callback that finds its account linked commits as the user the account is linked
\* to: a later link has a later number.
LEMMA CommitKnownKeeps ==
  ASSUME SignInInv, NEW c \in Requests, CommitSignIn(c), xreq[c].pc = "known"
  PROVE  SignInInv'
  <1> DEFINE x == xreq[c].x
             link == xreq[c].link
  <1>1. xreq[c] \in Flights /\ x \in Accounts /\ xreq[c].rows = {} /\ Known(x, link)
    BY SignInKinds DEF SignInInv, InHand, Flights
  <1>2. Linked(x) /\ identity[x].nr = link.nr
    BY DEF CommitSignIn
  <1>3. identity[x] = link /\ link # NoLink
    <2>1. identity[x].nr \in 0..MaxUnlinks
      BY <1>1, <1>2, LinksAreRecords DEF SignInInv, SignInTypeOK, Linked
    <2> QED
      BY <1>1, <1>2, <2>1, SignInAssumption DEF Known
  <1>4. /\ registered' = registered /\ slugs' = slugs /\ identity' = identity
        /\ signed' = [signed EXCEPT ![x] = @ \union {link.user}]
        /\ Moves(c, Idle) /\ UNCHANGED <<email, unlinks>>
    <2>1. /\ registered' = registered \union {e \in Emails : Key("users", e) \in {}}
          /\ slugs' = slugs \union {y \in Accounts : Key("teams", y) \in {}}
          /\ identity' = IF Key("identities", x) \in {} THEN [identity EXCEPT ![x] = link]
                                                        ELSE identity
      BY <1>1 DEF CommitSignIn
    <2> QED
      BY <2>1 DEF CommitSignIn
  <1>5. link.user \in Emails
    BY <1>1, <1>3, LinksAreRecords DEF SignInInv, SignInTypeOK
  <1>6. signed' \in [Accounts -> SUBSET Emails]
        /\ \A y \in Accounts : signed'[y] = IF y = x THEN signed[y] \union {link.user}
                                                     ELSE signed[y]
    BY <1>4, <1>5 DEF SignInInv, SignInTypeOK
  <1>7. xreq' \in [Requests -> SignInRequests]
    BY <1>4, SignInKinds DEF Moves, SignInInv, SignInRequests
  <1>8. SignInTypeOK'
    BY <1>4, <1>6, <1>7 DEF SignInInv, SignInTypeOK
  <1>9. \A y \in Accounts : (Linked(y) => identity[y].nr <= unlinks
                                          /\ identity[y].user \in registered)'
    BY <1>4 DEF SignInInv, Linked
  <1>10. \A y \in Accounts : (signed[y] \subseteq (IF Linked(y) THEN {identity[y].user}
                                                                ELSE {}))'
    BY <1>2, <1>3, <1>4, <1>6 DEF SignInInv, Linked
  <1>11. ASSUME NEW d \in Requests \ {c}, InHand(xreq[d]), xreq'[d] = xreq[d]
         PROVE  InHand(xreq[d])'
    BY <1>4, <1>11 DEF InHand, Known, Linked
  <1> QED
    BY <1>4, <1>8, <1>9, <1>10, <1>11, SignInSlotEnds

\* A callback that has inserted a link commits it: the account had none.
LEMMA CommitReadyKeeps ==
  ASSUME SignInInv, NEW c \in Requests, CommitSignIn(c), xreq[c].pc = "ready"
  PROVE  SignInInv'
  <1> DEFINE x == xreq[c].x
             link == xreq[c].link
             users == {e \in Emails : Key("users", e) \in xreq[c].rows}
  <1>1. /\ xreq[c] \in Flights /\ x \in Accounts /\ xreq[c].mail \in Emails
        /\ link \in Links
    BY SignInKinds DEF SignInInv, Flights
  <1>2. /\ Key("identities", x) \in xreq[c].rows
        /\ link # NoLink /\ link.user = xreq[c].mail
        /\ link.nr \in 0..unlinks
        /\ ~Linked(x)
        /\ xreq[c].mail \in registered \/ Key("users", xreq[c].mail) \in xreq[c].rows
    BY DEF SignInInv, InHand
  <1>3. /\ registered' = registered \union users
        /\ slugs' = slugs \union {y \in Accounts : Key("teams", y) \in xreq[c].rows}
        /\ identity' = [identity EXCEPT ![x] = link]
        /\ signed' = [signed EXCEPT ![x] = @ \union {link.user}]
        /\ Moves(c, Idle) /\ UNCHANGED <<email, unlinks>>
    BY <1>2 DEF CommitSignIn
  <1>4. link.user \in registered' /\ registered \subseteq registered' /\ link.user \in Emails
    BY <1>1, <1>2, <1>3
  <1>5. /\ identity' \in [Accounts -> Links]
        /\ \A y \in Accounts : identity'[y] = IF y = x THEN link ELSE identity[y]
    BY <1>1, <1>3 DEF SignInInv, SignInTypeOK
  <1>6. /\ signed' \in [Accounts -> SUBSET Emails]
        /\ \A y \in Accounts : signed'[y] = IF y = x THEN signed[y] \union {link.user}
                                                     ELSE signed[y]
    BY <1>3, <1>4 DEF SignInInv, SignInTypeOK
  <1>7. xreq' \in [Requests -> SignInRequests]
    BY <1>3, SignInKinds DEF Moves, SignInInv, SignInRequests
  <1>8. registered' \subseteq Emails /\ slugs' \subseteq Accounts
    BY <1>3 DEF SignInInv, SignInTypeOK
  <1>9. SignInTypeOK'
    BY <1>3, <1>5, <1>6, <1>7, <1>8 DEF SignInInv, SignInTypeOK
  <1>10. unlinks' = unlinks /\ unlinks \in Nat
    BY <1>3, SignInAssumption DEF SignInInv, SignInTypeOK
  <1> HIDE DEF link, x, users
  <1>11. \A y \in Accounts : (Linked(y) => identity[y].nr <= unlinks
                                           /\ identity[y].user \in registered)'
    BY <1>2, <1>4, <1>5, <1>10 DEF SignInInv, Linked
  <1>12. \A y \in Accounts : (signed[y] \subseteq (IF Linked(y) THEN {identity[y].user}
                                                                ELSE {}))'
    <2> SUFFICES ASSUME NEW y \in Accounts
                 PROVE  signed'[y] \subseteq (IF identity'[y] # NoLink THEN {identity'[y].user}
                                                                       ELSE {})
      BY DEF Linked
    <2>1. signed[y] \subseteq (IF identity[y] # NoLink THEN {identity[y].user} ELSE {})
      BY DEF SignInInv, Linked
    <2> QED
      BY <2>1, <1>2, <1>5, <1>6 DEF Linked
  <1>13. ASSUME NEW d \in Requests \ {c}, InHand(xreq[d]), xreq'[d] = xreq[d]
         PROVE  InHand(xreq[d])'
    <2> DEFINE r == xreq[d]
    <2>1. Apart(xreq[c], r) /\ Apart(r, xreq[c])
      BY DEF SignInInv
    <2>2. CASE r.pc = "known"
      <3>1. r \in Flights /\ r.x \in Accounts /\ Known(r.x, r.link) /\ r.rows = {}
        BY <1>13, <2>2, SignInKinds DEF SignInInv, Flights, InHand
      <3>2. r.x = x => r.link.nr < link.nr
        BY <2>1, <2>2 DEF Apart, x, link
      <3>3. Known(r.x, r.link)'
        BY <3>1, <3>2, <1>2, <1>5, <1>10, <1>13 DEF Known, Linked
      <3> QED
        BY <2>2, <3>1, <3>3, <1>13 DEF InHand
    <2>3. CASE r.pc = "ready"
      <3>1. r \in Flights /\ r.x \in Accounts
        BY <2>3, SignInKinds DEF SignInInv, Flights
      <3>2. /\ Key("identities", r.x) \in r.rows
            /\ r.link # NoLink /\ r.link.user = r.mail
            /\ r.link.nr \in 0..unlinks
            /\ ~Linked(r.x)
            /\ r.mail \in registered \/ Key("users", r.mail) \in r.rows
        BY <1>13, <2>3 DEF InHand
      <3>3. InsertedBy(xreq[c]) = xreq[c].rows /\ InsertedBy(r) = r.rows
        BY <2>3 DEF InsertedBy
      <3>4. r.x # x
        BY <1>2, <2>1, <3>2, <3>3 DEF Apart
      <3>5. ~Linked(r.x)'
        BY <3>1, <3>2, <3>4, <1>5, <1>13 DEF Linked
      <3> QED
        BY <2>3, <3>2, <3>5, <1>4, <1>10, <1>13 DEF InHand
    <2>4. CASE r.pc \notin {"known", "ready"}
      BY <2>4, <1>4, <1>13 DEF InHand
    <2> QED
      BY <2>2, <2>3, <2>4
  <1> QED
    BY <1>3, <1>9, <1>11, <1>12, <1>13, SignInSlotEnds

\* A step that leaves the links and the requests alone, and takes no user away.
LEMMA TablesGrow ==
  ASSUME SignInInv, SignInTypeOK', registered \subseteq registered',
         UNCHANGED <<identity, slugs, unlinks, signed, xreq>>
  PROVE  SignInInv'
  <1>1. ASSUME NEW d \in Requests
        PROVE  InHand(xreq[d])'
    <2>1. InHand(xreq[d]) /\ xreq'[d] = xreq[d]
      BY DEF SignInInv
    <2> QED
      BY <2>1 DEF InHand, Known, Linked
  <1>2. \A a, b \in Requests : a # b => Apart(xreq[a], xreq[b])'
    BY DEF SignInInv, Apart, InsertedBy
  <1> QED
    BY <1>1, <1>2 DEF SignInInv, Linked

LEMMA SignInInvStep ==
  ASSUME SignInInv, [SignInNext]_signInVars
  PROVE  SignInInv'
  <1>1. ASSUME NEW x \in Accounts, NEW e \in Emails, ChangeEmail(x, e)
        PROVE  SignInInv'
    <2>1. email' \in [Accounts -> Emails]
      BY <1>1 DEF ChangeEmail, SignInInv, SignInTypeOK
    <2> QED
      BY <1>1, <2>1, TablesGrow DEF ChangeEmail, SignInInv, SignInTypeOK
  <1>2. ASSUME NEW c \in Requests, NEW e \in Emails, RegisterUser(c, e)
        PROVE  SignInInv'
    BY <1>2, TablesGrow DEF RegisterUser, SignInInv, SignInTypeOK
  <1>3. ASSUME NEW c \in Requests, Callback(c)
        PROVE  SignInInv'
    BY <1>3, BeginSignInKeeps, ReadByEmailKeeps, LinkUserKeeps, LookAgainKeeps,
       CreateUserKeeps, CreatePersonalTeamKeeps, CreateIdentityKeeps, CommitKnownKeeps,
       CommitReadyKeeps
    DEF Callback, CommitSignIn
  <1>4. ASSUME NEW c \in Requests, Unlinking(c)
        PROVE  SignInInv'
    BY <1>4, BeginUnlinkKeeps, CommitUnlinkKeeps DEF Unlinking
  <1>5. ASSUME NEW c \in Requests, EndSignIn(c)
        PROVE  SignInInv'
    BY <1>5, EndOfSignIn DEF EndSignIn
  <1>6. CASE UNCHANGED signInVars
    BY <1>6, TablesGrow DEF signInVars, SignInInv, SignInTypeOK
  <1> QED
    BY <1>1, <1>2, <1>3, <1>4, <1>5, <1>6 DEF SignInNext

LEMMA SignInInvariant == SignInSpec => []SignInInv
  BY SignInInvInit, SignInInvStep, PTL DEF SignInSpec

\* Every variable of SignIns stays in its domain.
THEOREM SignInTypeCorrect == SignInSpec => []SignInTypeOK
  BY SignInInvariant, PTL DEF SignInInv

\* From its first sign-in until it is unlinked an account signs in one user, who is
\* registered, whatever overlaps.
THEOREM AccountStaysOneUser == SignInSpec => []SameAccount
  <1>1. ASSUME SignInInv
        PROVE  SameAccount
    <2> SUFFICES ASSUME NEW x \in Accounts, signed[x] # {}
                 PROVE  Linked(x) /\ signed[x] = {identity[x].user}
                        /\ identity[x].user \in registered
      BY DEF SameAccount
    <2>1. signed[x] \subseteq (IF Linked(x) THEN {identity[x].user} ELSE {})
      BY <1>1 DEF SignInInv
    <2>2. Linked(x)
      BY <2>1
    <2>3. identity[x].user \in registered
      BY <1>1, <2>2 DEF SignInInv
    <2> QED
      BY <2>1, <2>2, <2>3
  <1> QED
    BY <1>1, SignInInvariant, PTL

-------------------------------------------------------------------------------
\* Sessions of a browser, and links that reset a password.

TokenRows == [state : Reasons \union {"none", "live"}, parent : 0..MaxTokens]
ResetRows == [there : BOOLEAN, void : BOOLEAN, used : BOOLEAN, recent : BOOLEAN]

LEMMA SessionKinds ==
  ASSUME SessionTypeOK, NEW c \in Requests
  PROVE  /\ sreq \in [Requests -> SessionRequests]
         /\ sreq[c] \in SessionRequests
         /\ sreq[c].pc \in {"refresh", "rotate"} =>
              sreq[c] \in [pc : {"refresh", "rotate"}, sent : RefreshTokens]
         /\ sreq[c].pc \in {"logout", "revoke"} =>
              sreq[c] \in [pc : {"logout", "revoke"}, sent : 0..MaxTokens]
         /\ sreq[c].pc = "answer" =>
              sreq[c] \in [pc : {"answer"}, sent : 0..MaxTokens, gives : 0..MaxTokens]
         /\ sreq[c].pc = "deactivate" =>
              sreq[c] \in [pc : {"deactivate"}, rows : SUBSET RefreshTokens]
         /\ sreq[c].pc = "reset" =>
              sreq[c] \in [pc : {"reset"}, by : {"user", "admin"}, rows : SUBSET ResetTokens]
         /\ sreq[c].pc = "mail" => sreq[c] \in [pc : {"mail"}, row : ResetTokens]
         /\ sreq[c].pc = "consume" =>
              sreq[c] \in [pc : {"consume"}, row : ResetTokens, rows : SUBSET RefreshTokens]
  <1>1. sreq[c] \in SessionRequests
    BY DEF SessionTypeOK
  <1> QED
    BY <1>1 DEF SessionTypeOK, SessionRequests, Idle

Made == {t \in RefreshTokens : token[t] # NoToken}

\* The rows were made one after the other, each after its parent, which was revoked
\* in the same transaction.
FamilyOK ==
  /\ token \in [RefreshTokens -> TokenRows]
  /\ \A s, t \in RefreshTokens : s < t /\ t \in Made => s \in Made
  /\ \A t \in RefreshTokens : token[t].parent # 0 =>
       /\ token[t].parent < t
       /\ token[t].parent \in Made
       /\ token[t].parent \notin Live

\* The rows a request will act on, and the one its answer gives the browser.
Sent(r) == IF r.pc \in {"refresh", "rotate", "logout", "revoke"} THEN {r.sent} \ {0} ELSE {}
Gives(r) == IF r.pc = "answer" THEN {r.gives} \ {0} ELSE {}
Acts(r) == IF r.pc \in {"deactivate", "consume"} THEN r.rows ELSE {}

\* What a request does with rows that are there, and what an answer gives: a row
\* that is good, and that nobody knows of yet.
Standing(r) ==
  /\ Sent(r) \subseteq Made /\ Gives(r) \subseteq Made /\ Acts(r) \subseteq Made
  /\ r.pc \in {"rotate", "revoke"} => r.sent # 0
  /\ Gives(r) \subseteq Live \union forfeit
  /\ cookie \notin Gives(r)
  /\ r.pc = "mail" => reset[r.row].there

Private(q, r) == Gives(q) \intersect (Sent(r) \union Gives(r)) = {}

\* The rows whose end the browser is about to hear of.
Told == {t \in RefreshTokens : \E c \in Requests : sreq[c].pc = "answer" /\ sreq[c].sent = t}

CookieOK ==
  cookie # 0 => cookie \in Made /\ cookie \in Live \union forfeit \union Told

\* The rows of links were made one after the other.  Nothing supersedes the newest, and
\* if it was used, so was a link when every other was settled that is not good still.
LinksOK ==
  /\ \A r \in mailed : reset[r].there
  /\ \A q, r \in ResetTokens : q < r /\ reset[r].there => reset[q].there
  /\ \A n \in ResetTokens : IsNewest(n) =>
       /\ ~reset[n].void
       /\ reset[n].used => \A q \in ResetTokens : reset[q].there => q \in Pending \union settled

SessionInv ==
  /\ SessionTypeOK
  /\ FamilyOK
  /\ \A c \in Requests : Standing(sreq[c])
  /\ \A c, d \in Requests : c # d => Private(sreq[c], sreq[d])
  /\ CookieOK
  /\ LinksOK

LEMMA SessionInvInit == SessionInit => SessionInv
  <1> SUFFICES ASSUME SessionInit PROVE SessionInv
    OBVIOUS
  <1>1. Made = {} /\ Live = {}
    BY DEF SessionInit, Made, Live, NoToken
  <1>2. SessionTypeOK
    BY SessionAssumption DEF SessionInit, SessionTypeOK, NoToken, NoReset, SessionRequests, Reasons
  <1>3. FamilyOK
    BY <1>1, SessionAssumption DEF SessionInit, FamilyOK, TokenRows, NoToken
  <1>4. \A c \in Requests : Sent(sreq[c]) = {} /\ Gives(sreq[c]) = {} /\ Acts(sreq[c]) = {}
                            /\ sreq[c].pc = "idle"
    BY DEF SessionInit, Sent, Gives, Acts, Idle
  <1>5. CookieOK /\ LinksOK
    BY DEF SessionInit, CookieOK, LinksOK, IsNewest, NoReset
  <1> QED
    BY <1>2, <1>3, <1>4, <1>5 DEF SessionInv, Standing, Private

-----------------------------------------------------------------------------
\* The rows of refresh_tokens.

LEMMA FreshTokenIsNew ==
  ASSUME FamilyOK, token[MaxTokens] = NoToken
  PROVE  /\ FreshToken \in RefreshTokens \ Made
         /\ \A t \in Made : t < FreshToken
  <1> DEFINE S == RefreshTokens \ Made
  <1>1. S \in SUBSET Nat /\ MaxTokens \in S
    BY SessionAssumption DEF RefreshTokens, Made
  <1>2. PICK m \in S : \A k \in S : m <= k
    BY <1>1, SmallestOfSome
  <1>3. token[m] = NoToken /\ \A s \in 1..(m - 1) : token[s] # NoToken
    BY <1>2, SessionAssumption DEF RefreshTokens, Made
  <1>4. /\ FreshToken \in RefreshTokens
        /\ token[FreshToken] = NoToken
    BY <1>2, <1>3 DEF FreshToken
  <1>5. ASSUME NEW t \in Made
        PROVE  t < FreshToken
    BY <1>4, <1>5, SessionAssumption DEF FamilyOK, Made, RefreshTokens
  <1> QED
    BY <1>4, <1>5 DEF Made

LEMMA RevokedRows ==
  ASSUME FamilyOK, NEW rows, rows \subseteq Made, NEW reason \in Reasons,
         token' = Revoked(rows, reason)
  PROVE  FamilyOK' /\ Made' = Made /\ Live' = Live \ rows
  <1>1. ASSUME NEW t \in RefreshTokens
        PROVE  /\ token'[t] \in TokenRows
               /\ token'[t].parent = token[t].parent
               /\ token'[t].state = IF t \in rows THEN reason ELSE token[t].state
               /\ token'[t] # NoToken <=> token[t] # NoToken
    BY DEF FamilyOK, Revoked, TokenRows, Made, NoToken, Reasons
  <1>2. Made' = Made
    BY <1>1 DEF Made
  <1>3. Live' = Live \ rows
    BY <1>1 DEF Live, Reasons
  <1>4. token' \in [RefreshTokens -> TokenRows]
    BY <1>1 DEF Revoked
  <1> QED
    BY <1>1, <1>2, <1>3, <1>4 DEF FamilyOK

\* An INSERT of a live row, by a commit that may revoke others, its parent for one.
LEMMA InsertedRow ==
  ASSUME FamilyOK, token[MaxTokens] = NoToken, NEW rows, rows \subseteq Made,
         NEW p \in {0} \union (Made \ (Live \ rows)),
         token' = [Revoked(rows, "rotated") EXCEPT
                     ![FreshToken] = [state |-> "live", parent |-> p]]
  PROVE  /\ FamilyOK'
         /\ Made' = Made \union {FreshToken}
         /\ Live' = (Live \ rows) \union {FreshToken}
  <1> DEFINE f == FreshToken
             new == [state |-> "live", parent |-> p]
             old == Revoked(rows, "rotated")
  <1>1. f \in RefreshTokens /\ f \notin Made /\ \A t \in Made : t < f
    BY FreshTokenIsNew
  <1>2. p \in 0..MaxTokens
    BY SessionAssumption DEF Made, RefreshTokens
  <1>3. new \in TokenRows /\ new # NoToken /\ new.state = "live" /\ new.parent = p
    BY <1>2 DEF TokenRows, NoToken
  <1>0. ASSUME NEW t \in RefreshTokens
        PROVE  /\ old[t] \in TokenRows
               /\ old[t].parent = token[t].parent
               /\ old[t].state = IF t \in rows THEN "rotated" ELSE token[t].state
               /\ old[t] # NoToken <=> token[t] # NoToken
    BY DEF FamilyOK, Revoked, TokenRows, Made, NoToken, Reasons
  <1>9. old = [t \in RefreshTokens |-> old[t]]
    BY DEF Revoked
  <1> HIDE DEF f, new, old
  <1>4. \A t \in RefreshTokens : token'[t] = IF t = f THEN new ELSE old[t]
    BY <1>9 DEF f, new, old
  <1>5. token' \in [RefreshTokens -> TokenRows]
    BY <1>0, <1>1, <1>3, <1>9 DEF f, new, old
  <1>6. Made' = Made \union {f}
    BY <1>0, <1>1, <1>3, <1>4 DEF Made
  <1>7. Live' = (Live \ rows) \union {f}
    BY <1>0, <1>1, <1>3, <1>4 DEF Live
  <1>8. \A s, t \in RefreshTokens : s < t /\ t \in Made' => s \in Made'
    <2>1. \A s \in RefreshTokens : s < f => s \in Made
      <3> SUFFICES ASSUME NEW s \in RefreshTokens, s < f, s \notin Made PROVE FALSE
        OBVIOUS
      <3> DEFINE S == RefreshTokens \ Made
      <3>1. S \in SUBSET Nat /\ s \in S
        BY DEF RefreshTokens
      <3>2. PICK m \in S : \A k \in S : m <= k
        BY <3>1, SmallestOfSome
      <3>3. token[m] = NoToken /\ \A k \in 1..(m - 1) : token[k] # NoToken
        BY <3>2, SessionAssumption DEF RefreshTokens, Made
      <3>4. \A k \in 1..(f - 1) : token[k] # NoToken
        BY <3>2, <3>3 DEF FreshToken, f
      <3> QED
        BY <3>4, <1>1, SessionAssumption DEF RefreshTokens, Made
    <2> QED
      BY <1>6, <2>1 DEF FamilyOK
  <1>10. ASSUME NEW t \in RefreshTokens, token'[t].parent # 0
         PROVE  /\ token'[t].parent < t
                /\ token'[t].parent \in Made'
                /\ token'[t].parent \notin Live'
    <2>1. CASE t = f
      BY <1>1, <1>3, <1>4, <1>6, <1>7, <1>10, <2>1
    <2>2. CASE t # f
      BY <1>0, <1>1, <1>4, <1>6, <1>7, <1>10, <2>2 DEF FamilyOK
    <2> QED
      BY <2>1, <2>2
  <1> QED
    BY <1>5, <1>6, <1>7, <1>8, <1>10 DEF FamilyOK, f

\* The recursion of Chain ends: parents have lower numbers.
ChainEquation(f) ==
  f = [s \in 0..MaxTokens |-> IF s = 0 THEN {} ELSE {s} \union f[token[s].parent]]

LEMMA ChainIsDefined ==
  ASSUME FamilyOK
  PROVE  \E f : ChainEquation(f)
  <1> DEFINE Upto(f, n) == f = [s \in 0..n |-> IF s = 0 THEN {}
                                               ELSE {s} \union f[token[s].parent]]
             N == {n \in Nat : n <= MaxTokens => \E f : Upto(f, n)}
  <1>1. 0 \in N
    <2> DEFINE g == [s \in 0..0 |-> {}]
    <2>1. Upto(g, 0)
      OBVIOUS
    <2> QED
      BY <2>1
  <1>2. ASSUME NEW n \in Nat, n \in N
        PROVE  n + 1 \in N
    <2> SUFFICES ASSUME n + 1 <= MaxTokens PROVE \E f : Upto(f, n + 1)
      OBVIOUS
    <2>1. \E f : Upto(f, n)
      <3> HIDE DEF Upto
      <3> QED
        BY <1>2, SessionAssumption
    <2> PICK f : Upto(f, n)
      BY <2>1
    <2> DEFINE top == {n + 1} \union f[token[n + 1].parent]
               g == [s \in 0..(n + 1) |-> IF s = n + 1 THEN top ELSE f[s]]
    <2>2. ASSUME NEW s \in 0..(n + 1), s # 0
          PROVE  token[s].parent \in 0..n /\ token[s].parent < s
      <3>1. s \in RefreshTokens /\ token[s].parent \in 0..MaxTokens
        BY <2>2, SessionAssumption DEF RefreshTokens, FamilyOK, TokenRows
      <3> QED
        BY <2>2, <3>1, SessionAssumption DEF FamilyOK
    <2>3. /\ \A s \in 0..n : g[s] = f[s]
          /\ g[n + 1] = top
          /\ g = [s \in 0..(n + 1) |-> g[s]]
      OBVIOUS
    <2> HIDE DEF g
    <2>4. ASSUME NEW s \in 0..(n + 1)
          PROVE  g[s] = IF s = 0 THEN {} ELSE {s} \union g[token[s].parent]
      <3>1. CASE s = n + 1
        <4> HIDE DEF Upto
        <4>1. token[s].parent \in 0..n /\ s # 0
          BY <2>2, <3>1
        <4>2. g[token[s].parent] = f[token[s].parent]
          BY <2>3, <4>1
        <4>3. g[s] = {s} \union f[token[s].parent]
          BY <2>3, <3>1
        <4> QED
          BY <4>1, <4>2, <4>3
      <3>2. CASE s \in 0..n
        <4>1. f[s] = IF s = 0 THEN {} ELSE {s} \union f[token[s].parent]
          BY <3>2
        <4>2. g[s] = f[s]
          BY <2>3, <3>2
        <4>3. CASE s = 0
          BY <4>1, <4>2, <4>3
        <4>4. CASE s # 0
          <5>1. token[s].parent \in 0..n
            BY <2>2, <4>4
          <5>2. g[token[s].parent] = f[token[s].parent]
            BY <2>3, <5>1
          <5> QED
            BY <4>1, <4>2, <4>4, <5>2
        <4> QED
          BY <4>3, <4>4
      <3> QED
        BY <3>1, <3>2
    <2>5. Upto(g, n + 1)
      <3> DEFINE h == [s \in 0..(n + 1) |-> IF s = 0 THEN {} ELSE {s} \union g[token[s].parent]]
      <3>1. \A s \in 0..(n + 1) : g[s] = h[s]
        BY <2>4
      <3>2. g = h
        BY <2>3, <3>1
      <3> QED
        BY <3>2
    <2> QED
      BY <2>5
  <1> HIDE DEF N
  <1>3. Nat \subseteq N
    BY <1>1, <1>2, SetInduction
  <1>4. \E f : Upto(f, MaxTokens)
    <2> HIDE DEF Upto
    <2> QED
      BY <1>3, SessionAssumption DEF N
  <1> QED
    BY <1>4 DEF ChainEquation

\* What a row descends from is revoked: of a chain, only the row itself can be live.
LEMMA AncestorsAreRevoked ==
  ASSUME FamilyOK, NEW t \in RefreshTokens, t \notin Live
  PROVE  Chain(t) \intersect Live = {}
  <1> DEFINE Up == CHOOSE f : f = [s \in 0..MaxTokens |->
                      IF s = 0 THEN {} ELSE {s} \union f[token[s].parent]]
             N == {n \in Nat : \A s \in 0..MaxTokens :
                      s <= n /\ s \notin Live => Up[s] \intersect Live = {}}
  <1>1. Up = [s \in 0..MaxTokens |-> IF s = 0 THEN {} ELSE {s} \union Up[token[s].parent]]
    BY ChainIsDefined, Zenon DEF ChainEquation
  <1> HIDE DEF Up
  <1>2. Up[0] = {} /\ \A s \in RefreshTokens : Up[s] = {s} \union Up[token[s].parent]
    <2>1. \A s \in 0..MaxTokens : Up[s] = IF s = 0 THEN {} ELSE {s} \union Up[token[s].parent]
      BY <1>1
    <2>2. Up[0] = {}
      <3>1. 0 \in 0..MaxTokens
        BY SessionAssumption
      <3> QED
        BY <2>1, <3>1
    <2>3. ASSUME NEW s \in RefreshTokens
          PROVE  Up[s] = {s} \union Up[token[s].parent]
      <3>1. s \in 0..MaxTokens /\ s # 0
        BY SessionAssumption DEF RefreshTokens
      <3> QED
        BY <2>1, <3>1
    <2> QED
      BY <2>2, <2>3
  <1>3. 0 \in N
    BY <1>2
  <1>4. ASSUME NEW n \in Nat, n \in N
        PROVE  n + 1 \in N
    <2> SUFFICES ASSUME NEW s \in 0..MaxTokens, s <= n + 1, s \notin Live
                 PROVE  Up[s] \intersect Live = {}
      OBVIOUS
    <2>1. CASE s = 0
      BY <1>2, <2>1
    <2>2. CASE s # 0
      <3>1. s \in RefreshTokens /\ token[s].parent \in 0..MaxTokens
        BY <2>2, SessionAssumption DEF RefreshTokens, FamilyOK, TokenRows
      <3>2. token[s].parent \notin Live /\ token[s].parent <= n
        BY <2>2, <3>1, SessionAssumption DEF FamilyOK, Live, RefreshTokens
      <3> QED
        BY <1>2, <1>4, <3>1, <3>2
    <2> QED
      BY <2>1, <2>2
  <1> HIDE DEF N
  <1>5. Nat \subseteq N
    BY <1>3, <1>4, SetInduction
  <1>6. Up[t] \intersect Live = {}
    BY <1>5, SessionAssumption DEF N, RefreshTokens
  <1> QED
    BY <1>6 DEF Chain, Up

\* The requests, when one of them becomes r.

LEMMA SessionOneSlot ==
  ASSUME SessionInv, NEW c \in Requests, NEW r \in SessionRequests, Goes(c, r),
         enabled' \in BOOLEAN, cookie' \in 0..MaxTokens,
         reset' \in [ResetTokens -> ResetRows],
         mailed' \subseteq ResetTokens, settled' \subseteq ResetTokens,
         forfeit' \subseteq RefreshTokens,
         FamilyOK', CookieOK', LinksOK', Standing(r)',
         \A d \in Requests \ {c} : sreq'[d] = sreq[d] => Standing(sreq[d])',
         \A d \in Requests \ {c} : Private(r, sreq[d]) /\ Private(sreq[d], r)
  PROVE  SessionInv'
  <1>1. \A d \in Requests : sreq'[d] = IF d = c THEN r ELSE sreq[d]
    BY SessionKinds DEF SessionInv, Goes
  <1>2. sreq' \in [Requests -> SessionRequests]
    BY SessionKinds DEF SessionInv, Goes
  <1>3. SessionTypeOK'
    BY <1>2 DEF SessionTypeOK, FamilyOK, TokenRows, ResetRows
  <1>4. ASSUME NEW d \in Requests
        PROVE  Standing(sreq[d])'
    <2>1. CASE d = c
      <3>1. sreq'[d] = r
        BY <1>1, <2>1
      <3> QED
        BY <3>1 DEF Standing
    <2>2. CASE d # c
      BY <1>1, <2>2
    <2> QED
      BY <2>1, <2>2
  <1>5. ASSUME NEW a \in Requests, NEW b \in Requests, a # b
        PROVE  Private(sreq[a], sreq[b])'
    <2>1. CASE a = c
      <3>1. Private(r, sreq[b]) /\ sreq'[a] = r /\ sreq'[b] = sreq[b]
        BY <1>1, <1>5, <2>1
      <3> QED
        BY <3>1 DEF Private
    <2>2. CASE b = c
      <3>1. Private(sreq[a], r) /\ sreq'[b] = r /\ sreq'[a] = sreq[a]
        BY <1>1, <1>5, <2>2
      <3> QED
        BY <3>1 DEF Private
    <2>3. CASE a # c /\ b # c
      <3>1. Private(sreq[a], sreq[b]) /\ sreq'[b] = sreq[b] /\ sreq'[a] = sreq[a]
        BY <1>1, <1>5, <2>3 DEF SessionInv
      <3> QED
        BY <3>1 DEF Private
    <2> QED
      BY <2>1, <2>2, <2>3
  <1> QED
    BY <1>3, <1>4, <1>5 DEF SessionInv

LEMMA LinksStand ==
  ASSUME SessionInv, UNCHANGED <<reset, mailed, settled>>
  PROVE  LinksOK'
  <1>1. Pending' = Pending /\ \A n \in ResetTokens : IsNewest(n)' = IsNewest(n)
    BY DEF Pending, IsNewest
  <1> QED
    BY <1>1 DEF SessionInv, LinksOK

\* Told grows, but for what a request that stops being an answer tells.
LEMMA ToldBy ==
  ASSUME SessionInv, NEW c \in Requests, NEW r \in SessionRequests, Goes(c, r)
  PROVE  /\ sreq[c].pc # "answer" => Told \subseteq Told'
         /\ sreq[c].pc = "answer" => Told \subseteq Told' \union {sreq[c].sent}
         /\ r.pc = "answer" /\ r.sent \in RefreshTokens => r.sent \in Told'
  <1>1. \A d \in Requests : sreq'[d] = IF d = c THEN r ELSE sreq[d]
    BY SessionKinds DEF SessionInv, Goes
  <1> QED
    BY <1>1 DEF Told

\* A request that reads, or ends, and changes no row.
LEMMA SessionReads ==
  ASSUME SessionInv, NEW c \in Requests, NEW r \in SessionRequests, Goes(c, r),
         enabled' \in BOOLEAN, UNCHANGED <<token, cookie, reset, settled, forfeit>>,
         mailed' \subseteq ResetTokens, \A m \in mailed' : reset[m].there,
         sreq[c].pc # "answer", Standing(r), Gives(r) = {},
         Sent(r) \subseteq Sent(sreq[c]) \union {cookie}
  PROVE  SessionInv'
  <1>1. Made' = Made /\ Live' = Live /\ Pending' = Pending
    BY DEF Made, Live, Pending
  <1>2. FamilyOK'
    BY <1>1 DEF SessionInv, FamilyOK
  <1>3. CookieOK'
    BY <1>1, ToldBy DEF SessionInv, CookieOK
  <1>4. LinksOK'
    BY <1>1 DEF SessionInv, LinksOK, IsNewest
  <1>5. Standing(r)'
    BY <1>1 DEF Standing
  <1>6. ASSUME NEW d \in Requests \ {c}, sreq'[d] = sreq[d]
        PROVE  Standing(sreq[d])'
    <2>1. Standing(sreq[d])
      BY DEF SessionInv
    <2> QED
      BY <1>1, <1>6, <2>1 DEF Standing
  <1>7. ASSUME NEW d \in Requests \ {c}
        PROVE  Private(r, sreq[d]) /\ Private(sreq[d], r)
    <2>1. Private(sreq[d], sreq[c]) /\ cookie \notin Gives(sreq[d])
      BY DEF SessionInv, Standing
    <2> QED
      BY <2>1 DEF Private
  <1> QED
    BY <1>2, <1>3, <1>4, <1>5, <1>6, <1>7, SessionOneSlot DEF SessionInv, SessionTypeOK,
       ResetRows

LEMMA EndOfSession ==
  ASSUME SessionInv, NEW c \in Requests, Goes(c, Idle), sreq[c].pc # "answer",
         UNCHANGED <<enabled, token, cookie, reset, mailed, settled, forfeit>>
  PROVE  SessionInv'
  <1>1. Idle \in SessionRequests /\ Idle.pc = "idle"
    BY DEF SessionRequests, Idle
  <1>2. Sent(Idle) = {} /\ Gives(Idle) = {} /\ Acts(Idle) = {}
    BY <1>1 DEF Sent, Gives, Acts
  <1>3. Standing(Idle)
    BY <1>1, <1>2 DEF Standing
  <1>4. enabled \in BOOLEAN /\ mailed \subseteq ResetTokens /\ \A m \in mailed : reset[m].there
    BY DEF SessionInv, SessionTypeOK, LinksOK
  <1> QED
    BY <1>1, <1>2, <1>3, <1>4, SessionReads

\* Every step that begins a request or reads for one.
LEMMA ReadingKeeps ==
  ASSUME SessionInv, NEW c \in Requests,
         \/ BeginLogin(c) \/ BeginRefresh(c) \/ ReadToken(c) \/ BeginLogout(c)
         \/ BeginDeactivation(c) \/ \E by \in {"user", "admin"} : BeginReset(c, by)
         \/ \E k \in ResetTokens : BeginConsume(c, k)
  PROVE  SessionInv'
  <1> DEFINE Fine(r) == r \in SessionRequests /\ Standing(r) /\ Gives(r) = {}
                        /\ Sent(r) \subseteq Sent(sreq[c]) \union {cookie}
  <1>1. ASSUME NEW r, Fine(r), Goes(c, r), sreq[c].pc # "answer",
               UNCHANGED <<enabled, token, cookie, reset, mailed, settled, forfeit>>
        PROVE  SessionInv'
    <2>1. enabled \in BOOLEAN /\ mailed \subseteq ResetTokens
          /\ \A m \in mailed : reset[m].there
      BY DEF SessionInv, SessionTypeOK, LinksOK
    <2> QED
      BY <1>1, <2>1, SessionReads
  <1>2. Live \subseteq Made /\ Live \subseteq RefreshTokens /\ Pending \subseteq ResetTokens
        /\ cookie \in 0..MaxTokens
        /\ (cookie # 0 => cookie \in RefreshTokens /\ cookie \in Made)
        /\ {cookie} \ {0} \subseteq Made
    BY DEF Live, Made, Pending, SessionInv, SessionTypeOK, CookieOK, NoToken, RefreshTokens
  <1>3. ASSUME BeginLogin(c) PROVE SessionInv'
    <2>1. Fine([pc |-> "login"])
      BY DEF Standing, Sent, Gives, Acts, SessionRequests
    <2> QED
      BY <1>1, <1>3, <2>1 DEF BeginLogin, Idle
  <1>4. ASSUME BeginRefresh(c) PROVE SessionInv'
    <2>1. Fine([pc |-> "refresh", sent |-> cookie])
      BY <1>2, <1>4 DEF BeginRefresh, Standing, Sent, Gives, Acts, SessionRequests
    <2> QED
      BY <1>1, <1>4, <2>1 DEF BeginRefresh, Idle
  <1>5. ASSUME ReadToken(c) PROVE SessionInv'
    <2>1. sreq[c] \in [pc : {"refresh", "rotate"}, sent : RefreshTokens]
          /\ sreq[c].pc = "refresh" /\ Standing(sreq[c])
      BY <1>5, SessionKinds DEF ReadToken, SessionInv
    <2> DEFINE r == [sreq[c] EXCEPT !.pc = "rotate"]
    <2>2. r \in SessionRequests /\ r.pc = "rotate" /\ r.sent = sreq[c].sent
          /\ sreq[c].sent # 0
      BY <2>1 DEF SessionRequests, RefreshTokens
    <2> HIDE DEF r
    <2>3. Fine(r)
      BY <2>1, <2>2 DEF Standing, Sent, Gives, Acts
    <2> QED
      BY <1>1, <1>5, <2>1, <2>3 DEF ReadToken, r
  <1>6. ASSUME BeginLogout(c) PROVE SessionInv'
    <2>1. Fine([pc |-> "logout", sent |-> cookie])
      BY <1>2 DEF Standing, Sent, Gives, Acts, SessionRequests
    <2> QED
      BY <1>1, <1>6, <2>1 DEF BeginLogout, Idle
  <1>7. ASSUME BeginDeactivation(c) PROVE SessionInv'
    <2>1. Fine([pc |-> "deactivate", rows |-> Live])
      BY <1>2 DEF Standing, Sent, Gives, Acts, SessionRequests
    <2> QED
      BY <1>1, <1>7, <2>1 DEF BeginDeactivation, Idle
  <1>8. ASSUME NEW by \in {"user", "admin"}, BeginReset(c, by) PROVE SessionInv'
    <2>1. Fine([pc |-> "reset", by |-> by, rows |-> Pending])
      BY <1>2 DEF Standing, Sent, Gives, Acts, SessionRequests
    <2> QED
      BY <1>1, <1>8, <2>1 DEF BeginReset, Idle
  <1>9. ASSUME NEW k \in ResetTokens, BeginConsume(c, k) PROVE SessionInv'
    <2>1. Fine([pc |-> "consume", row |-> k, rows |-> Live])
      BY <1>2 DEF Standing, Sent, Gives, Acts, SessionRequests
    <2> QED
      BY <1>1, <1>9, <2>1 DEF BeginConsume, Idle
  <1> QED
    BY <1>3, <1>4, <1>5, <1>6, <1>7, <1>8, <1>9

LEMMA ReadLogoutKeeps ==
  ASSUME SessionInv, NEW c \in Requests, ReadLogout(c)
  PROVE  SessionInv'
  <1>1. /\ sreq[c] \in [pc : {"logout", "revoke"}, sent : 0..MaxTokens]
        /\ sreq[c].pc = "logout" /\ Standing(sreq[c])
    BY SessionKinds DEF ReadLogout, SessionInv
  <1>2. enabled \in BOOLEAN /\ mailed \subseteq ResetTokens
        /\ \A m \in mailed : reset[m].there
    BY DEF SessionInv, SessionTypeOK, LinksOK
  <1>3. CASE sreq[c].sent \in Live
    <2> DEFINE r == [sreq[c] EXCEPT !.pc = "revoke"]
    <2>1. r \in SessionRequests /\ r.pc = "revoke" /\ r.sent = sreq[c].sent
          /\ sreq[c].sent # 0
      BY <1>1, <1>3 DEF SessionRequests, Live, RefreshTokens
    <2> HIDE DEF r
    <2>2. Standing(r) /\ Gives(r) = {} /\ Sent(r) \subseteq Sent(sreq[c])
      BY <1>1, <2>1 DEF Standing, Sent, Gives, Acts
    <2>3. Goes(c, r)
      BY <1>3 DEF ReadLogout, r
    <2> QED
      BY <1>1, <1>2, <2>1, <2>2, <2>3, SessionReads DEF ReadLogout
  <1>4. CASE sreq[c].sent \notin Live
    <2> DEFINE r == [pc |-> "answer", sent |-> sreq[c].sent, gives |-> 0]
    <2>1. r \in SessionRequests
      BY <1>1, SessionAssumption DEF SessionRequests
    <2>2. Standing(r) /\ Gives(r) = {} /\ Sent(r) = {}
      BY DEF Standing, Sent, Gives, Acts
    <2>3. Goes(c, r)
      BY <1>4 DEF ReadLogout
    <2> QED
      BY <1>1, <1>2, <2>1, <2>2, <2>3, SessionReads DEF ReadLogout
  <1> QED
    BY <1>3, <1>4

LEMMA MailResetKeeps ==
  ASSUME SessionInv, NEW c \in Requests, MailReset(c)
  PROVE  SessionInv'
  <1>1. sreq[c] \in [pc : {"mail"}, row : ResetTokens] /\ Standing(sreq[c])
    BY SessionKinds DEF MailReset, SessionInv
  <1>2. sreq[c].row \in ResetTokens /\ reset[sreq[c].row].there
    BY <1>1 DEF Standing
  <1>3. enabled \in BOOLEAN /\ mailed' \subseteq ResetTokens
        /\ \A m \in mailed' : reset[m].there
    BY <1>2 DEF SessionInv, SessionTypeOK, LinksOK, MailReset
  <1>4. Idle \in SessionRequests /\ Standing(Idle) /\ Gives(Idle) = {} /\ Sent(Idle) = {}
    BY DEF Standing, Sent, Gives, Acts, Idle, SessionRequests
  <1> QED
    BY <1>3, <1>4, SessionReads DEF MailReset

\* A commit that revokes rows that nobody is about to be given, or tells of it.
LEMMA RevocationKeeps ==
  ASSUME SessionInv, NEW c \in Requests, NEW r \in SessionRequests, Goes(c, r),
         sreq[c].pc # "answer", enabled' \in BOOLEAN, UNCHANGED <<cookie, mailed>>,
         reset' \in [ResetTokens -> ResetRows], settled' \subseteq ResetTokens, LinksOK',
         \A k \in ResetTokens : reset[k].there => reset'[k].there,
         NEW rows, rows \subseteq Made, NEW reason \in Reasons,
         token' = Revoked(rows, reason),
         forfeit' \subseteq RefreshTokens, forfeit \subseteq forfeit',
         Sent(r) = {}, Gives(r) = {}, Acts(r) = {}, r.pc \notin {"mail", "rotate", "revoke"},
         \/ rows \subseteq forfeit'
         \/ /\ r.pc = "answer" /\ rows = {r.sent} /\ r.sent \in Sent(sreq[c])
  PROVE  SessionInv'
  <1>1. FamilyOK' /\ Made' = Made /\ Live' = Live \ rows
    BY RevokedRows DEF SessionInv
  <1>2. Standing(r)'
    BY DEF Standing
  <1>3. rows \subseteq RefreshTokens
    BY DEF Made
  <1>4. CookieOK'
    <2>1. Told \subseteq Told' /\ (r.pc = "answer" /\ r.sent \in RefreshTokens => r.sent \in Told')
      BY ToldBy
    <2> QED
      BY <1>1, <1>3, <2>1 DEF SessionInv, CookieOK
  <1>5. ASSUME NEW d \in Requests \ {c}, sreq'[d] = sreq[d]
        PROVE  Standing(sreq[d])'
    <2>1. Standing(sreq[d]) /\ Private(sreq[d], sreq[c])
      BY DEF SessionInv
    <2>2. Gives(sreq[d]) \subseteq Live' \union forfeit'
      <3>1. Gives(sreq[d]) \subseteq Live \union forfeit
        BY <2>1 DEF Standing
      <3>2. rows \subseteq forfeit' \/ Gives(sreq[d]) \intersect rows = {}
        BY <2>1 DEF Private
      <3> QED
        BY <1>1, <3>1, <3>2
    <2>3. sreq[d].pc = "mail" => reset'[sreq[d].row].there
      BY <2>1, SessionKinds DEF Standing, SessionInv
    <2> QED
      BY <1>1, <1>5, <2>1, <2>2, <2>3 DEF Standing
  <1>6. ASSUME NEW d \in Requests \ {c}
        PROVE  Private(r, sreq[d]) /\ Private(sreq[d], r)
    BY DEF Private
  <1> QED
    BY <1>1, <1>2, <1>4, <1>5, <1>6, SessionOneSlot DEF SessionInv, SessionTypeOK

\* The row that is refused was revoked before, and so was all it descends from.
LEMMA RefuseRefreshKeeps ==
  ASSUME SessionInv, NEW c \in Requests, RefuseRefresh(c)
  PROVE  SessionInv'
  <1> DEFINE t == sreq[c].sent
  <1>1. t \in RefreshTokens
    BY SessionKinds DEF RefuseRefresh, SessionInv
  <1>2. ASSUME token[t].state # "live", token' = Revoked(Chain(t) \intersect Live, "reuse_detected")
        PROVE  token' = Revoked({}, "reuse_detected")
    <2>1. Chain(t) \intersect Live = {}
      BY <1>1, <1>2, AncestorsAreRevoked DEF Live, SessionInv
    <2> QED
      BY <1>2, <2>1
  <1>3. CASE token[t].state = "live"
    BY <1>3, EndOfSession DEF RefuseRefresh
  <1>4. CASE token[t].state # "live"
    <2>1. /\ token' = Revoked({}, "reuse_detected") /\ "reuse_detected" \in Reasons
          /\ forfeit' = forfeit \union Family(t) /\ Goes(c, Idle) /\ sreq[c].pc = "refresh"
          /\ UNCHANGED <<enabled, cookie, reset, mailed, settled>>
      BY <1>2, <1>4 DEF RefuseRefresh, Reasons
    <2>2. /\ Idle \in SessionRequests /\ Sent(Idle) = {} /\ Gives(Idle) = {} /\ Acts(Idle) = {}
          /\ Idle.pc = "idle"
      BY DEF Sent, Gives, Acts, Idle, SessionRequests
    <2>3. Family(t) \subseteq RefreshTokens
      BY DEF Family
    <2>4. LinksOK'
      BY <2>1, LinksStand
    <2>5. /\ enabled' \in BOOLEAN /\ reset' \in [ResetTokens -> ResetRows]
          /\ settled' \subseteq ResetTokens /\ forfeit' \subseteq RefreshTokens
      BY <2>1, <2>3 DEF SessionInv, SessionTypeOK, ResetRows
    <2> QED
      BY <2>1, <2>2, <2>4, <2>5, RevocationKeeps
  <1> QED
    BY <1>3, <1>4

LEMMA CommitLogoutKeeps ==
  ASSUME SessionInv, NEW c \in Requests, CommitLogout(c)
  PROVE  SessionInv'
  <1> DEFINE t == sreq[c].sent
             r == [pc |-> "answer", sent |-> t, gives |-> 0]
  <1>1. /\ sreq[c] \in [pc : {"logout", "revoke"}, sent : 0..MaxTokens]
        /\ sreq[c].pc = "revoke" /\ Standing(sreq[c])
    BY SessionKinds DEF CommitLogout, SessionInv
  <1>2. t \in Sent(sreq[c]) /\ {t} \subseteq Made
    BY <1>1 DEF Standing, Sent
  <1>3. r \in SessionRequests
    BY <1>1, SessionAssumption DEF SessionRequests
  <1>4. Sent(r) = {} /\ Gives(r) = {} /\ Acts(r) = {} /\ r.pc = "answer" /\ r.sent = t
    BY DEF Sent, Gives, Acts
  <1> HIDE DEF r
  <1>5. /\ Goes(c, r) /\ token' = Revoked({t}, "logout") /\ "logout" \in Reasons
        /\ UNCHANGED <<enabled, cookie, reset, mailed, settled, forfeit>>
    BY DEF CommitLogout, r, Reasons
  <1>6. LinksOK'
    BY <1>5, LinksStand
  <1>7. /\ enabled' \in BOOLEAN /\ reset' \in [ResetTokens -> ResetRows]
        /\ settled' \subseteq ResetTokens /\ forfeit' \subseteq RefreshTokens
    BY <1>5 DEF SessionInv, SessionTypeOK, ResetRows
  <1> QED
    BY <1>1, <1>2, <1>3, <1>4, <1>5, <1>6, <1>7, RevocationKeeps

LEMMA CommitDeactivationKeeps ==
  ASSUME SessionInv, NEW c \in Requests, CommitDeactivation(c)
  PROVE  SessionInv'
  <1> DEFINE rows == sreq[c].rows
  <1>1. /\ sreq[c] \in [pc : {"deactivate"}, rows : SUBSET RefreshTokens]
        /\ sreq[c].pc = "deactivate" /\ Standing(sreq[c])
    BY SessionKinds DEF CommitDeactivation, SessionInv
  <1>2. rows \subseteq RefreshTokens /\ rows \subseteq Made
    BY <1>1 DEF Standing, Acts
  <1>3. /\ Idle \in SessionRequests /\ Sent(Idle) = {} /\ Gives(Idle) = {} /\ Acts(Idle) = {}
        /\ Idle.pc = "idle"
    BY DEF Sent, Gives, Acts, Idle, SessionRequests
  <1>4. LinksOK'
    BY LinksStand DEF CommitDeactivation
  <1>5. /\ reset' \in [ResetTokens -> ResetRows]
        /\ settled' \subseteq ResetTokens /\ forfeit' \subseteq RefreshTokens
    BY <1>2 DEF SessionInv, SessionTypeOK, ResetRows, CommitDeactivation
  <1>6. /\ token' = Revoked(rows, "logout") /\ "logout" \in Reasons
        /\ rows \subseteq forfeit' /\ forfeit \subseteq forfeit' /\ enabled' = FALSE
        /\ Goes(c, Idle) /\ UNCHANGED <<cookie, reset, mailed, settled>>
    BY DEF CommitDeactivation, Reasons
  <1> QED
    BY <1>1, <1>2, <1>3, <1>4, <1>5, <1>6, RevocationKeeps

LEMMA CommitConsumeKeeps ==
  ASSUME SessionInv, NEW c \in Requests, CommitConsume(c)
  PROVE  SessionInv'
  <1> DEFINE rows == sreq[c].rows
             k == sreq[c].row
  <1>1. /\ sreq[c] \in [pc : {"consume"}, row : ResetTokens, rows : SUBSET RefreshTokens]
        /\ sreq[c].pc = "consume" /\ Standing(sreq[c])
    BY SessionKinds DEF CommitConsume, SessionInv
  <1>2. k \in ResetTokens /\ rows \subseteq RefreshTokens /\ rows \subseteq Made
    BY <1>1 DEF Standing, Acts
  <1>3. /\ Idle \in SessionRequests /\ Sent(Idle) = {} /\ Gives(Idle) = {} /\ Acts(Idle) = {}
        /\ Idle.pc = "idle"
    BY DEF Sent, Gives, Acts, Idle, SessionRequests
  <1>4. reset' \in [ResetTokens -> ResetRows]
        /\ \A m \in ResetTokens : /\ reset'[m].there = reset[m].there
                                  /\ reset'[m].void = reset[m].void
    BY <1>2 DEF SessionInv, SessionTypeOK, ResetRows, CommitConsume
  <1>5. LinksOK'
    <2>1. \A m \in mailed' : reset'[m].there
      BY <1>4 DEF SessionInv, SessionTypeOK, LinksOK, CommitConsume
    <2>2. \A m \in ResetTokens : reset'[m].there => m \in Pending' \union settled'
      BY <1>4 DEF CommitConsume
    <2>3. \A n \in ResetTokens : IsNewest(n)' = IsNewest(n)
      BY <1>4 DEF IsNewest
    <2> QED
      BY <1>4, <2>1, <2>2, <2>3 DEF SessionInv, LinksOK
  <1>6. /\ settled' \subseteq ResetTokens /\ forfeit' \subseteq RefreshTokens
    BY <1>2 DEF SessionInv, SessionTypeOK, CommitConsume
  <1>7. /\ token' = Revoked(rows, "reuse_detected") /\ "reuse_detected" \in Reasons
        /\ rows \subseteq forfeit' /\ forfeit \subseteq forfeit'
        /\ Goes(c, Idle) /\ UNCHANGED <<enabled, cookie, mailed>>
    BY DEF CommitConsume, Reasons
  <1>8. enabled' \in BOOLEAN
    BY <1>7 DEF SessionInv, SessionTypeOK
  <1> QED
    BY <1>1, <1>2, <1>3, <1>4, <1>5, <1>6, <1>7, <1>8, RevocationKeeps

\* A commit that inserts a row: the answer gives the browser what nobody has seen.
LEMMA InsertionKeeps ==
  ASSUME SessionInv, NEW c \in Requests, token[MaxTokens] = NoToken,
         NEW p \in 0..MaxTokens, NEW rows, rows = {p} \ {0}, rows \subseteq Sent(sreq[c]),
         sreq[c].pc # "answer",
         token' = [Revoked(rows, "rotated") EXCEPT
                     ![FreshToken] = [state |-> "live", parent |-> p]],
         Goes(c, [pc |-> "answer", sent |-> p, gives |-> FreshToken]),
         UNCHANGED <<enabled, cookie, reset, mailed, settled, forfeit>>
  PROVE  SessionInv'
  <1>0. PICK f : f = FreshToken
    OBVIOUS
  <1> DEFINE r == [pc |-> "answer", sent |-> p, gives |-> f]
  <1>1. rows \subseteq Made
    BY DEF SessionInv, Standing
  <1>2. FamilyOK
    BY DEF SessionInv
  <1>3. FamilyOK' /\ Made' = Made \union {f} /\ Live' = (Live \ rows) \union {f}
    BY <1>0, <1>1, <1>2, InsertedRow
  <1>4. f \in RefreshTokens \ Made
    BY <1>0, <1>2, FreshTokenIsNew
  <1>5. r \in SessionRequests /\ r.pc = "answer" /\ r.sent = p /\ r.gives = f
    BY <1>4, SessionAssumption DEF SessionRequests, RefreshTokens
  <1>6. Sent(r) = {} /\ Gives(r) = {f} /\ Acts(r) = {}
    BY <1>4, SessionAssumption DEF Sent, Gives, Acts, RefreshTokens
  <1>7. Goes(c, r)
    BY <1>0
  <1> HIDE DEF r
  <1>8. cookie # f
    BY <1>4, SessionAssumption DEF SessionInv, CookieOK, RefreshTokens
  <1>9. Standing(r)'
    BY <1>3, <1>5, <1>6, <1>8 DEF Standing
  <1>10. CookieOK'
    <2>1. Told \subseteq Told' /\ (p \in RefreshTokens => p \in Told')
      BY <1>5, <1>7, ToldBy
    <2>2. rows \subseteq Told'
      BY <1>1, <2>1 DEF Made
    <2> QED
      BY <1>3, <2>1, <2>2 DEF SessionInv, CookieOK
  <1>11. LinksOK'
    BY LinksStand
  <1>12. ASSUME NEW d \in Requests \ {c}, sreq'[d] = sreq[d]
         PROVE  Standing(sreq[d])'
    <2>1. Standing(sreq[d]) /\ Private(sreq[d], sreq[c])
      BY DEF SessionInv
    <2>2. Gives(sreq[d]) \intersect rows = {}
      BY <2>1 DEF Private
    <2> QED
      BY <1>3, <1>12, <2>1, <2>2 DEF Standing
  <1>13. ASSUME NEW d \in Requests \ {c}
         PROVE  Private(r, sreq[d]) /\ Private(sreq[d], r)
    <2>1. Sent(sreq[d]) \subseteq Made /\ Gives(sreq[d]) \subseteq Made
      BY DEF SessionInv, Standing
    <2> QED
      BY <1>4, <1>6, <2>1 DEF Private
  <1>14. /\ enabled' \in BOOLEAN /\ cookie' \in 0..MaxTokens
         /\ reset' \in [ResetTokens -> ResetRows] /\ mailed' \subseteq ResetTokens
         /\ settled' \subseteq ResetTokens /\ forfeit' \subseteq RefreshTokens
    BY DEF SessionInv, SessionTypeOK, ResetRows
  <1> QED
    BY <1>3, <1>5, <1>7, <1>9, <1>10, <1>11, <1>12, <1>13, <1>14, SessionOneSlot

LEMMA CommitLoginKeeps ==
  ASSUME SessionInv, NEW c \in Requests, CommitLogin(c)
  PROVE  SessionInv'
  <1>1. Revoked({}, "rotated") = token
    <2>1. Revoked({}, "rotated") = [t \in RefreshTokens |-> token[t]]
      BY DEF Revoked
    <2> QED
      BY <2>1 DEF SessionInv, FamilyOK
  <1>2. /\ token' = [Revoked({}, "rotated") EXCEPT
                       ![FreshToken] = [state |-> "live", parent |-> 0]]
        /\ Goes(c, [pc |-> "answer", sent |-> 0, gives |-> FreshToken])
        /\ UNCHANGED <<enabled, cookie, reset, mailed, settled, forfeit>>
        /\ token[MaxTokens] = NoToken /\ sreq[c].pc # "answer"
    BY <1>1 DEF CommitLogin
  <1>3. 0 \in 0..MaxTokens /\ {} \subseteq Sent(sreq[c]) /\ {} = {0} \ {0}
    BY SessionAssumption
  <1> QED
    BY <1>2, <1>3, InsertionKeeps

LEMMA CommitRotationKeeps ==
  ASSUME SessionInv, NEW c \in Requests, CommitRotation(c)
  PROVE  SessionInv'
  <1> DEFINE t == sreq[c].sent
  <1>1. /\ sreq[c] \in [pc : {"refresh", "rotate"}, sent : RefreshTokens]
        /\ sreq[c].pc = "rotate"
    BY SessionKinds DEF CommitRotation, SessionInv
  <1>2. t \in 0..MaxTokens /\ {t} = {t} \ {0} /\ {t} \subseteq Sent(sreq[c])
    BY <1>1, SessionAssumption DEF RefreshTokens, Sent
  <1> QED
    BY <1>1, <1>2, InsertionKeeps DEF CommitRotation

LEMMA ReceiveAnswerKeeps ==
  ASSUME SessionInv, NEW c \in Requests, ReceiveAnswer(c)
  PROVE  SessionInv'
  <1> DEFINE g == sreq[c].gives
  <1>1. /\ sreq[c] \in [pc : {"answer"}, sent : 0..MaxTokens, gives : 0..MaxTokens]
        /\ sreq[c].pc = "answer" /\ Standing(sreq[c])
    BY SessionKinds DEF ReceiveAnswer, SessionInv
  <1>2. g \in 0..MaxTokens /\ (g # 0 => g \in Gives(sreq[c]))
    BY <1>1 DEF Gives
  <1>3. /\ Idle \in SessionRequests /\ Sent(Idle) = {} /\ Gives(Idle) = {} /\ Acts(Idle) = {}
        /\ Idle.pc = "idle"
    BY DEF Sent, Gives, Acts, Idle, SessionRequests
  <1>4. Made' = Made /\ Live' = Live /\ Pending' = Pending
    BY DEF Made, Live, Pending, ReceiveAnswer
  <1>5. FamilyOK' /\ LinksOK'
    BY <1>4, LinksStand DEF SessionInv, FamilyOK, ReceiveAnswer
  <1>6. CookieOK'
    <2>1. cookie' = g /\ forfeit' = forfeit
      BY DEF ReceiveAnswer
    <2>2. g # 0 => g \in Made /\ g \in Live \union forfeit
      BY <1>1, <1>2 DEF Standing
    <2> HIDE DEF g
    <2> QED
      BY <1>4, <2>1, <2>2 DEF CookieOK
  <1>7. Standing(Idle)'
    BY <1>3 DEF Standing
  <1>8. ASSUME NEW d \in Requests \ {c}, sreq'[d] = sreq[d]
        PROVE  Standing(sreq[d])'
    <2>1. Standing(sreq[d]) /\ Private(sreq[d], sreq[c])
      BY DEF SessionInv
    <2>2. 0 \notin Gives(sreq[d])
      BY DEF Gives
    <2>3. g \notin Gives(sreq[d])
      BY <1>2, <2>1, <2>2 DEF Private
    <2> QED
      BY <1>4, <1>8, <2>1, <2>3 DEF Standing, ReceiveAnswer
  <1>9. ASSUME NEW d \in Requests \ {c}
        PROVE  Private(Idle, sreq[d]) /\ Private(sreq[d], Idle)
    BY <1>3 DEF Private
  <1>10. /\ enabled' \in BOOLEAN /\ cookie' \in 0..MaxTokens
         /\ reset' \in [ResetTokens -> ResetRows] /\ mailed' \subseteq ResetTokens
         /\ settled' \subseteq ResetTokens /\ forfeit' \subseteq RefreshTokens
    BY <1>2 DEF SessionInv, SessionTypeOK, ResetRows, ReceiveAnswer
  <1>11. Goes(c, Idle)
    BY DEF ReceiveAnswer
  <1> QED
    BY <1>3, <1>5, <1>6, <1>7, <1>8, <1>9, <1>10, <1>11, SessionOneSlot

LEMMA LoseAnswerKeeps ==
  ASSUME SessionInv, NEW c \in Requests, LoseAnswer(c)
  PROVE  SessionInv'
  <1> DEFINE t == sreq[c].sent
  <1>1. /\ sreq[c] \in [pc : {"answer"}, sent : 0..MaxTokens, gives : 0..MaxTokens]
        /\ sreq[c].pc = "answer" /\ Standing(sreq[c])
    BY SessionKinds DEF LoseAnswer, SessionInv
  <1>2. t \in 0..MaxTokens /\ {t} \ {0} \subseteq RefreshTokens
    BY <1>1, SessionAssumption DEF RefreshTokens
  <1>3. /\ Idle \in SessionRequests /\ Sent(Idle) = {} /\ Gives(Idle) = {} /\ Acts(Idle) = {}
        /\ Idle.pc = "idle"
    BY DEF Sent, Gives, Acts, Idle, SessionRequests
  <1>4. Made' = Made /\ Live' = Live /\ Pending' = Pending
    BY DEF Made, Live, Pending, LoseAnswer
  <1>5. FamilyOK' /\ LinksOK'
    BY <1>4, LinksStand DEF SessionInv, FamilyOK, LoseAnswer
  <1>6. forfeit' = forfeit \union ({t} \ {0}) /\ Goes(c, Idle) /\ cookie' = cookie
    BY DEF LoseAnswer
  <1>7. Told \subseteq Told' \union {t}
    BY <1>1, <1>3, <1>6, ToldBy
  <1> HIDE DEF t
  <1>8. CookieOK'
    BY <1>4, <1>6, <1>7 DEF SessionInv, CookieOK
  <1>9. Standing(Idle)'
    BY <1>3 DEF Standing
  <1>10. ASSUME NEW d \in Requests \ {c}, sreq'[d] = sreq[d]
         PROVE  Standing(sreq[d])'
    <2>1. Standing(sreq[d])
      BY DEF SessionInv
    <2> QED
      BY <1>4, <1>6, <1>10, <2>1 DEF Standing, LoseAnswer
  <1>11. ASSUME NEW d \in Requests \ {c}
         PROVE  Private(Idle, sreq[d]) /\ Private(sreq[d], Idle)
    BY <1>3 DEF Private
  <1>12. /\ enabled' \in BOOLEAN /\ cookie' \in 0..MaxTokens
         /\ reset' \in [ResetTokens -> ResetRows] /\ mailed' \subseteq ResetTokens
         /\ settled' \subseteq ResetTokens /\ forfeit' \subseteq RefreshTokens
    BY <1>2, <1>6 DEF SessionInv, SessionTypeOK, ResetRows, LoseAnswer
  <1> QED
    BY <1>3, <1>5, <1>6, <1>8, <1>9, <1>10, <1>11, <1>12, SessionOneSlot

\* The rows of password_reset_tokens.

LEMMA FreshResetIsNew ==
  ASSUME SessionTypeOK, ~reset[MaxResets].there
  PROVE  /\ FreshReset \in ResetTokens
         /\ ~reset[FreshReset].there /\ \A k \in 1..(FreshReset - 1) : reset[k].there
  <1> DEFINE S == {r \in ResetTokens : ~reset[r].there}
  <1>1. S \in SUBSET Nat /\ MaxResets \in S
    BY SessionAssumption DEF ResetTokens
  <1>2. PICK m \in S : \A k \in S : m <= k
    BY <1>1, SmallestOfSome
  <1>3. m \in ResetTokens /\ ~reset[m].there /\ \A k \in 1..(m - 1) : reset[k].there
    BY <1>2, SessionAssumption DEF ResetTokens
  <1> QED
    BY <1>3 DEF FreshReset

\* What supersedes links is a link itself.
LEMMA IssueResetKeeps ==
  ASSUME SessionInv, NEW c \in Requests, IssueReset(c)
  PROVE  SessionInv'
  <1>0. PICK f : f = FreshReset
    OBVIOUS
  <1> DEFINE new == [there |-> TRUE, void |-> FALSE, used |-> FALSE, recent |-> TRUE]
             by == sreq[c].by
             rows == sreq[c].rows
  <1>1. sreq[c] \in [pc : {"reset"}, by : {"user", "admin"}, rows : SUBSET ResetTokens]
        /\ sreq[c].pc = "reset"
    BY SessionKinds DEF IssueReset, SessionInv
  <1>2. f \in ResetTokens /\ ~reset[f].there /\ \A k \in 1..(f - 1) : reset[k].there
    BY <1>0, FreshResetIsNew DEF IssueReset, SessionInv
  <1>3. ASSUME NEW k \in ResetTokens
        PROVE  /\ reset'[k] \in ResetRows
               /\ reset'[k] = IF k = f THEN new
                              ELSE [reset[k] EXCEPT !.void = @ \/ k \in rows]
               /\ k # f => reset'[k].there = reset[k].there
               /\ reset[k].there => reset'[k].there
    <2>1. reset[k] \in ResetRows
      BY DEF SessionInv, SessionTypeOK, ResetRows
    <2>2. reset'[k] = IF k = f THEN new ELSE [reset[k] EXCEPT !.void = @ \/ k \in rows]
      BY <1>0 DEF IssueReset
    <2>3. PICK v \in BOOLEAN : v = (reset[k].void \/ k \in rows)
      OBVIOUS
    <2>4. [reset[k] EXCEPT !.void = v] \in ResetRows
          /\ [reset[k] EXCEPT !.void = v].there = reset[k].there
      BY <2>1 DEF ResetRows
    <2>5. new \in ResetRows /\ new.there = TRUE
      BY DEF ResetRows
    <2>6. reset'[k] = IF k = f THEN new ELSE [reset[k] EXCEPT !.void = v]
      BY <2>2, <2>3
    <2> HIDE DEF new
    <2> QED
      BY <2>2, <2>4, <2>5, <2>6
  <1>4. reset' \in [ResetTokens -> ResetRows]
    <2> DEFINE h(k) == IF k = FreshReset THEN new
                       ELSE [reset[k] EXCEPT !.void = @ \/ k \in rows]
    <2>1. reset' = [k \in ResetTokens |-> h(k)]
      BY DEF IssueReset
    <2> HIDE DEF h
    <2>2. ASSUME NEW k \in ResetTokens
          PROVE  h(k) \in ResetRows
      <3>1. reset'[k] = h(k)
        BY <2>1
      <3> QED
        BY <1>3, <3>1
    <2> QED
      BY <2>1, <2>2
  <1>5. reset'[f].there /\ ~reset'[f].void /\ ~reset'[f].used
    <2>1. reset'[f] = new
      BY <1>2, <1>3, Zenon
    <2> QED
      BY <1>2, <2>1
  <1>6. LinksOK'
    <2>0. ResetTokens \subseteq Nat /\ \A k \in ResetTokens : k < f => k \in 1..(f - 1)
      BY <1>2, SessionAssumption DEF ResetTokens
    <2>1. \A k \in ResetTokens : k < f <=> reset[k].there
      <3>1. \A k \in ResetTokens : k < f => reset[k].there
        BY <1>2, <2>0
      <3>2. ASSUME NEW k \in ResetTokens, reset[k].there
            PROVE  k < f
        <4>1. f # k /\ ~(f < k)
          BY <1>2, <3>2 DEF SessionInv, LinksOK
        <4> QED
          BY <1>2, <2>0, <4>1
      <3> QED
        BY <3>1, <3>2
    <2>2. \A k \in ResetTokens : k <= f <=> reset'[k].there
      <3>1. \A k \in ResetTokens : k # f => reset'[k].there = reset[k].there
        BY <1>3
      <3> QED
        BY <1>2, <1>5, <2>0, <2>1, <3>1
    <2>3. \A n \in ResetTokens : IsNewest(n)' => n = f
      BY <1>2, <2>0, <2>2 DEF IsNewest
    <2>4. \A m \in mailed' : reset'[m].there
      BY <1>3 DEF SessionInv, SessionTypeOK, LinksOK, IssueReset
    <2>5. \A q, k \in ResetTokens : q < k /\ reset'[k].there => reset'[q].there
      BY <1>2, <2>0, <2>2
    <2> QED
      BY <1>5, <2>3, <2>4, <2>5 DEF LinksOK
  <1>7. Made' = Made /\ Live' = Live
    BY DEF Made, Live, IssueReset
  <1>8. FamilyOK'
    BY <1>7 DEF SessionInv, FamilyOK, IssueReset
  <1> DEFINE r == IF by = "user" THEN [pc |-> "mail", row |-> f] ELSE Idle
  <1>9. PICK q : q = r
    OBVIOUS
  <1>10. q \in SessionRequests /\ q.pc \in {"mail", "idle"} /\ (q.pc = "mail" => q.row = f)
    BY <1>2, <1>9 DEF SessionRequests, Idle
  <1>11. Goes(c, q)
    BY <1>0, <1>9 DEF IssueReset
  <1>12. Sent(q) = {} /\ Gives(q) = {} /\ Acts(q) = {}
    BY <1>10 DEF Sent, Gives, Acts
  <1>13. Standing(q)'
    BY <1>5, <1>10, <1>12 DEF Standing
  <1>14. CookieOK'
    <2>1. Told \subseteq Told'
      BY <1>1, <1>10, <1>11, ToldBy
    <2> QED
      BY <1>7, <2>1 DEF SessionInv, CookieOK, IssueReset
  <1>15. ASSUME NEW d \in Requests \ {c}, sreq'[d] = sreq[d]
         PROVE  Standing(sreq[d])'
    <2>1. Standing(sreq[d])
      BY DEF SessionInv
    <2>2. sreq[d].pc = "mail" => sreq[d].row \in ResetTokens /\ reset[sreq[d].row].there
      BY <2>1, SessionKinds DEF Standing, SessionInv
    <2>3. sreq[d].pc = "mail" => reset'[sreq[d].row].there
      BY <1>3, <2>2
    <2> QED
      BY <1>7, <1>15, <2>1, <2>3 DEF Standing, IssueReset
  <1>16. ASSUME NEW d \in Requests \ {c}
         PROVE  Private(q, sreq[d]) /\ Private(sreq[d], q)
    BY <1>12 DEF Private
  <1>17. /\ enabled' \in BOOLEAN /\ cookie' \in 0..MaxTokens /\ mailed' \subseteq ResetTokens
         /\ settled' \subseteq ResetTokens /\ forfeit' \subseteq RefreshTokens
    BY DEF SessionInv, SessionTypeOK, IssueReset
  <1> QED
    BY <1>4, <1>6, <1>8, <1>10, <1>11, <1>13, <1>14, <1>15, <1>16, <1>17, SessionOneSlot

\* A step of no request, that changes neither rows nor cookie, nor which links are good.
LEMMA SessionQuiet ==
  ASSUME SessionInv, enabled' \in BOOLEAN, reset' \in [ResetTokens -> ResetRows],
         UNCHANGED <<token, cookie, mailed, settled, forfeit, sreq>>,
         \A k \in ResetTokens : /\ reset'[k].there = reset[k].there
                                /\ reset'[k].void = reset[k].void
                                /\ reset'[k].used = reset[k].used
  PROVE  SessionInv'
  <1>1. Made' = Made /\ Live' = Live /\ Told' = Told
    BY DEF Made, Live, Told
  <1>2. SessionTypeOK'
    BY DEF SessionInv, SessionTypeOK, ResetRows
  <1>3. FamilyOK' /\ CookieOK'
    BY <1>1 DEF SessionInv, FamilyOK, CookieOK
  <1>4. LinksOK'
    <2>1. Pending' = Pending /\ \A n \in ResetTokens : IsNewest(n)' = IsNewest(n)
      BY DEF Pending, IsNewest
    <2> QED
      BY <2>1 DEF SessionInv, SessionTypeOK, LinksOK
  <1>5. ASSUME NEW c \in Requests
        PROVE  Standing(sreq[c])'
    <2>1. Standing(sreq[c]) /\ sreq'[c] = sreq[c]
      BY DEF SessionInv
    <2>2. sreq[c].pc = "mail" => reset'[sreq[c].row].there
      BY <2>1, SessionKinds DEF Standing, SessionInv
    <2> QED
      BY <1>1, <2>1, <2>2 DEF Standing
  <1>6. \A c, d \in Requests : c # d => Private(sreq[c], sreq[d])'
    BY DEF SessionInv, Private
  <1> QED
    BY <1>2, <1>3, <1>4, <1>5, <1>6 DEF SessionInv

LEMMA SessionInvStep ==
  ASSUME SessionInv, [SessionNext]_sessionVars
  PROVE  SessionInv'
  <1>0. reset \in [ResetTokens -> ResetRows] /\ enabled \in BOOLEAN
    BY DEF SessionInv, SessionTypeOK, ResetRows
  <1>1. CASE Activate
    BY <1>0, <1>1, SessionQuiet DEF Activate
  <1>2. ASSUME NEW r \in ResetTokens, CooldownEnds(r)
        PROVE  SessionInv'
    <2>1. reset' \in [ResetTokens -> ResetRows]
          /\ \A k \in ResetTokens : reset'[k].there = reset[k].there
                                    /\ reset'[k].void = reset[k].void
                                    /\ reset'[k].used = reset[k].used
      BY <1>0, <1>2 DEF CooldownEnds, ResetRows
    <2> QED
      BY <1>0, <1>2, <2>1, SessionQuiet DEF CooldownEnds
  <1>3. ASSUME NEW c \in Requests, CookieRequests(c)
        PROVE  SessionInv'
    BY <1>3, ReadingKeeps, CommitLoginKeeps, RefuseRefreshKeeps, CommitRotationKeeps,
       ReadLogoutKeeps, CommitLogoutKeeps, ReceiveAnswerKeeps, LoseAnswerKeeps
    DEF CookieRequests
  <1>4. ASSUME NEW c \in Requests, ResetRequests(c)
        PROVE  SessionInv'
    BY <1>4, ReadingKeeps, IssueResetKeeps, MailResetKeeps, CommitConsumeKeeps
    DEF ResetRequests
  <1>5. ASSUME NEW c \in Requests, EndSessionReq(c)
        PROVE  SessionInv'
    BY <1>5, EndOfSession DEF EndSessionReq
  <1>6. ASSUME NEW c \in Requests, BeginDeactivation(c) \/ CommitDeactivation(c)
        PROVE  SessionInv'
    BY <1>6, ReadingKeeps, CommitDeactivationKeeps
  <1>7. CASE UNCHANGED sessionVars
    BY <1>0, <1>7, SessionQuiet DEF sessionVars
  <1> QED
    BY <1>1, <1>2, <1>3, <1>4, <1>5, <1>6, <1>7 DEF SessionNext

LEMMA SessionInvariant == SessionSpec => []SessionInv
  BY SessionInvInit, SessionInvStep, PTL DEF SessionSpec

\* Every variable of Sessions stays in its domain.
THEOREM SessionTypeCorrect == SessionSpec => []SessionTypeOK
  BY SessionInvariant, PTL DEF SessionInv

\* However the tabs overlap, the cookie the browser holds when nothing of theirs is
\* under way is good, or the browser has no claim to its row.
THEOREM CookieStaysGood == SessionSpec => []TabsStaySignedIn
  <1>1. SessionInv => TabsStaySignedIn
    BY DEF SessionInv, CookieOK, Told, TabsStaySignedIn
  <1> QED
    BY <1>1, SessionInvariant, PTL

\* Links that supersede each other leave one that works and that is mailed or will be,
\* unless the newest of them is in nobody's hands.
THEOREM SomeLinkWorks == SessionSpec => []AMailedLinkWorks
  <1>1. ASSUME SessionInv
        PROVE  AMailedLinkWorks
    <2> SUFFICES ASSUME NEW m \in mailed, m \notin settled
                 PROVE  \/ Pending \intersect Delivered # {}
                        \/ \E r \in ResetTokens \ Delivered : IsNewest(r)
      BY DEF AMailedLinkWorks
    <2> DEFINE There == {r \in ResetTokens : reset[r].there}
    <2>1. m \in There /\ m \in Delivered
      BY <1>1 DEF SessionInv, SessionTypeOK, LinksOK, Delivered
    <2>2. There \in SUBSET Nat /\ IsFiniteSet(There)
      <3>1. IsFiniteSet(ResetTokens) /\ There \subseteq ResetTokens /\ ResetTokens \subseteq Nat
        BY SessionAssumption, FS_Interval DEF ResetTokens
      <3> QED
        BY <3>1, FS_Subset
    <2>3. PICK n \in There : \A r \in There : r <= n
      BY <2>1, <2>2, LargestOfSome
    <2>4. n \in ResetTokens /\ IsNewest(n)
      BY <2>3 DEF IsNewest
    <2>5. /\ ~reset[n].void
          /\ reset[n].used => m \in Pending \union settled
      BY <1>1, <2>1, <2>4 DEF SessionInv, LinksOK
    <2>6. ~reset[n].used => n \in Pending
      BY <2>4, <2>5 DEF Pending, IsNewest
    <2> QED
      BY <2>1, <2>4, <2>5, <2>6
  <1> QED
    BY <1>1, SessionInvariant, PTL
===============================================================================
