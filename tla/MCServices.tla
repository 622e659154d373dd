------------------------------ MODULE MCServices ------------------------------
(***************************************************************************)
(* The services of the portal in one run of TLC: a behaviour picks one of  *)
(* them and takes steps of that one only.  They share users, teams and     *)
(* request slots, and no table: what they do to each other's tables is in  *)
(* each of them.  Slots of requests, jobs and tabs are interchangeable     *)
(* names, and the same ones, so that one symmetry serves all of them.      *)
(***************************************************************************)
EXTENDS SuperAdmins, TeamMembers, PolicyGate, Deliveries, Backups, Progress,
        Approvals, Reports, Sessions, SignIns, ApiKeys, LicenceLookup, AuditTrail, TLC

VARIABLE service

Services ==
  {"admins", "members", "triage", "gate", "deliveries", "backups", "progress",
   "approvals", "reports", "sessions", "resets", "signins", "keys", "lookups", "audit"}

servicesVars ==
  <<service, adminVars, memberVars, gateVars, deliveryVars, backupVars, progressVars,
    vars, reportVars, sessionVars, signInVars, keyVars, lookupVars, auditVars>>

\* A report of a scan with one component, under one licence.
Plain == [components |-> {1}, licences |-> {<<1, CHOOSE l \in Permitted : TRUE>>},
          findings |-> {}]

\* One whose components have all that a component can have.
Full == [components |-> Components, licences |-> Components \X Licences,
         findings |-> Components \X Cves]

\* What registries say: one text of up to two words, or of three terms with two connectives
\* between them; two texts, of which the first may be blank; or one and two classifiers, of
\* which the first may name no licence.
Terms == LicenceNames \union Spoilt
ShortTexts == UNION {[1..n -> Words] : n \in 1..2}
TwoTerms == {<<a, v, b>> : a \in Terms, v \in Connectives, b \in Terms}
ThreeTerms ==
  {<<a, v, b, w, c>> : a \in Terms, v \in Connectives, b \in LicenceNames,
                       w \in Connectives, c \in LicenceNames \union {"LATER"}}
OneName == {<<n>> : n \in LicenceNames}
SaysNothing == [texts |-> <<>>, classifiers |-> <<>>]

Single ==
  {[SaysNothing EXCEPT !.texts = <<t>>] : t \in ShortTexts \union TwoTerms \union ThreeTerms}
Several ==
  {[SaysNothing EXCEPT !.texts = <<t, u>>] : t \in {Unknown} \union {<<a>> : a \in Terms},
                                             u \in OneName}
Classified ==
  {[texts |-> <<t>>, classifiers |-> <<k, l>>] : t \in OneName,
                                                 k \in {Unknown} \union OneName,
                                                 l \in {Unknown} \union OneName}
Sayings == {SaysNothing} \union Single \union Several \union Classified

\* A bound: texts of several words are of crates; the adapters treat texts alike.
LongTextsOfCrates ==
  \A p \in Packages : \A i \in DOMAIN says[p].texts :
    Len(says[p].texts[i]) > 1 => registry[p] = "cargo"

\* A bound: one user may be in any team, one at a time; the others in one team only.
OneTeamEach ==
  /\ \A u \in Issuers : Cardinality({t \in Tenants : rank'[t][u] # "none"}) <= 1
  /\ \A u \in Issuers \ {CHOOSE u \in Issuers : TRUE}, t \in Tenants :
       rank'[t][u] # "none" => t = CHOOSE o \in Tenants : TRUE

\* A bound: the owner of one account changes its email.
OneOwner == \A x \in Accounts \ {CHOOSE x \in Accounts : TRUE} : email'[x] = email[x]

\* A service that takes no steps starts in one state; names that are alike are not
\* exchanged.
ServicesInit ==
  /\ service \in Services
  /\ AdminInit
  /\ service # "admins" => super = [u \in Users |-> TRUE] /\ active = super
  /\ MemberInit /\ GateInit /\ DeliveryInit /\ BackupInit /\ ProgressInit
  /\ Init
  /\ found \in {[s \in ProjectScans |-> IF s = 1 THEN r ELSE Plain] :
                  r \in IF service = "reports" THEN Inventories ELSE {Plain}}
  /\ ReportInit
  /\ SessionInit
  /\ SignInInit
  /\ email[CHOOSE x \in Accounts : TRUE] = CHOOSE e \in Emails : TRUE
  /\ service # "signins" => email = [x \in Accounts |-> CHOOSE e \in Emails : TRUE]
  /\ KeyInit
  /\ owner = [p \in Projects |-> CHOOSE t \in Tenants : TRUE]
  /\ supers \subseteq {CHOOSE u \in Issuers : TRUE}
  /\ service # "keys" => supers = {}
  /\ LookupInit(IF service = "lookups" THEN Sayings ELSE {SaysNothing})
  /\ LongTextsOfCrates
  /\ service # "lookups" => registry = [p \in Packages |-> "other"]
  /\ AuditInit

\* Bounds: the analysts have one scan; the gate has several, or one and one PATCH, which
\* does not ask for a version, or one and two evaluations at once, with comments.
OneScan == \A s \in Scans : scan'[s].status # "absent" => s = 1

OnePatch ==
  /\ clock' <= IF OneScan THEN 1 ELSE 0
  /\ comments' > 0 \/ (\A c \in Requests : greq'[c] # Idle) => OneScan /\ clock' = 0
  /\ \A c \in Requests : treq'[c].pc = "begun" => ~treq'[c].match

\* A bound: who may not decide asks for approvals and withdraws them, while there
\* is one row at most, and is shown none; an ETag would be of no use to them.
Seen ==
  \A c \in Clients \ Admins :
    /\ etag'[c] = NoTag
    /\ req'[c].pc # "idle" => {i \in Ids : status'[i] = "absent"} # {}

\* A bound: once a worker was lost, or an upload is being restored, one backup is made
\* at a time.
OneBackup ==
  losses' > 0 \/ (\E r \in Restores : restore'[r].pc # "none")
    => {b \in Jobs : job'[b].pc \in {"none", "over"}} # {}

\* Bounds: the pipeline is run again, or ends, while one tab at most has been opened and is
\* fed by one socket; a second is opened beside one that fails, and lives until it breaks.
OneTab ==
  LET second == {s \in Sockets : s[2] > 1 /\ sock'[s] # "none"}
      fedTwice == {t \in Tabs : tab'[t].beside} IN
  /\ \A t \in Tabs : tab'[t].timers <= 1
  /\ \/ Cardinality({t \in Tabs : tab'[t] # NewHook}) <= 1
     \/ row'.run = 1 /\ second = {}
  /\ second \union fedTwice # {} => row'.run = 1 /\ row'.status = "running"
  /\ \A s \in second :
       /\ sock'[s] = "live"
       /\ IF sock[s] = "none" THEN sock'[<<s[1], 1>>] = "failing"
          ELSE sock'[<<s[1], 1>>] # "leaving"

\* A bound: exports are made, scans are cancelled, and a second one runs, where the
\* first finds all that it can find; of every other inventory the tabs are compared.
Overlaps ==
  found[1] # Full =>
    /\ visit' = NoVisit /\ outcome'[1] # "cancelled"
    /\ \A s \in ProjectScans \ {1} : outcome'[s] = "none"

\* Bounds: many sessions, and two once the account is deactivated or, else, has a link, of
\* which there is one, still in its cooldown; or many links, and nobody signs in.
FewLinks ==
  /\ \A r \in ResetTokens : reset'[r].there => r = 1 /\ reset'[r].recent /\ enabled'
  /\ ~enabled' \/ reset'[1].there => token'[MaxTokens] = NoToken
NoSessions == \A c \in Requests : sreq'[c].pc \notin {"login", "refresh", "logout"}

\* Variables of services, in two lots.
Old == <<adminVars, memberVars, gateVars, deliveryVars, backupVars, progressVars, vars,
         reportVars>>
New == <<sessionVars, signInVars, keyVars, lookupVars, auditVars>>

ServicesNext ==
  /\ UNCHANGED service
  /\ \/ /\ service = "admins" /\ AdminNext
        /\ UNCHANGED <<memberVars, gateVars, deliveryVars, backupVars, progressVars, vars,
                       reportVars, New>>
     \/ /\ service = "members" /\ MemberNext
        /\ UNCHANGED <<adminVars, gateVars, deliveryVars, backupVars, progressVars, vars,
                       reportVars, New>>
     \/ /\ service = "triage" /\ TriageNext /\ OneScan
        /\ UNCHANGED <<adminVars, memberVars, greq, comments, deliveryVars,
                       backupVars, progressVars, vars, reportVars, New>>
     \/ /\ service = "gate" /\ GateNext /\ OnePatch
        /\ UNCHANGED <<adminVars, memberVars, deliveryVars, backupVars, progressVars, vars,
                       reportVars, New>>
     \/ /\ service = "deliveries" /\ DeliveryNext
        /\ UNCHANGED <<adminVars, memberVars, gateVars, backupVars, progressVars, vars,
                       reportVars, New>>
     \/ /\ service = "backups" /\ BackupNext /\ OneBackup
        /\ UNCHANGED <<adminVars, memberVars, gateVars, deliveryVars, progressVars, vars,
                       reportVars, New>>
     \/ /\ service = "progress" /\ ProgressNext /\ OneTab
        /\ UNCHANGED <<adminVars, memberVars, gateVars, deliveryVars, backupVars, vars,
                       reportVars, New>>
     \/ /\ service = "approvals" /\ Next /\ Seen
        /\ UNCHANGED <<adminVars, memberVars, gateVars, deliveryVars, backupVars,
                       progressVars, reportVars, New>>
     \/ /\ service = "reports" /\ ReportNext /\ Overlaps
        /\ UNCHANGED <<adminVars, memberVars, gateVars, deliveryVars, backupVars,
                       progressVars, vars, New>>
     \/ /\ service = "sessions" /\ SessionNext /\ FewLinks
        /\ UNCHANGED <<Old, signInVars, keyVars, lookupVars, auditVars>>
     \/ /\ service = "resets" /\ SessionNext /\ NoSessions
        /\ UNCHANGED <<Old, signInVars, keyVars, lookupVars, auditVars>>
     \/ /\ service = "signins" /\ SignInNext /\ OneOwner
        /\ UNCHANGED <<Old, sessionVars, keyVars, lookupVars, auditVars>>
     \/ /\ service = "keys" /\ KeyNext /\ OneTeamEach
        /\ UNCHANGED <<Old, sessionVars, signInVars, lookupVars, auditVars>>
     \/ /\ service = "lookups" /\ LookupNext
        /\ UNCHANGED <<Old, sessionVars, signInVars, keyVars, auditVars>>
     \/ /\ service = "audit" /\ AuditNext
        /\ UNCHANGED <<Old, sessionVars, signInVars, keyVars, lookupVars>>

ServicesSpec == ServicesInit /\ [][ServicesNext]_servicesVars

AnySlot == Permutations(Requests) \union Permutations(ManualNames)

\* The webhooks and the reports see the scans of a project change as one board does,
\* which the life cycle of scans implements as well.
ScansKeepBoard == HooksKeepBoard /\ ReportsKeepBoard

\* The variables of the service that takes the steps stay in their domains.
ServicesTypeOK ==
  /\ service = "admins" => AdminTypeOK
  /\ service = "members" => MemberTypeOK
  /\ service \in {"triage", "gate"} => TriageTypeOK /\ GateTypeOK
  /\ service = "deliveries" => DeliveryTypeOK
  /\ service = "backups" => BackupTypeOK
  /\ service = "progress" => ProgressTypeOK
  /\ service = "approvals" => TypeOK
  /\ service = "reports" => ReportTypeOK
  /\ service \in {"sessions", "resets"} => SessionTypeOK
  /\ service = "signins" => SignInTypeOK
  /\ service = "keys" => KeyTypeOK
  /\ service = "lookups" => LookupTypeOK
  /\ service = "audit" => AuditTypeOK
===============================================================================
