---------------------------- MODULE ServicesProofs ----------------------------
(***************************************************************************)
(* Theorems about the composition of the services: each of them, seen      *)
(* alone, behaves as its own specification says, so that whatever is       *)
(* proved of a service holds of the whole.                                 *)
(***************************************************************************)
EXTENDS MCServices, RequestProofs, AccountsProofs, RecordsProofs, ReportsProofs

\* The texts of registries in the composition are texts.
LEMMA TextsAreWords ==
  ShortTexts \union TwoTerms \union ThreeTerms \subseteq Seq(Words)
  <1>1. /\ Terms \subseteq Words /\ LicenceNames \subseteq Words /\ Connectives \subseteq Words
        /\ "LATER" \in Words
    BY DEF Words, Terms
  <1>2. ASSUME NEW t \in ShortTexts PROVE t \in Seq(Words)
    <2>1. PICK n \in 1..2 : t \in [1..n -> Words]
      BY <1>2 DEF ShortTexts
    <2> QED
      BY <2>1
  <1>3. ASSUME NEW t \in TwoTerms PROVE t \in Seq(Words)
    <2>1. PICK p \in Terms, v \in Connectives, q \in Terms : t = <<p, v, q>>
      BY <1>3 DEF TwoTerms
    <2>2. p \in Words /\ v \in Words /\ q \in Words
      BY <1>1
    <2> QED
      BY <2>1, <2>2
  <1>4. ASSUME NEW t \in ThreeTerms PROVE t \in Seq(Words)
    <2>1. PICK p \in Terms, v \in Connectives, q \in LicenceNames, w \in Connectives,
              r \in LicenceNames \union {"LATER"} : t = <<p, v, q, w, r>>
      BY <1>4 DEF ThreeTerms
    <2>2. p \in Words /\ v \in Words /\ q \in Words /\ w \in Words /\ r \in Words
      BY <1>1
    <2> QED
      BY <2>1, <2>2
  <1> QED
    BY <1>2, <1>3, <1>4

\* What registries say in the composition is what they may say.
LEMMA SayingsAreTexts == Sayings \union {SaysNothing} \subseteq AllSayings
  <1>0. \A n : n \in Terms => n \in Words
    BY DEF Terms, Words
  <1>1. OneName \subseteq SpdxIds /\ OneName \subseteq Seq(Words) /\ Unknown \in Seq(Words)
    <2>1. ASSUME NEW u \in OneName PROVE u \in SpdxIds /\ u \in Seq(Words)
      <3>1. PICK n \in LicenceNames : u = <<n>>
        BY <2>1 DEF OneName
      <3>2. n \in Words
        BY <1>0 DEF Terms
      <3>3. <<n>> \in Seq(Words)
        BY <3>2
      <3> QED
        BY <3>1, <3>3 DEF SpdxIds
    <2>2. Unknown \in Seq(Words)
      BY DEF Unknown
    <2> QED
      BY <2>1, <2>2
  <1>2. ASSUME NEW t \in Seq(Words) PROVE [SaysNothing EXCEPT !.texts = <<t>>] \in AllSayings
    <2>1. [SaysNothing EXCEPT !.texts = <<t>>] = [texts |-> <<t>>, classifiers |-> <<>>]
      BY DEF SaysNothing
    <2>2. <<t>> \in Seq(Seq(Words)) /\ <<>> \in Seq(SpdxIds \union {Unknown})
      BY <1>2
    <2> QED
      BY <2>1, <2>2 DEF AllSayings
  <1>3. Single \subseteq AllSayings
    BY <1>2, TextsAreWords, Zenon DEF Single
  <1>4. ASSUME NEW x \in Several PROVE x \in AllSayings
    <2>1. PICK t \in {Unknown} \union {<<a>> : a \in Terms}, u \in OneName :
            x = [SaysNothing EXCEPT !.texts = <<t, u>>]
      BY <1>4 DEF Several
    <2>2. t \in Seq(Words) /\ u \in Seq(Words)
      <3>1. ASSUME NEW a \in Terms PROVE <<a>> \in Seq(Words)
        <4>1. a \in Words
          BY <1>0
        <4> QED
          BY <4>1
      <3> QED
        BY <1>1, <3>1
    <2>3. <<t, u>> \in Seq(Seq(Words)) /\ <<>> \in Seq(SpdxIds \union {Unknown})
      BY <2>2
    <2>4. x = [texts |-> <<t, u>>, classifiers |-> <<>>]
      BY <2>1 DEF SaysNothing
    <2> QED
      BY <2>3, <2>4 DEF AllSayings
  <1>5. ASSUME NEW x \in Classified PROVE x \in AllSayings
    <2>1. PICK t \in OneName, k \in {Unknown} \union OneName, l \in {Unknown} \union OneName :
            x = [texts |-> <<t>>, classifiers |-> <<k, l>>]
      BY <1>5 DEF Classified
    <2>2. t \in Seq(Words) /\ k \in SpdxIds \union {Unknown} /\ l \in SpdxIds \union {Unknown}
      BY <1>1
    <2>3. <<t>> \in Seq(Seq(Words)) /\ <<k, l>> \in Seq(SpdxIds \union {Unknown})
      BY <2>2
    <2> QED
      BY <2>1, <2>3 DEF AllSayings
  <1>6. SaysNothing \in AllSayings
    BY DEF SaysNothing, AllSayings
  <1> QED
    BY <1>3, <1>4, <1>5, <1>6 DEF Sayings

\* Every service starts as it does alone.
LEMMA StartOfEach ==
  ASSUME ServicesInit
  PROVE  /\ AdminInit /\ MemberInit /\ GateInit /\ DeliveryInit /\ BackupInit /\ ProgressInit
         /\ Init /\ ReportInit /\ SessionInit /\ SignInInit /\ KeyInit /\ AuditInit
         /\ LookupInit(AllSayings)
  <1>1. LookupInit(AllSayings)
    BY SayingsAreTexts DEF ServicesInit, LookupInit
  <1> QED
    BY <1>1 DEF ServicesInit

\* A step of the composition is a step of each service, or leaves it alone.
LEMMA StepOfEach ==
  ASSUME [ServicesNext]_servicesVars
  PROVE  /\ [AdminNext]_adminVars
         /\ [MemberNext]_memberVars
         /\ [DeliveryNext]_deliveryVars
         /\ [BackupNext]_backupVars
         /\ [ProgressNext]_progressVars
         /\ [Next]_vars
         /\ [ReportNext]_reportVars
         /\ [SessionNext]_sessionVars
         /\ [SignInNext]_signInVars
         /\ [KeyNext]_keyVars
         /\ [LookupNext]_lookupVars
         /\ [AuditNext]_auditVars
  BY DEF ServicesNext, servicesVars, Old, New

\* While the analysts are at work nobody asks for a verdict.
GateRests == service = "triage" => greq = [c \in Requests |-> Idle]

\* So a step of theirs is one of the policy gate, with no evaluation to watch it.
LEMMA GateStep ==
  ASSUME GateRests, [ServicesNext]_servicesVars
  PROVE  GateRests' /\ [GateNext]_gateVars
  <1>1. CASE service = "triage" /\ ServicesNext
    <2>1. /\ TriageNext /\ UNCHANGED <<service, greq, comments>>
          /\ greq = [c \in Requests |-> Idle]
      BY <1>1 DEF ServicesNext, GateRests
    <2>2. Watch
      BY <2>1 DEF Watch, Idle
    <2>3. GateNext
      BY <2>1, <2>2 DEF GateNext, TriageNext
    <2> QED
      BY <2>1, <2>3 DEF GateRests
  <1>2. CASE service # "triage" /\ ServicesNext
    BY <1>2 DEF ServicesNext, GateRests, Old
  <1>3. CASE UNCHANGED servicesVars
    BY <1>3 DEF servicesVars, GateRests, gateVars
  <1> QED
    BY <1>1, <1>2, <1>3

\* The policy gate adds nothing to what analysts and scans do to the findings.
LEMMA GateIsTriage == GateSpec => TriageSpec
  <1>1. GateInit => TriageInit
    BY DEF GateInit
  <1>2. [GateNext]_gateVars => [TriageNext]_triageVars
    BY DEF GateNext, TriageNext, gateVars, triageVars, PassWithoutScan, ChooseScan, CountCves,
           CountLicences, Comments, ListComments, PostComment, EndGate
  <1> QED
    BY <1>1, <1>2, PTL DEF GateSpec, TriageSpec

\* What TLC runs is every service as it is specified: no step of one disturbs
\* another, the bounds of the run only leave behaviours out, and the triage of
\* findings is the policy gate at rest.
THEOREM ServicesImplementParts ==
  ServicesSpec =>
    /\ AdminSpec /\ MemberSpec /\ TriageSpec /\ GateSpec /\ DeliverySpec /\ BackupSpec
    /\ ProgressSpec /\ Spec /\ ReportSpec /\ SessionSpec /\ SignInSpec /\ KeySpec
    /\ LookupSpec /\ AuditSpec
  <1>1. ServicesInit => GateRests
    BY DEF ServicesInit, GateInit, GateRests
  <1>2. ServicesSpec => GateSpec
    BY <1>1, StartOfEach, GateStep, PTL DEF ServicesSpec, GateSpec
  <1>3. ServicesSpec =>
          /\ AdminSpec /\ MemberSpec /\ DeliverySpec /\ BackupSpec /\ ProgressSpec /\ Spec
          /\ ReportSpec /\ SessionSpec /\ SignInSpec /\ KeySpec /\ LookupSpec /\ AuditSpec
    BY StartOfEach, StepOfEach, PTL
    DEF ServicesSpec, AdminSpec, MemberSpec, DeliverySpec, BackupSpec, ProgressSpec, Spec,
        ReportSpec, SessionSpec, SignInSpec, KeySpec, LookupSpec, AuditSpec
  <1> QED
    BY <1>2, <1>3, GateIsTriage, PTL

\* The variables of the service that takes the steps stay in their domains, and those
\* of the others as well.
THEOREM ServicesTypeCorrect == ServicesSpec => []ServicesTypeOK
  <1>1. /\ AdminTypeOK /\ MemberTypeOK /\ TriageTypeOK /\ GateTypeOK /\ DeliveryTypeOK
        /\ BackupTypeOK /\ ProgressTypeOK /\ TypeOK /\ ReportTypeOK /\ SessionTypeOK
        /\ SignInTypeOK /\ KeyTypeOK /\ LookupTypeOK /\ AuditTypeOK
        => ServicesTypeOK
    BY DEF ServicesTypeOK
  <1> QED
    BY <1>1, ServicesImplementParts, AdminTypeCorrect, MemberTypeCorrect, GateTypeCorrect,
       DeliveryTypeCorrect, BackupTypeCorrect, ProgressTypeCorrect, ApprovalTypeCorrect,
       ReportTypeCorrect, SessionTypeCorrect, SignInTypeCorrect, KeyTypeCorrect,
       LookupTypeCorrect, AuditTypeCorrect, PTL

\* The scans that a push starts and those that the reports choose from implement
\* ScanBoard, in the composition too.
THEOREM ScansShareBoard == ServicesSpec => ScansKeepBoard
  BY ServicesImplementParts, HooksImplementBoard, ReportsImplementBoard, PTL
  DEF ScansKeepBoard

\* All that TLC checks of the services on the run's few users, scans and requests holds of
\* the composition for any number of them.  What each of these says, and what it excepts,
\* is in the comment on it: a promotion that another request read past, for one
\* (SuperAdminRemains).
THEOREM ServicesKeepPromises ==
  ServicesSpec =>
    /\ [](/\ SuperAdminRemains /\ VerdictHeld /\ PushesScannedOnce
          /\ NothingTornIsRestored /\ StreamsAreCounted /\ OneOpen /\ ReportsAgree
          /\ ExportsAreWhole /\ TabsStaySignedIn /\ AMailedLinkWorks /\ SameAccount
          /\ LicenceSuffices /\ AuditReplays /\ ExportLosesOnlyTheOldest)
    /\ LastAdminStays /\ MovesAreSeen /\ ScansKeepBoard
    /\ PercentNeverFalls /\ DecidedAsSeen /\ RevocationSticks
  <1>1. ServicesSpec =>
          [](/\ SuperAdminRemains /\ VerdictHeld /\ PushesScannedOnce
             /\ NothingTornIsRestored /\ StreamsAreCounted /\ OneOpen /\ ReportsAgree)
    BY ServicesImplementParts, SuperAdminStays, VerdictWasHeld, PushesAreScanned,
       WholeIsRestored, FedStreamsAreCounted, OnePerPair, ReportsDoAgree, PTL
  <1>2. ServicesSpec =>
          [](/\ ExportsAreWhole /\ TabsStaySignedIn /\ AMailedLinkWorks /\ SameAccount
             /\ LicenceSuffices /\ AuditReplays /\ ExportLosesOnlyTheOldest)
    BY ServicesImplementParts, ExportIsWhole, CookieStaysGood, SomeLinkWorks,
       AccountStaysOneUser, LicenceIsEnough, TrailGivesTheRow, ExportsLoseOnlyTheOldest, PTL
  <1>3. ServicesSpec =>
          /\ LastAdminStays /\ MovesAreSeen /\ ScansKeepBoard
          /\ PercentNeverFalls /\ DecidedAsSeen /\ RevocationSticks
    BY ServicesImplementParts, LastAdminStaysSafe, MovesSeen, ScansShareBoard,
       PercentsNeverFall, CommitsWhatWasSeen, KeysStayRevoked, PTL
  <1> QED
    BY <1>1, <1>2, <1>3, PTL
===============================================================================
