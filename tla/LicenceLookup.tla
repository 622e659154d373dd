----------------------------- MODULE LicenceLookup -----------------------------
(***************************************************************************)
(* The licence of a package whose SBOM names none (integrations/           *)
(* license_fetcher, and the last part of _persist_component_licenses).     *)
(*                                                                         *)
(* A pipeline asks the registry of the package's ecosystem, makes one SPDX *)
(* id of the first text it answers with, or none, and keeps the result in  *)
(* license_fetch_cache, within the transaction that persists the scan.     *)
(* Other pipelines find it there for as long as it is fresh.  Registries   *)
(* may be out of reach, and a pipeline may fail and roll back.             *)
(*                                                                         *)
(* A text is a sequence of words; the names of licences are words.  An     *)
(* SPDX id is written as the shortest text for it: <<n>> for the licence   *)
(* n, and <<n, "OR", "LATER">> for n or any later version.  What a version *)
(* of a package says of its licence does not change.                       *)
(*                                                                         *)
(* Left out: letter case and spelling (the other aliases), URLs and the    *)
(* parsing of purls, and the pause between two requests to one host.       *)
(***************************************************************************)
EXTENDS Naturals, Sequences, SequencesExt

CONSTANTS
  Workers,     \* processes, with a pipeline each
  Packages,    \* purls
  LicenceNames,       \* words that name a licence
  Phrased,     \* those whose "... or later" is an alias
  Spoilt,      \* words that name none
  MaxRetries   \* DEFAULT_MAX_RETRIES

ASSUME LookupAssumption == Phrased \subseteq LicenceNames /\ MaxRetries \in Nat

VARIABLES
  registry,    \* the ecosystem of each package
  says,        \* what its registry says of its licence
  cacheRow,    \* the rows of license_fetch_cache
  concluded,   \* history: the licences that scans were given, with their packages
  look         \* the pipeline of each worker

lookupVars == <<registry, says, cacheRow, concluded, look>>

Connectives == {"AND", "OR", "WITH"}
Words == LicenceNames \union Spoilt \union Connectives \union {"LATER"}

\* No licence; and no row.
Unknown == <<>>
NoRow == [id |-> Unknown, fresh |-> FALSE]

(***************************************************************************)
(* What a text is reduced to.                                              *)
(***************************************************************************)

\* _SPDX_ALIASES, as far as an entry has a connective in it.
Aliased == {<<n, "OR", "LATER">> : n \in Phrased}

Least(numbers) == CHOOSE k \in numbers : \A j \in numbers : k <= j

Cuts(t, w) == {k \in 2..(Len(t) - 1) : t[k] = w}

\* _split_compound: at every w that has a word on both sides.
Split(text, w) ==
  LET Pieces[t \in Seq(Words)] ==
        IF Cuts(t, w) = {} THEN <<t>>
        ELSE LET k == Least(Cuts(t, w))
             IN <<SubSeq(t, 1, k - 1)>> \o Pieces[SubSeq(t, k + 1, Len(t))]
  IN Pieces[text]

\* Wrong on purpose: of a conjunction, too, the first licence will do.
EitherWay(text) ==
  LET Reduce[t \in Seq(Words)] ==
        LET Answers(w) == {i \in DOMAIN Split(t, w) :
                             Split(t, w)[i] # t /\ Reduce[Split(t, w)[i]] # Unknown} IN
        CASE t \in Aliased -> t
          [] t \notin Aliased /\ "AND" \in ToSet(t) ->
               IF Answers("AND") = {} THEN Unknown
               ELSE Reduce[Split(t, "AND")[Least(Answers("AND"))]]
          [] t \notin Aliased /\ "AND" \notin ToSet(t) /\ "OR" \in ToSet(t) ->
               IF Answers("OR") = {} THEN Unknown
               ELSE Reduce[Split(t, "OR")[Least(Answers("OR"))]]
          [] OTHER -> IF Len(t) = 1 /\ t[1] \in LicenceNames THEN t ELSE Unknown
  IN Reduce[text]

\* normalize_spdx_id: an alias; nothing for a conjunction; of alternatives the first
\* that is a licence; a licence without its exception; a name.
Normalise(text) ==
  LET Reduce[t \in Seq(Words)] ==
        LET pieces == Split(t, "OR")
            Answers == {i \in DOMAIN pieces : pieces[i] # t /\ Reduce[pieces[i]] # Unknown}
            Base == Head(Split(t, "WITH")) IN
        CASE t \in Aliased -> t
          [] t \notin Aliased /\ "AND" \in ToSet(t) -> Unknown
          [] t \notin Aliased /\ "AND" \notin ToSet(t) /\ "OR" \in ToSet(t) ->
               IF Answers = {} THEN Unknown ELSE Reduce[pieces[Least(Answers)]]
          [] ToSet(t) \intersect Connectives = {"WITH"} ->
               IF Base = t THEN Unknown ELSE Reduce[Base]
          [] OTHER -> IF Len(t) = 1 /\ t[1] \in LicenceNames THEN t ELSE Unknown
  IN Reduce[text]

\* The SPDX ids.
SpdxIds == {<<n>> : n \in LicenceNames} \union Aliased

(***************************************************************************)
(* The registries.  Each answers with texts, of which some may be blank,   *)
(* and PyPI with what its classifiers come to, which may be nothing.       *)
(***************************************************************************)

Registries == {"maven", "pypi", "cargo", "golang", "other"}

\* PURL_PREFIX_TO_FETCHER.
Supported(p) == registry[p] # "other"

First(list) == IF list = <<>> THEN Unknown ELSE list[1]

FirstKnown(list) ==
  LET known == {i \in DOMAIN list : list[i] # Unknown}
  IN IF known = {} THEN Unknown ELSE list[Least(known)]

\* The first classifier that is a licence, if there is one, or the text.
FromPyPI(s) ==
  IF FirstKnown(s.classifiers) # Unknown THEN FirstKnown(s.classifiers)
  ELSE Normalise(First(s.texts))
\* The name of the first <license> of the POM, which may have none, whatever follows it.
FromMaven(s) == Normalise(First(s.texts))
\* The expression in the manifest.
FromCrates(s) == Normalise(First(s.texts))
\* The first name on the page.
FromPkgGo(s) == Normalise(FirstKnown(s.texts))

FetchedFor(p) ==
  CASE registry[p] = "maven" -> FromMaven(says[p])
    [] registry[p] = "pypi" -> FromPyPI(says[p])
    [] registry[p] = "cargo" -> FromCrates(says[p])
    [] registry[p] = "golang" -> FromPkgGo(says[p])

(***************************************************************************)
(* Looking up.                                                             *)
(***************************************************************************)

\* A transaction that has written nothing.
NoWrites == [p \in Packages |-> {}]
Resting == [pc |-> "idle", wrote |-> NoWrites, found |-> {}]

\* What a registry may say: set by a model.  A POM or a page on pkg.go.dev may have several
\* texts, the others one; PyPI alone has classifiers.
LookupInit(Sayings) ==
  /\ registry \in [Packages -> Registries]
  /\ says \in [Packages -> Sayings]
  /\ \A p \in Packages :
       /\ says[p].classifiers # <<>> => registry[p] = "pypi"
       /\ registry[p] \in {"pypi", "cargo"} => Len(says[p].texts) <= 1
  /\ cacheRow = [p \in Packages |-> NoRow]
  /\ concluded = {}
  /\ look = [w \in Workers |-> Resting]

Does(w, l) == look' = [look EXCEPT ![w] = l]

\* The row as w sees it: its own, or the one that is committed.
Sees(w, p) ==
  IF look[w].wrote[p] = {} THEN cacheRow[p] ELSE CHOOSE r \in look[w].wrote[p] : TRUE

\* The licence of p, if there is one, goes into the scan (a concluded LicenseFinding).
Concludes(l, p, id) ==
  [l EXCEPT !.pc = "idle", !.found = IF id = Unknown THEN @ ELSE @ \union {<<p, id>>}]

\* _cache_lookup: a fresh row answers, for good or ill; for a package of no registry
\* there is nothing to ask.
LookUp(w, p) ==
  LET r == Sees(w, p) IN
  /\ look[w].pc = "idle"
  /\ IF r.fresh
     THEN Does(w, Concludes(look[w], p, r.id))
     ELSE Does(w, [pc    |-> IF Supported(p) THEN "ask" ELSE "write",
                   wrote |-> look[w].wrote,
                   found |-> look[w].found,
                   p     |-> p, tries |-> 0, id |-> Unknown])
  /\ UNCHANGED <<registry, says, cacheRow, concluded>>

\* request_with_retry: an answer (and what the adapter makes of it), none to be had
\* (404, a redirect, another refusal, something that cannot be parsed), or a failure
\* that is retried until there have been too many.
AskRegistry(w) ==
  LET l == look[w] IN
  /\ l.pc = "ask"
  /\ \/ Does(w, [l EXCEPT !.pc = "write", !.id = FetchedFor(l.p)])
     \/ Does(w, [l EXCEPT !.pc = "write"])
     \/ Does(w, [l EXCEPT !.tries = @ + 1,
                          !.pc = IF l.tries < MaxRetries THEN "ask" ELSE "write"])
  /\ UNCHANGED <<registry, says, cacheRow, concluded>>

\* _cache_write: an upsert, which waits for whoever else has written the row.
Write(w) ==
  LET l == look[w] IN
  /\ l.pc = "write"
  /\ \A v \in Workers \ {w} : look[v].wrote[l.p] = {}
  /\ Does(w, Concludes([pc |-> "write", found |-> l.found,
                        wrote |-> [l.wrote EXCEPT
                                     ![l.p] = {[id |-> l.id, fresh |-> TRUE]}]],
                       l.p, l.id))
  /\ UNCHANGED <<registry, says, cacheRow, concluded>>

\* The scan is persisted, with the rows of the cache.
CommitLookups(w) ==
  /\ look[w].pc = "idle"
  /\ look[w] # Resting
  /\ cacheRow' = [p \in Packages |-> Sees(w, p)]
  /\ concluded' = concluded \union look[w].found
  /\ Does(w, Resting)
  /\ UNCHANGED <<registry, says>>

\* The pipeline fails, or its worker is lost, before it commits.
Forget(w) ==
  /\ look[w] # Resting
  /\ Does(w, Resting)
  /\ UNCHANGED <<registry, says, cacheRow, concluded>>

\* A row grows older than the time to live.
GrowStale(p) ==
  /\ cacheRow[p].fresh
  /\ cacheRow' = [cacheRow EXCEPT ![p].fresh = FALSE]
  /\ UNCHANGED <<registry, says, concluded, look>>

LookupNext ==
  \/ \E p \in Packages : GrowStale(p)
  \/ \E w \in Workers :
       \/ \E p \in Packages : LookUp(w, p)
       \/ AskRegistry(w) \/ Write(w) \/ CommitLookups(w) \/ Forget(w)

\* Any texts and classifiers.
AllSayings == [texts : Seq(Seq(Words)), classifiers : Seq(SpdxIds \union {Unknown})]

LookupSpec ==
  /\ LookupInit(AllSayings)
  /\ [][LookupNext]_lookupVars

(***************************************************************************)
(* Properties.                                                             *)
(***************************************************************************)

\* Every variable stays in its domain.
LookupTypeOK ==
  /\ registry \in [Packages -> Registries]
  /\ \A p \in Packages :
       /\ \A i \in DOMAIN says[p].texts : says[p].texts[i] \in Seq(Words)
       /\ cacheRow[p].id \in SpdxIds \union {Unknown}
  /\ concluded \subseteq Packages \X SpdxIds
  /\ \A w \in Workers :
       /\ look[w].pc \in {"idle", "ask", "write"}
       /\ look[w].pc # "idle" => look[w].tries \in 0..(MaxRetries + 1)

\* The alternatives of a text are its longest stretches without an OR.
Alternatives(text) ==
  {s \in (1..Len(text)) \X (1..Len(text)) :
     /\ s[1] <= s[2]
     /\ \A k \in s[1]..s[2] : text[k] # "OR"
     /\ s[1] = 1 \/ text[s[1] - 1] = "OR"
     /\ s[2] = Len(text) \/ text[s[2] + 1] = "OR"}

\* To comply with the licence id alone is to comply with the text: it is what each
\* part of a conjunction is under, exceptions aside, in one of the alternatives.
Suffices(id, text) ==
  \/ id = text
  \/ \E s \in Alternatives(text) :
       \A k \in s[1]..s[2] :
         k = s[1] \/ text[k - 1] = "AND" => id = <<text[k]>>

\* The one licence that scans are given for a package, from the registry or from the
\* cache, is one to comply with is enough for one of the texts the registry has, whatever
\* that text combines, or is what a classifier names: however lookups fail, are repeated
\* and overlap.  Several licences of a POM are alternatives, so that this is enough for
\* the package; of several on pkg.go.dev, or several classifiers, the adapters take the
\* first likewise, although all may apply, and nothing is said of the others here.
LicenceSuffices ==
  \A c \in concluded :
    \/ \E i \in DOMAIN says[c[1]].texts : Suffices(c[2], says[c[1]].texts[i])
    \/ c[2] \in ToSet(says[c[1]].classifiers)
================================================================================
