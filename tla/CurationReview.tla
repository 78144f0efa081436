--------------------------- MODULE CurationReview ---------------------------
(***************************************************************************)
(* A curated profile over time: compile_profile (curation.py) over the     *)
(* same sources at successive review times, each compilation against the   *)
(* snapshot of the time before, and what render_public_catalog             *)
(* (public_export.py) would publish of every snapshot.                     *)
(***************************************************************************)
EXTENDS PublicPackage

CONSTANTS Inputs,       \* the sequences of source documents a profile may list
          Profiles,     \* profiles at their first review time
          LastReview    \* bound: the last review time

\* GitHub allows neither "--" in an owner's name nor "-" at its end, so that
\* slugs tell names apart.
ASSUME NamePartsAssumption ==
    \A one, other \in DOMAIN NameParts :
        RepositorySlug(one) = RepositorySlug(other) => one = other

\* What the schemas of a document guarantee (CurationCorpusInput and
\* CurationContextInput with their parts).
WellFormed(document) ==
    /\ \A kind \in Kinds : document[kind] \in Seq(ToSet(document[kind]))
    /\ \A e \in ToSet(document.evidence) :
          e \in [key : {e.key}, checked : Int,
                 freshness : {"current", "stale", "partial", "blocked"}]
    /\ \A screening \in ToSet(document.screenings) : IsFiniteSet(screening.domains)
    /\ \A brief \in ToSet(document.briefs) :
          brief.checked \in Int /\ Cardinality(brief.candidates) \in 3 .. 5

ASSUME SourcesAssumption ==
    /\ \A listed \in Inputs :
          /\ listed \in Seq(ToSet(listed))
          /\ \A document \in ToSet(listed) : WellFormed(document)
    /\ \A p \in Profiles :
          p \in [asOf : Int, maxAge : Int, visible : {p.visible}, budgets : {p.budgets}]

VARIABLES profile, documents, snapshot
vars == <<profile, documents, snapshot>>

Compiled(p, d, previous) ==
    IF Compilable(p, d) THEN {Compile(p, d, previous)} ELSE {}

Init ==
    /\ documents \in Inputs
    /\ profile \in Profiles
    /\ snapshot = Compiled(profile, documents, {})

\* The operator moves the review time on and builds again.
Review ==
    /\ profile.asOf < LastReview
    /\ profile' = [profile EXCEPT !.asOf = @ + 1]
    /\ UNCHANGED documents
    /\ snapshot' = Compiled(profile', documents, snapshot)

Next == Review
Spec == Init /\ [][Next]_vars

-----------------------------------------------------------------------------
\* Nothing a source says is lost: a snapshot holds exactly the records of its
\* sources (evidence as aged), so no source overrides another.
NothingDropped ==
    \A s \in snapshot : \A kind \in Kinds :
        s.semantic.corpus[kind] =
            UNION {ToSet(RecordsOf(kind, profile, <<documents[i]>>)) :
                       i \in DOMAIN documents}

Orders(D) == {order \in [D -> D] : \A j \in D : \E i \in D : order[i] = j}

\* The sources may be listed in any order: the profile is refused in every
\* order or in none.
OrderIrrelevant ==
    LET compiles == Compilable(profile, documents)
    IN  \A order \in Orders(DOMAIN documents) :
            compiles <=>
                Compilable(profile, [i \in DOMAIN documents |-> documents[order[i]]])

\* Whatever the compiler accepts for a public profile can be published: the
\* stored snapshot passes the validation its readers repeat, and its export the
\* exporter's own rules (render_public_catalog), which state the relations
\* between briefs, assessments and evidence a second and a third time.
CompiledIsPublishable ==
    \A s \in snapshot : ValidSnapshot(s) /\ Coherent(Export(s))

\* A published package has no dead link: every page it links to is there, with
\* the section linked to, and is about the repository it was linked for, although
\* pages are filed under slugs (of names NamePartsAssumption speaks of).
LinksLeadThere ==
    \A s \in snapshot :
        LET package == Package(s)
        IN  InBriefs(package.export) \subseteq DOMAIN NameParts =>
                LinksResolve(package) /\ EvidenceIsFound(package)

\* A collection that is not visible on the public site is named nowhere in the
\* package, and what it withheld is counted.
HiddenStaysHidden ==
    \A s \in snapshot :
        HidesCollections(Package(s), s.semantic.corpus, s.semantic.profile.visible)

\* Time alone never makes a profile uncompilable, and the diff then names
\* exactly the repositories whose evidence has become stale.
AgeingIsReported ==
    [][\A s \in snapshot :
        /\ snapshot' # {}
        /\ \A t \in snapshot' :
            LET changes == t.diff.repositories
            IN  /\ changes.added = {} /\ changes.removed = {}
                /\ changes.changed = WithFreshness(t.semantic.corpus, "stale")
                                   \ WithFreshness(s.semantic.corpus, "stale")]_vars
=============================================================================
