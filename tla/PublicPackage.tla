---------------------------- MODULE PublicPackage ----------------------------
(***************************************************************************)
(* What public_export.py makes of a stored snapshot: the validation it     *)
(* repeats before anything is rendered, the allowlisted export, its        *)
(* rendered pages and the checks the package must pass before it replaces  *)
(* a published one.                                                        *)
(*                                                                         *)
(* A page is what other pages and the reader's navigation depend on: the   *)
(* anchors it offers, the pages (and anchors) of the package it links to,  *)
(* the repositories it is about and the collections it is tagged with.     *)
(* Prose, styles, and links that leave the package are left out.  A        *)
(* profile also says which of its collections are visible; that it is      *)
(* public and its locators portable is required of every export.           *)
(***************************************************************************)
EXTENDS Curation

CONSTANT NameParts   \* repository -> <<owner, name>>, each split at its "--"

-----------------------------------------------------------------------------
(* validate_curation_snapshot, repeated by every reader of the store.      *)

ValidSnapshot(snapshot) ==
    LET corpus == snapshot.semantic.corpus
        slugs  == DOMAIN snapshot.semantic.profile.budgets
    IN  /\ \A kind \in Kinds : Cardinality(Keys(corpus[kind])) = Cardinality(corpus[kind])
        /\ ContextRelated(corpus, slugs)
        /\ snapshot.semantic.memberships = MembershipMap(corpus, slugs)

-----------------------------------------------------------------------------
(* The allowlisted export                                                  *)

AssessedIn(corpus) == {assessment.key[2] : assessment \in corpus.assessments}

\* Mutant: the collections of a record are exported as they were screened.
PublicRecordUnfiltered(repository, corpus, visible) ==
    [repository  |-> repository,
     collections |-> Find(corpus.screenings, repository).domains,
     state       |-> IF repository \in AssessedIn(corpus) THEN "assessed" ELSE "screened"]

PublicRecord(repository, corpus, visible) ==
    [repository  |-> repository,
     collections |-> Find(corpus.screenings, repository).domains \cap visible,
     state       |-> IF repository \in AssessedIn(corpus) THEN "assessed" ELSE "screened"]

PublicProblem(problem, visible) ==
    [key |-> problem.key, domains |-> problem.domains \cap visible]

Withheld(corpus, visible) ==
    FoldSet(LAMBDA screening, n : n + Cardinality(screening.domains \ visible),
            0, corpus.screenings)

Export(snapshot) ==
    LET corpus  == snapshot.semantic.corpus
        visible == snapshot.semantic.profile.visible
    IN  [collections |-> visible,
         records     |-> {PublicRecord(repository, corpus, visible) :
                             repository \in Keys(corpus.evidence)},
         problems    |-> {PublicProblem(problem, visible) : problem \in corpus.problems},
         assessments |-> Keys(corpus.assessments),
         briefs      |-> {[key |-> b.key, candidates |-> b.candidates] : b \in corpus.briefs},
         excluded    |-> corpus.excluded,
         withheld    |-> Withheld(corpus, visible)]

\* PublicCatalogExport.export_is_coherent
Coherent(export) ==
    LET repositories == {record.repository : record \in export.records}
    IN  /\ \A relation \in export.assessments :
            relation[1] \in Keys(export.problems) /\ relation[2] \in repositories
        /\ \A brief \in export.briefs :
            /\ brief.key \in Keys(export.problems)
            /\ Cardinality(brief.candidates) \in 3..5
            /\ \A repository \in brief.candidates :
                <<brief.key, repository>> \in export.assessments
        /\ \A record \in export.records :
            record.state = "assessed" <=>
                \E relation \in export.assessments : relation[2] = record.repository

-----------------------------------------------------------------------------
(* The pages                                                               *)

\* owner/name with "--" for the slash: the parts of both, run together.
RepositorySlug(repository) == NameParts[repository][1] \o NameParts[repository][2]

BriefPath(problem) == <<"briefs", problem>>
EvidencePath(repository) == <<"evidence", RepositorySlug(repository)>>
File(name) == <<"", name>>
FixedFiles == {File("catalog.json"), File("sources.md"), File("tags.md"),
               File("assets/catalog.css")}

\* A link to an anchor of a page; "" is the page itself.
Link(path, anchor) == [path |-> path, anchor |-> anchor]

PlainPage == [anchors |-> {}, links |-> {}, about |-> {}, tags |-> {}]

IndexPage(export) ==
    [PlainPage EXCEPT
        !.links = {Link(BriefPath(brief.key), "") : brief \in export.briefs}
            \cup {Link(File(name), "") : name \in {"catalog.json", "sources.md", "manifest.json"}}]

BriefPage(brief, export) ==
    [PlainPage EXCEPT
        !.links = {Link(EvidencePath(repository), brief.key) : repository \in brief.candidates}
            \cup {Link(File("index.md"), "")},
        !.about = brief.candidates,
        !.tags  = Find(export.problems, brief.key).domains]

\* Mutant: only the first brief that names a repository gets a section.
EvidencePageOneSection(repository, export) ==
    LET brief == CHOOSE b \in export.briefs : repository \in b.candidates
        record == CHOOSE r \in export.records : r.repository = repository
    IN  [anchors |-> {brief.key},
         links   |-> {Link(BriefPath(brief.key), "")},
         about   |-> {repository},
         tags    |-> record.collections]

\* One section, and one anchor, for every brief that names the repository.
EvidencePage(repository, export) ==
    LET named  == {brief \in export.briefs : repository \in brief.candidates}
        record == CHOOSE r \in export.records : r.repository = repository
    IN  [anchors |-> Keys(named),
         links   |-> {Link(BriefPath(brief.key), "") : brief \in named},
         about   |-> {repository},
         tags    |-> record.collections]

InBriefs(export) == UNION {brief.candidates : brief \in export.briefs}

\* Repositories of one slug share a path, and the last one written stays.
RenderFiles(export) ==
    LET evidencePaths == {EvidencePath(repository) : repository \in InBriefs(export)}
        briefPaths    == {BriefPath(brief.key) : brief \in export.briefs}
    IN  [path \in FixedFiles \cup {File("index.md")} \cup briefPaths \cup evidencePaths |->
            CASE path = File("index.md") -> IndexPage(export)
              [] path \in briefPaths ->
                    BriefPage(CHOOSE b \in export.briefs : BriefPath(b.key) = path, export)
              [] path \in evidencePaths ->
                    EvidencePage(CHOOSE repository \in InBriefs(export) :
                                     EvidencePath(repository) = path, export)
              [] OTHER -> PlainPage]

Package(snapshot) ==
    LET export == Export(snapshot)
        files  == RenderFiles(export)
    IN  [export   |-> export,
         files    |-> files,
         manifest |-> DOMAIN files]

\* The paths of a package, its manifest among them.
PackagePaths(package) == package.manifest \cup {File("manifest.json")}

-----------------------------------------------------------------------------
(* Properties of a package.                                                *)

\* Every link inside the package leads to a page that is there and offers the
\* anchor, and the evidence a brief links to for a repository is about it.
LinksResolve(package) ==
    \A path \in package.manifest : \A link \in package.files[path].links :
        /\ link.path \in PackagePaths(package)
        /\ link.anchor # "" => link.anchor \in package.files[link.path].anchors

EvidenceIsFound(package) ==
    \A brief \in package.export.briefs : \A repository \in brief.candidates :
        package.files[EvidencePath(repository)].about = {repository}

\* No collection the profile hides is named, and the count of what was
\* withheld is the number of screening tags that are missing from the records.
HidesCollections(package, corpus, visible) ==
    /\ \A path \in package.manifest : package.files[path].tags \subseteq visible
    /\ \A record \in package.export.records : record.collections \subseteq visible
    /\ \A problem \in package.export.problems : problem.domains \subseteq visible
    /\ package.export.withheld =
           Cardinality(UNION {{<<screening.key, slug>> : slug \in screening.domains} :
                                  screening \in corpus.screenings})
           - Cardinality(UNION {{<<record.repository, slug>> : slug \in record.collections} :
                                    record \in package.export.records})
=============================================================================
