------------------------ MODULE CurationReviewProofs -------------------------
(***************************************************************************)
(* What compile_profile (curation.py) makes of a profile's sources, and    *)
(* what render_public_catalog (public_export.py) publishes of it, for      *)
(* every profile, every list of documents and every history of reviews.    *)
(*                                                                         *)
(* The links of a package need no history: a page's path names its kind,   *)
(* a brief's path its problem, and an evidence path one repository as long *)
(* as slugs tell repositories apart (NamePartsAssumption).  The rest rests *)
(* on one invariant, ReviewInv: a snapshot is what its profile makes of    *)
(* the documents.  The fold that merges them is reduced to sets            *)
(* (MergedFacts): without a conflict it holds what the documents say, and  *)
(* there is a conflict exactly when two of their records share a key and   *)
(* differ.                                                                 *)
(***************************************************************************)
EXTENDS CurationReview, DataInduction

-----------------------------------------------------------------------------
(* The links of a package.                                                 *)

\* Paths of different kinds differ, and a brief's path names its problem.
LEMMA PathsDiffer ==
    /\ \A problem, name : BriefPath(problem) # File(name)
    /\ \A repository, name : EvidencePath(repository) # File(name)
    /\ \A problem, repository : BriefPath(problem) # EvidencePath(repository)
    /\ \A one, other : BriefPath(one) = BriefPath(other) => one = other
    /\ File("index.md") \notin FixedFiles
    /\ File("manifest.json") \notin FixedFiles \cup {File("index.md")}
  BY DEF BriefPath, EvidencePath, File, FixedFiles

EvidencePaths(export) == {EvidencePath(repository) : repository \in InBriefs(export)}
BriefPaths(export) == {BriefPath(brief.key) : brief \in export.briefs}

\* What is rendered under each path.
LEMMA Rendered ==
    ASSUME NEW export
    PROVE  LET files == RenderFiles(export)
           IN  /\ DOMAIN files = FixedFiles \cup {File("index.md")}
                       \cup BriefPaths(export) \cup EvidencePaths(export)
               /\ \A path \in FixedFiles : files[path] = PlainPage
               /\ files[File("index.md")] = IndexPage(export)
               /\ \A path \in BriefPaths(export) :
                     \E b \in export.briefs :
                        BriefPath(b.key) = path /\ files[path] = BriefPage(b, export)
               /\ \A path \in EvidencePaths(export) :
                     \E r \in InBriefs(export) :
                        EvidencePath(r) = path /\ files[path] = EvidencePage(r, export)
<1> DEFINE files == RenderFiles(export)
           index == File("index.md")
           Page(path) ==
                CASE path = File("index.md") -> IndexPage(export)
                  [] path \in BriefPaths(export) ->
                        BriefPage(CHOOSE b \in export.briefs : BriefPath(b.key) = path, export)
                  [] path \in EvidencePaths(export) ->
                        EvidencePage(CHOOSE repository \in InBriefs(export) :
                                         EvidencePath(repository) = path, export)
                  [] OTHER -> PlainPage
           paths == FixedFiles \cup {index} \cup BriefPaths(export) \cup EvidencePaths(export)
<1>1. files = [path \in paths |-> Page(path)]
  BY DEF RenderFiles, BriefPaths, EvidencePaths
<1>2. \A path \in FixedFiles : path # index /\ path \notin BriefPaths(export)
                                /\ path \notin EvidencePaths(export)
  BY PathsDiffer DEF FixedFiles, BriefPaths, EvidencePaths
<1>3. \A path \in BriefPaths(export) : path # index /\ path \notin EvidencePaths(export)
  BY PathsDiffer DEF BriefPaths, EvidencePaths
<1>4. \A path \in EvidencePaths(export) : path # index /\ path \notin BriefPaths(export)
  BY PathsDiffer DEF BriefPaths, EvidencePaths
<1>5. \A path \in FixedFiles : Page(path) = PlainPage
  BY <1>2
<1>6. Page(index) = IndexPage(export)
  BY PathsDiffer DEF BriefPaths, EvidencePaths
<1>7. ASSUME NEW path \in BriefPaths(export)
      PROVE  \E b \in export.briefs :
                BriefPath(b.key) = path /\ Page(path) = BriefPage(b, export)
  <2> DEFINE chosen == CHOOSE b \in export.briefs : BriefPath(b.key) = path
  <2>1. \E b \in export.briefs : BriefPath(b.key) = path
    BY DEF BriefPaths
  <2>2. chosen \in export.briefs /\ BriefPath(chosen.key) = path
    BY <2>1
  <2>3. Page(path) = BriefPage(chosen, export)
    BY <1>3
  <2>4. QED
    BY <2>2, <2>3
<1>8. ASSUME NEW path \in EvidencePaths(export)
      PROVE  \E r \in InBriefs(export) :
                EvidencePath(r) = path /\ Page(path) = EvidencePage(r, export)
  <2> DEFINE chosen == CHOOSE repository \in InBriefs(export) :
                            EvidencePath(repository) = path
  <2>1. \E r \in InBriefs(export) : EvidencePath(r) = path
    BY DEF EvidencePaths
  <2>2. chosen \in InBriefs(export) /\ EvidencePath(chosen) = path
    BY <2>1
  <2>3. Page(path) = EvidencePage(chosen, export)
    BY <1>4
  <2>4. QED
    BY <2>2, <2>3
<1> HIDE DEF Page, files
<1>9. DOMAIN files = paths /\ \A path \in paths : files[path] = Page(path)
  BY <1>1
<1>10. QED
  BY <1>5, <1>6, <1>7, <1>8, <1>9 DEF files

\* Slugs of known repositories tell them apart.
LEMMA EvidencePathsTellApart ==
    ASSUME NEW one \in DOMAIN NameParts, NEW other \in DOMAIN NameParts,
           EvidencePath(one) = EvidencePath(other)
    PROVE  one = other
  BY NamePartsAssumption DEF EvidencePath

\* The page under a repository's evidence path is the repository's own, with a
\* section for every brief that names it.
LEMMA EvidenceIsOwn ==
    ASSUME NEW export, InBriefs(export) \subseteq DOMAIN NameParts,
           NEW brief \in export.briefs, NEW repository \in brief.candidates
    PROVE  LET path == EvidencePath(repository)
           IN  /\ path \in DOMAIN RenderFiles(export)
               /\ RenderFiles(export)[path].about = {repository}
               /\ brief.key \in RenderFiles(export)[path].anchors
<1> DEFINE path == EvidencePath(repository)
<1>1. repository \in InBriefs(export) /\ path \in EvidencePaths(export)
  BY DEF InBriefs, EvidencePaths
<1>2. PICK r \in InBriefs(export) :
          EvidencePath(r) = path /\ RenderFiles(export)[path] = EvidencePage(r, export)
  BY <1>1, Rendered
<1>3. r = repository
  BY <1>1, <1>2, EvidencePathsTellApart
<1>4. /\ EvidencePage(repository, export).about = {repository}
      /\ brief.key \in EvidencePage(repository, export).anchors
  BY DEF EvidencePage, Keys
<1>5. QED
  BY <1>1, <1>2, <1>3, <1>4, Rendered

\* The links of the four kinds of page.
LEMMA PageLinks ==
    ASSUME NEW export
    PROVE  /\ PlainPage.links = {}
           /\ IndexPage(export).links =
                  {Link(BriefPath(brief.key), "") : brief \in export.briefs}
                  \cup {Link(File(name), "") :
                          name \in {"catalog.json", "sources.md", "manifest.json"}}
           /\ \A brief : BriefPage(brief, export).links =
                  {Link(EvidencePath(repository), brief.key) :
                      repository \in brief.candidates}
                  \cup {Link(File("index.md"), "")}
           /\ \A repository : EvidencePage(repository, export).links =
                  {Link(BriefPath(brief.key), "") :
                      brief \in {b \in export.briefs : repository \in b.candidates}}
<1>1. PlainPage.links = {}
  BY DEF PlainPage
<1>2. IndexPage(export).links =
          {Link(BriefPath(brief.key), "") : brief \in export.briefs}
          \cup {Link(File(name), "") :
                  name \in {"catalog.json", "sources.md", "manifest.json"}}
  BY DEF IndexPage, PlainPage
<1>3. ASSUME NEW brief
      PROVE  BriefPage(brief, export).links =
                {Link(EvidencePath(repository), brief.key) :
                    repository \in brief.candidates}
                \cup {Link(File("index.md"), "")}
  BY DEF BriefPage, PlainPage
<1>4. ASSUME NEW repository
      PROVE  EvidencePage(repository, export).links =
                {Link(BriefPath(brief.key), "") :
                    brief \in {b \in export.briefs : repository \in b.candidates}}
  BY DEF EvidencePage
<1>5. QED
  BY <1>1, <1>2, <1>3, <1>4

\* What a link carries.
LEMMA LinkFields ==
    \A path, anchor : Link(path, anchor).path = path /\ Link(path, anchor).anchor = anchor
  BY DEF Link

\* No link of a rendered package is dead.
LEMMA PackageResolves ==
    ASSUME NEW export, InBriefs(export) \subseteq DOMAIN NameParts,
           NEW path \in DOMAIN RenderFiles(export),
           NEW link \in RenderFiles(export)[path].links
    PROVE  /\ link.path \in DOMAIN RenderFiles(export) \cup {File("manifest.json")}
           /\ link.anchor # "" =>
                  link.anchor \in RenderFiles(export)[link.path].anchors
<1> DEFINE files == RenderFiles(export)
<1>1. /\ DOMAIN files = FixedFiles \cup {File("index.md")}
                           \cup BriefPaths(export) \cup EvidencePaths(export)
      /\ link \in files[path].links
  BY Rendered
<1> DEFINE ToBriefs == {Link(BriefPath(brief.key), "") : brief \in export.briefs}
           ToFiles == {Link(File(name), "") :
                          name \in {"catalog.json", "sources.md", "manifest.json"}}
<1>2. CASE path \in FixedFiles
  <2>1. files[path] = PlainPage
    BY <1>2, Rendered
  <2>2. QED
    BY <1>1, <2>1, PageLinks
<1>3. CASE path = File("index.md")
  <2>1. files[path] = IndexPage(export)
    BY <1>3, Rendered
  <2>2. link \in IndexPage(export).links
    BY <1>1, <2>1
  <2>3. link \in ToBriefs \cup ToFiles
    BY <2>2, PageLinks, Zenon
  <2>4. CASE link \in ToBriefs
    <3>1. PICK brief \in export.briefs : link = Link(BriefPath(brief.key), "")
      BY <2>4
    <3>2. link.path = BriefPath(brief.key) /\ link.anchor = ""
      BY <3>1, LinkFields
    <3>3. QED
      BY <1>1, <3>2 DEF BriefPaths
  <2>5. CASE link \in ToFiles
    <3>1. PICK name \in {"catalog.json", "sources.md", "manifest.json"} :
              link = Link(File(name), "")
      BY <2>5
    <3>2. link.path = File(name) /\ link.anchor = ""
      BY <3>1, LinkFields
    <3>3. QED
      BY <1>1, <3>1, <3>2 DEF FixedFiles
  <2>6. QED
    BY <2>3, <2>4, <2>5
<1>4. CASE path \in BriefPaths(export)
  <2>1. PICK b \in export.briefs : files[path] = BriefPage(b, export)
    BY <1>4, Rendered
  <2>2. link \in BriefPage(b, export).links
    BY <1>1, <2>1
  <2>3. \/ link \in {Link(EvidencePath(repository), b.key) : repository \in b.candidates}
        \/ link = Link(File("index.md"), "")
    <3>1. BriefPage(b, export).links =
              {Link(EvidencePath(repository), b.key) : repository \in b.candidates}
              \cup {Link(File("index.md"), "")}
      BY PageLinks, Zenon
    <3>2. QED
      BY <2>2, <3>1, Zenon
  <2>4. CASE link = Link(File("index.md"), "")
    <3>1. link.path = File("index.md") /\ link.anchor = ""
      BY <2>4, LinkFields
    <3>2. QED
      BY <1>1, <3>1
  <2>5. CASE link \in {Link(EvidencePath(repository), b.key) : repository \in b.candidates}
    <3>1. PICK repository \in b.candidates : link = Link(EvidencePath(repository), b.key)
      BY <2>5
    <3>2. link.path = EvidencePath(repository) /\ link.anchor = b.key
      BY <3>1, LinkFields
    <3>3. /\ EvidencePath(repository) \in DOMAIN files
          /\ b.key \in files[EvidencePath(repository)].anchors
      BY EvidenceIsOwn
    <3>4. QED
      BY <3>2, <3>3
  <2>6. QED
    BY <2>3, <2>4, <2>5
<1>5. CASE path \in EvidencePaths(export)
  <2>1. PICK r \in InBriefs(export) : files[path] = EvidencePage(r, export)
    BY <1>5, Rendered
  <2>2. link \in EvidencePage(r, export).links
    BY <1>1, <2>1
  <2>3. link \in {Link(BriefPath(brief.key), "") :
                      brief \in {b \in export.briefs : r \in b.candidates}}
    BY <2>2, PageLinks, Zenon
  <2>4. PICK brief \in export.briefs : link = Link(BriefPath(brief.key), "")
    BY <2>3
  <2>5. link.path = BriefPath(brief.key) /\ link.anchor = ""
    BY <2>4, LinkFields
  <2>6. QED
    BY <1>1, <2>5 DEF BriefPaths
<1>6. QED
  BY <1>1, <1>2, <1>3, <1>4, <1>5

\* No published package has a dead link, and the evidence a brief links to for
\* a repository is that repository's, whatever was compiled and however often:
\* pages are filed under slugs, and slugs tell GitHub's names apart.
THEOREM PublishedLinksResolve == Spec => []LinksLeadThere
<1>1. LinksLeadThere
  <2>1. SUFFICES ASSUME NEW s \in snapshot,
                        InBriefs(Package(s).export) \subseteq DOMAIN NameParts
                 PROVE  LinksResolve(Package(s)) /\ EvidenceIsFound(Package(s))
    BY DEF LinksLeadThere
  <2> DEFINE export == Export(s)
  <2>2. /\ Package(s).export = export
        /\ Package(s).files = RenderFiles(export)
        /\ Package(s).manifest = DOMAIN RenderFiles(export)
    BY DEF Package
  <2>3. InBriefs(export) \subseteq DOMAIN NameParts
    BY <2>1, <2>2
  <2> HIDE DEF export
  <2>4. LinksResolve(Package(s))
    BY <2>2, <2>3, PackageResolves DEF LinksResolve, PackagePaths
  <2>5. EvidenceIsFound(Package(s))
    BY <2>2, <2>3, EvidenceIsOwn DEF EvidenceIsFound
  <2>6. QED
    BY <2>4, <2>5
<1>2. QED
  BY <1>1, PTL

-----------------------------------------------------------------------------
(* Merging the sources.                                                    *)

\* No two records of one key.
OneEach(S) == \A a, b \in S : a.key = b.key => a = b

\* The first record of every key, among the positions in T, and whether a later
\* one differs from it.
Firsts(s, T) == {n \in T : \A m \in T : m < n => s[m].key # s[n].key}
Clash(s, T) == \E m, n \in T : s[m].key = s[n].key /\ s[m] # s[n]
Merging(s, T) == [conflict |-> Clash(s, T), records |-> {s[n] : n \in Firsts(s, T)}]

\* Whatever has a key, the first that has it was kept.
LEMMA FirstOfEachKey ==
    ASSUME NEW s, NEW T \in SUBSET Nat, NEW n \in T
    PROVE  \E m \in Firsts(s, T) : s[m].key = s[n].key
<1> DEFINE Same == {m \in T : s[m].key = s[n].key}
<1>1. PICK m \in Same : \A k \in Same : m <= k
  <2>1. Same \in SUBSET Nat /\ Same # {}
    OBVIOUS
  <2> HIDE DEF Same
  <2>2. QED
    BY <2>1, SmallestExists
<1>2. m \in Firsts(s, T)
  <2>1. SUFFICES ASSUME NEW k \in T, k < m PROVE s[k].key # s[m].key
    BY DEF Firsts
  <2>2. k \in Nat /\ m \in Nat /\ ~(m <= k)
    BY <2>1
  <2>3. QED
    BY <1>1, <2>2
<1>3. QED
  BY <1>1, <1>2

\* One step of the fold, taken last.
LEMMA MergingOneMore ==
    ASSUME NEW s, NEW T \in SUBSET Nat, NEW x \in T, \A y \in T : y <= x
    PROVE  Merging(s, T) = MergeRecord(Merging(s, T \ {x}), s[x])
<1> DEFINE U == T \ {x}
           kept == {s[n] : n \in Firsts(s, U)}
<1>1. \A n \in U : n \in T /\ n < x
  OBVIOUS
<1>2. \A n \in U : n \in Firsts(s, T) <=> n \in Firsts(s, U)
  BY <1>1 DEF Firsts
<1>3. CASE \E other \in kept : other.key = s[x].key /\ other # s[x]
  <2>1. Clash(s, T) /\ x \notin Firsts(s, T)
    BY <1>1, <1>3 DEF Clash, Firsts
  <2>2. Firsts(s, T) = Firsts(s, U)
    BY <1>2, <2>1 DEF Firsts
  <2>3. MergeRecord(Merging(s, U), s[x]) = [Merging(s, U) EXCEPT !.conflict = TRUE]
    BY <1>3 DEF MergeRecord, Merging
  <2>4. [Merging(s, U) EXCEPT !.conflict = TRUE] = [conflict |-> TRUE, records |-> kept]
    <3>1. \A c, d, r : [[conflict |-> c, records |-> r] EXCEPT !.conflict = d]
                           = [conflict |-> d, records |-> r]
      OBVIOUS
    <3> HIDE DEF kept
    <3>2. QED
      BY <3>1, Zenon DEF Merging, kept
  <2>5. Merging(s, T) = [conflict |-> TRUE, records |-> kept]
    BY <2>1, <2>2 DEF Merging
  <2>6. QED
    BY <2>3, <2>4, <2>5
<1>4. CASE ~\E other \in kept : other.key = s[x].key /\ other # s[x]
  <2>1. ASSUME NEW n \in U, s[n].key = s[x].key PROVE s[x] \in kept
    <3>1. PICK m \in Firsts(s, U) : s[m].key = s[n].key
      BY FirstOfEachKey
    <3>2. s[m] \in kept /\ s[m].key = s[x].key
      BY <2>1, <3>1
    <3>3. QED
      BY <1>4, <3>2
  <2>2. {s[n] : n \in Firsts(s, T)} = kept \cup {s[x]}
    <3>1. CASE x \in Firsts(s, T)
      BY <1>2, <3>1 DEF Firsts
    <3>2. CASE x \notin Firsts(s, T)
      <4>1. PICK n \in T : n < x /\ s[n].key = s[x].key
        BY <3>2 DEF Firsts
      <4>3. n \in U
        BY <4>1
      <4>4. s[x] \in kept
        BY <2>1, <4>1, <4>3
      <4>2. QED
        BY <1>2, <3>2, <4>4 DEF Firsts
    <3>3. QED
      BY <3>1, <3>2
  <2>3. Clash(s, T) = Clash(s, U)
    <3>1. ASSUME NEW n \in U, s[n].key = s[x].key, s[n] # s[x] PROVE Clash(s, U)
      <4>1. PICK m \in Firsts(s, U) : s[x] = s[m]
        BY <2>1, <3>1
      <4>2. QED
        BY <3>1, <4>1 DEF Clash, Firsts
    <3>2. QED
      BY <3>1 DEF Clash
  <2>4. MergeRecord(Merging(s, U), s[x]) = [Merging(s, U) EXCEPT !.records = @ \cup {s[x]}]
    BY <1>4 DEF MergeRecord, Merging
  <2>5. [Merging(s, U) EXCEPT !.records = @ \cup {s[x]}]
            = [conflict |-> Clash(s, U), records |-> kept \cup {s[x]}]
    <3>1. \A c, r, a : [[conflict |-> c, records |-> r] EXCEPT !.records = @ \cup a]
                           = [conflict |-> c, records |-> r \cup a]
      OBVIOUS
    <3> HIDE DEF kept
    <3>2. QED
      BY <3>1, Zenon DEF Merging, kept
  <2>6. Merging(s, T) = [conflict |-> Clash(s, U), records |-> kept \cup {s[x]}]
    <3> HIDE DEF kept, U
    <3>1. QED
      BY <2>2, <2>3, Zenon DEF Merging
  <2>7. QED
    BY <2>4, <2>5, <2>6
<1>5. QED
  BY <1>3, <1>4

LEMMA MergedInOrder ==
    ASSUME NEW E, NEW s \in Seq(E)
    PROVE  FoldLeft(MergeRecord, [conflict |-> FALSE, records |-> {}], s)
               = Merging(s, 1 .. Len(s))
<1> DEFINE S == DOMAIN s
           base == [conflict |-> FALSE, records |-> {}]
           Body(iter) == [T \in SUBSET S |->
                             IF T = {} THEN base
                             ELSE LET x == Max(T)
                                  IN  MergeRecord(iter[T \ {x}], s[x])]
           chosen == CHOOSE iter : iter = Body(iter)
           closed == [T \in SUBSET S |-> Merging(s, T)]
           pick == [T \in SUBSET S |-> Max(T)]
<1>1. FoldLeft(MergeRecord, base, s) = chosen[S]
  BY DEF FoldLeft, MapThenFoldSet
<1>2. S = 1 .. Len(s) /\ Len(s) \in Nat /\ S \in SUBSET (0 .. Len(s)) /\ IsFiniteSet(S)
  BY FS_Interval
<1>3. Merging(s, {}) = base
  BY DEF Merging, Clash, Firsts
<1>4. ASSUME NEW T \in SUBSET S, T # {}
      PROVE  /\ Max(T) \in T /\ T \ {Max(T)} \in SUBSET S
             /\ Merging(s, T) = MergeRecord(Merging(s, T \ {Max(T)}), s[Max(T)])
  <2>1. Max(T) \in T /\ \A y \in T : y <= Max(T)
    BY <1>2, <1>4, MaxIsLargest
  <2>2. T \in SUBSET Nat
    BY <1>2
  <2> HIDE DEF S
  <2>3. QED
    BY <2>1, <2>2, MergingOneMore
<1> HIDE DEF base, S
<1>5. closed = Body(closed)
  BY <1>3, <1>4
<1>6. chosen = Body(chosen)
  <2> HIDE DEF Body, closed
  <2>1. QED
    BY <1>5
<1> HIDE DEF chosen
<1>7. chosen[{}] = closed[{}]
  BY <1>3, <1>6
<1>8. ASSUME NEW T \in SUBSET S, T # {}
      PROVE  /\ pick[T] \in T
             /\ chosen[T \ {pick[T]}] = closed[T \ {pick[T]}] => chosen[T] = closed[T]
  <2>1. pick[T] = Max(T)
    OBVIOUS
  <2>2. chosen[T] = MergeRecord(chosen[T \ {Max(T)}], s[Max(T)])
    BY <1>6, <1>8
  <2>3. closed[T] = MergeRecord(closed[T \ {Max(T)}], s[Max(T)])
    BY <1>4, <1>8
  <2>4. QED
    BY <1>4, <1>8, <2>1, <2>2, <2>3
<1> HIDE DEF closed, pick
<1>9. \A T \in SUBSET S : chosen[T] = closed[T]
  <2>1. IsFiniteSet(S)
    BY <1>2
  <2>2. AgreeStepwise(S, chosen, closed, pick)
    BY <1>7, <1>8 DEF AgreeStepwise
  <2> HIDE DEF Body
  <2>3. QED
    BY <2>1, <2>2, FoldsAgree
<1>10. QED
  BY <1>1, <1>2, <1>9 DEF closed, base


\* What the fold amounts to.
LEMMA MergedElements ==
    ASSUME NEW E, NEW s \in Seq(E)
    PROVE  LET merged == FoldLeft(MergeRecord, [conflict |-> FALSE, records |-> {}], s)
           IN  /\ merged.conflict <=> ~OneEach(Elements(s))
               /\ OneEach(Elements(s)) => merged.records = Elements(s)
<1> DEFINE T == 1 .. Len(s)
           merged == FoldLeft(MergeRecord, [conflict |-> FALSE, records |-> {}], s)
<1>1. /\ merged.conflict = Clash(s, T)
      /\ merged.records = {s[n] : n \in Firsts(s, T)}
  <2>1. merged = Merging(s, T)
    BY MergedInOrder
  <2>2. \A c, r : [conflict |-> c, records |-> r].conflict = c
                  /\ [conflict |-> c, records |-> r].records = r
    OBVIOUS
  <2> HIDE DEF T, merged
  <2>3. QED
    BY <2>1, <2>2, Zenon DEF Merging
<1>2. Clash(s, T) <=> ~OneEach(Elements(s))
  BY DEF Clash, OneEach, Elements
<1>3. ASSUME OneEach(Elements(s)) PROVE merged.records = Elements(s)
  <2>1. ASSUME NEW n \in T PROVE \E m \in Firsts(s, T) : s[m] = s[n]
    <3>1. T \in SUBSET Nat
      OBVIOUS
    <3>2. PICK m \in Firsts(s, T) : s[m].key = s[n].key
      BY <3>1, FirstOfEachKey
    <3>3. QED
      BY <1>3, <3>2 DEF Firsts, OneEach, Elements
  <2>2. Firsts(s, T) \subseteq T /\ Elements(s) = {s[n] : n \in T}
    BY DEF Firsts, Elements
  <2> HIDE DEF T, merged
  <2>3. QED
    BY <1>1, <2>1, <2>2
<1>4. QED
  BY <1>1, <1>2, <1>3

\* What the documents say of a kind, and what the profile makes of it.
Said(kind, d) == UNION {ToSet(d[i][kind]) : i \in DOMAIN d}
Taken(kind, p, r) == IF kind = "evidence" THEN NormalizeFreshness(r, p) ELSE r
Facts(kind, p, d) == {Taken(kind, p, r) : r \in Said(kind, d)}
FactsOfAll(p, d) == [kind \in Kinds |-> Facts(kind, p, d)]

Listed(d) ==
    /\ d \in Seq(ToSet(d))
    /\ \A document \in ToSet(d) : WellFormed(document)

LEMMA ElementsAreToSet ==
    ASSUME NEW E, NEW s \in Seq(E)
    PROVE  Elements(s) = ToSet(s)
BY DEF Elements, ToSet

LEMMA RecordsAreFacts ==
    ASSUME NEW d, Listed(d), NEW p, NEW kind \in Kinds
    PROVE  /\ RecordsOf(kind, p, d) \in Seq(Facts(kind, p, d))
           /\ Elements(RecordsOf(kind, p, d)) = Facts(kind, p, d)
<1> DEFINE E == Said(kind, d)
           parts == [i \in DOMAIN d |-> d[i][kind]]
           raw == FlattenSeq(parts)
<1>1. d \in Seq(ToSet(d)) /\ DOMAIN d = 1 .. Len(d) /\ Len(d) \in Nat
  BY DEF Listed
<1>2. ASSUME NEW i \in DOMAIN d
      PROVE  /\ d[i][kind] \in Seq(ToSet(d[i][kind]))
             /\ Elements(d[i][kind]) = ToSet(d[i][kind])
             /\ d[i][kind] \in Seq(E)
  <2>1. d[i][kind] \in Seq(ToSet(d[i][kind]))
    BY DEF Listed, WellFormed, ToSet
  <2>2. ToSet(d[i][kind]) \subseteq E
    BY DEF Said
  <2>3. d[i][kind] \in Seq(E)
    BY <2>1, <2>2
  <2>4. QED
    BY <2>1, <2>3, ElementsAreToSet
<1>3. parts \in Seq(Seq(E)) /\ Len(parts) = Len(d)
  BY <1>1, <1>2
<1>4. raw \in Seq(E) /\ Elements(raw) = UNION {Elements(parts[n]) : n \in 1 .. Len(parts)}
  <2> HIDE DEF E, parts
  <2>1. QED
    BY <1>3, FlattenProperties
<1>5. Elements(raw) = E
  BY <1>1, <1>2, <1>3, <1>4 DEF Said
<1>6. RecordsOf(kind, p, d) = [i \in DOMAIN raw |-> Taken(kind, p, raw[i])]
  <2>1. RecordsOf(kind, p, d) =
            IF kind = "evidence"
            THEN [i \in DOMAIN raw |-> NormalizeFreshness(raw[i], p)]
            ELSE raw
    BY DEF RecordsOf
  <2> HIDE DEF raw
  <2>2. raw = [i \in DOMAIN raw |-> raw[i]]
    BY <1>4
  <2>3. QED
    BY <2>1, <2>2 DEF Taken
<1> HIDE DEF raw, E
<1>7. DOMAIN raw = 1 .. Len(raw) /\ Len(raw) \in Nat
  BY <1>4
<1>8. \A n \in 1 .. Len(raw) : raw[n] \in E
  BY <1>4
<1>9. \A n \in 1 .. Len(raw) : Taken(kind, p, raw[n]) \in Facts(kind, p, d)
  BY <1>8 DEF E, Facts
<1>10. RecordsOf(kind, p, d) \in Seq(Facts(kind, p, d))
       /\ Len(RecordsOf(kind, p, d)) = Len(raw)
  BY <1>6, <1>7, <1>9
<1>11. Elements(RecordsOf(kind, p, d)) = {Taken(kind, p, raw[n]) : n \in 1 .. Len(raw)}
  BY <1>6, <1>7, <1>10 DEF Elements
<1>12. {Taken(kind, p, raw[n]) : n \in 1 .. Len(raw)} = Facts(kind, p, d)
  BY <1>5 DEF E, Facts, Elements
<1>13. QED
  BY <1>10, <1>11, <1>12

LEMMA MergedFacts ==
    ASSUME NEW d, Listed(d), NEW p, NEW kind \in Kinds
    PROVE  /\ Merged(kind, p, d).conflict <=> ~OneEach(Facts(kind, p, d))
           /\ OneEach(Facts(kind, p, d)) =>
                  Merged(kind, p, d).records = Facts(kind, p, d)
<1>1. /\ RecordsOf(kind, p, d) \in Seq(Facts(kind, p, d))
      /\ Elements(RecordsOf(kind, p, d)) = Facts(kind, p, d)
  BY RecordsAreFacts
<1>2. QED
  BY <1>1, MergedElements DEF Merged

\* Compilation without its folds: the sources as sets.
LEMMA CompilableMeans ==
    ASSUME NEW d, Listed(d), NEW p
    PROVE  /\ Compilable(p, d) <=>
                  /\ NothingFromFuture(p, d)
                  /\ \A kind \in Kinds : OneEach(Facts(kind, p, d))
                  /\ ContextRelated(FactsOfAll(p, d), DOMAIN p.budgets)
                  /\ WithinBudgets(FactsOfAll(p, d), p)
           /\ Compilable(p, d) => Corpus(p, d) = FactsOfAll(p, d)
<1>1. (\A kind \in Kinds : ~Merged(kind, p, d).conflict)
          <=> (\A kind \in Kinds : OneEach(Facts(kind, p, d)))
  BY MergedFacts
<1>2. ASSUME \A kind \in Kinds : OneEach(Facts(kind, p, d))
      PROVE  Corpus(p, d) = FactsOfAll(p, d)
  BY <1>2, MergedFacts DEF Corpus, FactsOfAll
<1>3. QED
  BY <1>1, <1>2 DEF Compilable

LEMMA FutureMeans ==
    ASSUME NEW d, Listed(d), NEW p
    PROVE  NothingFromFuture(p, d) <=>
              /\ \A e \in Said("evidence", d) : e.checked <= p.asOf
              /\ \A b \in Said("briefs", d) : b.checked <= p.asOf
BY DEF NothingFromFuture, Said, ToSet

\* The order of the sources makes no difference.
LEMMA ReorderedSaysTheSame ==
    ASSUME NEW d, Listed(d), NEW order \in Orders(DOMAIN d)
    PROVE  LET other == [i \in DOMAIN d |-> d[order[i]]]
           IN  /\ Listed(other)
               /\ \A kind : Said(kind, other) = Said(kind, d)
<1> DEFINE D == DOMAIN d
           other == [i \in D |-> d[order[i]]]
<1>1. order \in [D -> D] /\ \A j \in D : \E i \in D : order[i] = j
  BY DEF Orders
<1>2. D = 1 .. Len(d) /\ Len(d) \in Nat
  BY DEF Listed
<1>3. ToSet(other) = ToSet(d)
  BY <1>1 DEF ToSet
<1>4. other \in Seq(ToSet(d))
  BY <1>1, <1>2 DEF ToSet
<1>5. Listed(other)
  BY <1>3, <1>4 DEF Listed
<1>6. ASSUME NEW kind PROVE Said(kind, other) = Said(kind, d)
  BY <1>1 DEF Said
<1>7. QED
  BY <1>5, <1>6

LEMMA SameFactsCompile ==
    ASSUME NEW d, Listed(d), NEW other, Listed(other), NEW p,
           \A kind : Said(kind, other) = Said(kind, d)
    PROVE  Compilable(p, d) <=> Compilable(p, other)
<1>1. \A kind : Facts(kind, p, other) = Facts(kind, p, d)
  BY DEF Facts
<1>2. FactsOfAll(p, other) = FactsOfAll(p, d)
  BY <1>1 DEF FactsOfAll
<1>3. NothingFromFuture(p, d) <=> NothingFromFuture(p, other)
  BY FutureMeans
<1>4. QED
  BY <1>1, <1>2, <1>3, CompilableMeans


-----------------------------------------------------------------------------
(* What a snapshot holds at any review time.                               *)

LEMMA CompiledSemantic ==
    ASSUME NEW p, NEW d, NEW previous
    PROVE  Compile(p, d, previous).semantic = Semantic(p, d)
<1> DEFINE same == {s \in previous : s.semantic = Semantic(p, d)}
<1>1. CASE same # {}
  <2>1. Compile(p, d, previous) = CHOOSE s \in same : TRUE
    BY <1>1 DEF Compile
  <2>2. Compile(p, d, previous) \in same
    BY <1>1, <2>1
  <2>3. QED
    BY <2>2
<1>2. CASE same = {}
  <2>1. Compile(p, d, previous) =
            [semantic |-> Semantic(p, d), diff |-> SemanticDiff(previous, Semantic(p, d))]
    BY <1>2 DEF Compile
  <2>2. QED
    BY <2>1
<1>3. QED
  BY <1>1, <1>2

IsProfile(p) ==
    p \in [asOf : Int, maxAge : Int, visible : {p.visible}, budgets : {p.budgets}]

\* A snapshot is what its profile makes of the documents at the review time.
ReviewInv ==
    /\ Listed(documents)
    /\ IsProfile(profile)
    /\ \A s \in snapshot :
          Compilable(profile, documents) /\ s.semantic = Semantic(profile, documents)

LEMMA CompiledSnapshots ==
    ASSUME NEW p, NEW d, NEW previous, NEW s \in Compiled(p, d, previous)
    PROVE  Compilable(p, d) /\ s.semantic = Semantic(p, d)
BY CompiledSemantic DEF Compiled

THEOREM ReviewInvariant == Spec => []ReviewInv
<1>1. Init => ReviewInv
  BY SourcesAssumption, CompiledSnapshots DEF Init, ReviewInv, Listed, IsProfile
<1>2. ReviewInv /\ [Next]_vars => ReviewInv'
  <2>1. SUFFICES ASSUME ReviewInv, [Next]_vars PROVE ReviewInv'
    OBVIOUS
  <2>2. CASE UNCHANGED vars
    BY <2>1, <2>2 DEF ReviewInv, vars
  <2>3. CASE Review
    <3>1. IsProfile(profile')
      BY <2>1, <2>3 DEF ReviewInv, Review, IsProfile
    <3>2. documents' = documents
          /\ snapshot' = Compiled(profile', documents, snapshot)
      BY <2>3 DEF Review
    <3>3. QED
      BY <2>1, <3>1, <3>2, CompiledSnapshots DEF ReviewInv
  <2>4. QED
    BY <2>1, <2>2, <2>3 DEF Next
<1>3. QED
  BY <1>1, <1>2, PTL DEF Spec

\* What the semantic part of a compilable profile's snapshot is.
LEMMA SemanticIsFacts ==
    ASSUME NEW p, NEW d, Listed(d), Compilable(p, d)
    PROVE  /\ Semantic(p, d).profile = p
           /\ Semantic(p, d).corpus = FactsOfAll(p, d)
           /\ Semantic(p, d).memberships =
                  MembershipMap(FactsOfAll(p, d), DOMAIN p.budgets)
<1>1. Corpus(p, d) = FactsOfAll(p, d)
  BY CompilableMeans
<1>2. QED
  BY <1>1 DEF Semantic

\* Nothing a source says is lost: the dictionaries of compile_profile hold, when
\* no conflict was raised, every record of every source, whatever their number
\* and order.
THEOREM NothingIsDropped == Spec => []NothingDropped
<1>1. ReviewInv => NothingDropped
  <2>1. SUFFICES ASSUME ReviewInv, NEW s \in snapshot, NEW kind \in Kinds
                 PROVE  s.semantic.corpus[kind] =
                          UNION {ToSet(RecordsOf(kind, profile, <<documents[i]>>)) :
                                     i \in DOMAIN documents}
    BY DEF NothingDropped
  <2>2. Listed(documents)
    BY <2>1 DEF ReviewInv
  <2>3. s.semantic.corpus[kind] = Facts(kind, profile, documents)
    <3>1. Compilable(profile, documents) /\ s.semantic = Semantic(profile, documents)
      BY <2>1 DEF ReviewInv
    <3>2. s.semantic.corpus = FactsOfAll(profile, documents)
      BY <2>2, <3>1, SemanticIsFacts
    <3>3. QED
      BY <3>2 DEF FactsOfAll
  <2>4. ASSUME NEW i \in DOMAIN documents
        PROVE  ToSet(RecordsOf(kind, profile, <<documents[i]>>)) =
                   {Taken(kind, profile, r) : r \in ToSet(documents[i][kind])}
    <3> DEFINE one == <<documents[i]>>
    <3>1. WellFormed(documents[i])
      BY <2>2 DEF Listed, ToSet
    <3>2. one \in Seq(ToSet(one)) /\ ToSet(one) = {documents[i]}
      BY DEF ToSet
    <3>3. Listed(one)
      BY <3>1, <3>2 DEF Listed
    <3>4. Said(kind, one) = ToSet(documents[i][kind])
      BY DEF Said
    <3> HIDE DEF one
    <3>5. /\ RecordsOf(kind, profile, one) \in Seq(Facts(kind, profile, one))
          /\ Elements(RecordsOf(kind, profile, one)) = Facts(kind, profile, one)
      BY <3>3, RecordsAreFacts
    <3>6. ToSet(RecordsOf(kind, profile, one)) = Facts(kind, profile, one)
      BY <3>5, ElementsAreToSet
    <3>7. QED
      BY <3>4, <3>6 DEF Facts, one
  <2>5. Facts(kind, profile, documents) =
            UNION {{Taken(kind, profile, r) : r \in ToSet(documents[i][kind])} :
                       i \in DOMAIN documents}
    BY DEF Facts, Said
  <2>6. QED
    BY <2>3, <2>4, <2>5
<1>2. QED
  BY <1>1, ReviewInvariant, PTL

\* Whether a profile compiles does not depend on the order in which it lists its
\* sources, whatever they say.
THEOREM OrderNeverMatters == Spec => []OrderIrrelevant
<1>1. ReviewInv => OrderIrrelevant
  <2>1. SUFFICES ASSUME ReviewInv, NEW order \in Orders(DOMAIN documents)
                 PROVE  Compilable(profile, documents) <=>
                          Compilable(profile,
                                     [i \in DOMAIN documents |-> documents[order[i]]])
    BY DEF OrderIrrelevant
  <2> DEFINE other == [i \in DOMAIN documents |-> documents[order[i]]]
  <2>2. Listed(documents)
    BY <2>1 DEF ReviewInv
  <2>3. Listed(other) /\ \A kind : Said(kind, other) = Said(kind, documents)
    BY <2>2, ReorderedSaysTheSame
  <2> HIDE DEF other
  <2>4. Compilable(profile, documents) <=> Compilable(profile, other)
    BY <2>2, <2>3, SameFactsCompile
  <2>5. QED
    BY <2>4 DEF other
<1>2. QED
  BY <1>1, ReviewInvariant, PTL


-----------------------------------------------------------------------------
(* What can be published.                                                  *)

LEMMA KeysCount ==
    ASSUME NEW S, IsFiniteSet(S), OneEach(S)
    PROVE  Cardinality(Keys(S)) = Cardinality(S)
<1> DEFINE f == [r \in S |-> r.key]
<1>1. f \in Surjection(S, Keys(S))
  BY DEF Surjection, Keys
<1>2. f \in Injection(S, Keys(S))
  BY DEF Injection, IsInjective, OneEach, Keys
<1>3. QED
  BY <1>1, <1>2, FS_Surjection, Zenon

LEMMA FactsAreFinite ==
    ASSUME NEW d, Listed(d), NEW p, NEW kind \in Kinds
    PROVE  IsFiniteSet(Facts(kind, p, d))
<1> DEFINE s == RecordsOf(kind, p, d)
<1>1. s \in Seq(Facts(kind, p, d)) /\ Elements(s) = Facts(kind, p, d)
  BY RecordsAreFacts
<1> HIDE DEF s
<1>2. Len(s) \in Nat /\ IsFiniteSet(1 .. Len(s))
  BY <1>1, FS_Interval
<1>3. [n \in 1 .. Len(s) |-> s[n]] \in Surjection(1 .. Len(s), Elements(s))
  BY DEF Surjection, Elements
<1>4. QED
  BY <1>1, <1>2, <1>3, FS_Surjection

\* What is known of a published snapshot.
Published(s) ==
    LET corpus == s.semantic.corpus
    IN  /\ \A kind \in Kinds : IsFiniteSet(corpus[kind]) /\ OneEach(corpus[kind])
        /\ ContextRelated(corpus, DOMAIN s.semantic.profile.budgets)
        /\ s.semantic.memberships =
               MembershipMap(corpus, DOMAIN s.semantic.profile.budgets)
        /\ \A screening \in corpus.screenings : IsFiniteSet(screening.domains)
        /\ \A brief \in corpus.briefs : Cardinality(brief.candidates) \in 3 .. 5

LEMMA SnapshotsArePublished ==
    ASSUME ReviewInv, NEW s \in snapshot
    PROVE  Published(s)
<1> DEFINE corpus == FactsOfAll(profile, documents)
<1>1. /\ Listed(documents) /\ Compilable(profile, documents)
      /\ s.semantic = Semantic(profile, documents)
  BY DEF ReviewInv
<1>2. /\ s.semantic.profile = profile
      /\ s.semantic.corpus = corpus
      /\ s.semantic.memberships = MembershipMap(corpus, DOMAIN profile.budgets)
  BY <1>1, SemanticIsFacts
<1>3. ASSUME NEW kind \in Kinds
      PROVE  /\ corpus[kind] = Facts(kind, profile, documents)
             /\ IsFiniteSet(corpus[kind]) /\ OneEach(corpus[kind])
  <2>1. corpus[kind] = Facts(kind, profile, documents)
    BY DEF FactsOfAll
  <2>2. QED
    BY <1>1, <2>1, CompilableMeans, FactsAreFinite
<1>4. ContextRelated(corpus, DOMAIN profile.budgets)
  BY <1>1, CompilableMeans
<1>5. ASSUME NEW kind \in Kinds \ {"evidence"}, NEW r \in corpus[kind]
      PROVE  \E i \in DOMAIN documents :
                WellFormed(documents[i]) /\ r \in ToSet(documents[i][kind])
  <2>1. r \in Said(kind, documents)
    BY <1>3, <1>5 DEF Facts, Taken
  <2>2. QED
    BY <1>1, <2>1 DEF Said, Listed, ToSet
<1>6. corpus.screenings = corpus["screenings"] /\ corpus.briefs = corpus["briefs"]
      /\ {"screenings", "briefs"} \subseteq Kinds \ {"evidence"}
  BY DEF Kinds
<1>7. \A screening \in corpus.screenings : IsFiniteSet(screening.domains)
  BY <1>5, <1>6 DEF WellFormed
<1>8. \A brief \in corpus.briefs : Cardinality(brief.candidates) \in 3 .. 5
  BY <1>5, <1>6 DEF WellFormed
<1> HIDE DEF corpus
<1>9. QED
  BY <1>2, <1>3, <1>4, <1>7, <1>8 DEF Published

\* The public records and problems carry the names they are made from.
LEMMA ExportedNames ==
    ASSUME NEW s
    PROVE  LET corpus == s.semantic.corpus
               export == Export(s)
           IN  /\ {record.repository : record \in export.records} = Keys(corpus.evidence)
               /\ \A record \in export.records :
                     record.state = "assessed" <=> record.repository \in AssessedIn(corpus)
               /\ Keys(export.problems) = Keys(corpus.problems)
               /\ export.assessments = Keys(corpus.assessments)
<1> DEFINE corpus == s.semantic.corpus
           visible == s.semantic.profile.visible
           export == Export(s)
<1>1. /\ export.records = {PublicRecord(r, corpus, visible) : r \in Keys(corpus.evidence)}
      /\ export.problems = {PublicProblem(problem, visible) : problem \in corpus.problems}
      /\ export.assessments = Keys(corpus.assessments)
  BY DEF Export
<1>2. \A r : /\ PublicRecord(r, corpus, visible).repository = r
             /\ PublicRecord(r, corpus, visible).state = "assessed"
                    <=> r \in AssessedIn(corpus)
  BY DEF PublicRecord
<1>3. \A problem : PublicProblem(problem, visible).key = problem.key
  BY DEF PublicProblem
<1> HIDE DEF corpus, visible, export
<1>4. {record.repository : record \in export.records} = Keys(corpus.evidence)
  BY <1>1, <1>2
<1>5. \A record \in export.records :
          record.state = "assessed" <=> record.repository \in AssessedIn(corpus)
  BY <1>1, <1>2
<1>6. Keys(export.problems) = Keys(corpus.problems)
  BY <1>1, <1>3 DEF Keys
<1>7. QED
  BY <1>1, <1>4, <1>5, <1>6 DEF corpus, export

\* Whatever compile_profile accepts passes the validation of every reader of the
\* store and the rules of the export model.
THEOREM CompiledCanBePublished == Spec => []CompiledIsPublishable
<1>1. ReviewInv => CompiledIsPublishable
  <2>1. SUFFICES ASSUME ReviewInv, NEW s \in snapshot
                 PROVE  ValidSnapshot(s) /\ Coherent(Export(s))
    BY DEF CompiledIsPublishable
  <2>2. Published(s)
    BY <2>1, SnapshotsArePublished
  <2> DEFINE corpus == s.semantic.corpus
             slugs == DOMAIN s.semantic.profile.budgets
             export == Export(s)
             repositories == {record.repository : record \in export.records}
  <2>3. ContextRelated(corpus, slugs)
    BY <2>2 DEF Published
  <2>4. ValidSnapshot(s)
    BY <2>2, KeysCount DEF ValidSnapshot, Published
  <2>5. /\ repositories = Keys(corpus.evidence)
        /\ \A record \in export.records :
              record.state = "assessed" <=> record.repository \in AssessedIn(corpus)
        /\ Keys(export.problems) = Keys(corpus.problems)
        /\ export.assessments = Keys(corpus.assessments)
    BY ExportedNames
  <2>6. export.briefs =
            {[key |-> b.key, candidates |-> b.candidates] : b \in corpus.briefs}
    BY DEF Export
  <2>7. /\ \A brief \in export.briefs : \E b \in corpus.briefs :
              brief.key = b.key /\ brief.candidates = b.candidates
    BY <2>6
  <2> HIDE DEF corpus, slugs, export
  <2>8. \A relation \in export.assessments :
            relation[1] \in Keys(export.problems) /\ relation[2] \in repositories
    BY <2>3, <2>5 DEF ContextRelated, AssessmentsResolve, Keys
  <2>9. ASSUME NEW brief \in export.briefs
        PROVE  /\ brief.key \in Keys(export.problems)
               /\ Cardinality(brief.candidates) \in 3 .. 5
               /\ \A repository \in brief.candidates :
                     <<brief.key, repository>> \in export.assessments
    <3>1. PICK b \in corpus.briefs : brief.key = b.key /\ brief.candidates = b.candidates
      BY <2>7
    <3>2. Cardinality(b.candidates) \in 3 .. 5
      BY <2>2 DEF Published, corpus
    <3>3. /\ b.key \in Keys(corpus.problems)
          /\ \A repository \in b.candidates :
                <<b.key, repository>> \in Keys(corpus.assessments)
      BY <2>3 DEF ContextRelated, BriefsResolve, Keys
    <3>4. QED
      BY <2>5, <3>1, <3>2, <3>3
  <2>10. \A record \in export.records :
            record.state = "assessed" <=>
                \E relation \in export.assessments : relation[2] = record.repository
    BY <2>5 DEF AssessedIn, Keys
  <2>11. Coherent(export)
    BY <2>8, <2>9, <2>10 DEF Coherent
  <2>12. QED
    BY <2>4, <2>11 DEF export
<1>2. QED
  BY <1>1, ReviewInvariant, PTL


-----------------------------------------------------------------------------
(* What is withheld.                                                       *)

\* The tags of a set of screenings that satisfy a choice of collections.
Tags(T, chosen) ==
    UNION {{<<screening.key, slug>> : slug \in screening.domains \cap chosen} :
               screening \in T}
TagsWithout(T, visible) ==
    UNION {{<<screening.key, slug>> : slug \in screening.domains \ visible} :
               screening \in T}

\* The collections of one screening, paired with its key, are as many.
LEMMA PairsCount ==
    ASSUME NEW S, IsFiniteSet(S), NEW key
    PROVE  /\ IsFiniteSet({<<key, slug>> : slug \in S})
           /\ Cardinality({<<key, slug>> : slug \in S}) = Cardinality(S)
<1> DEFINE P == {<<key, slug>> : slug \in S}
           f == [slug \in S |-> <<key, slug>>]
<1>1. f \in Surjection(S, P)
  BY DEF Surjection
<1>2. f \in Injection(S, P)
  BY DEF Injection, IsInjective
<1> HIDE DEF P, f
<1>3. QED
  BY <1>1, <1>2, FS_Surjection DEF P

LEMMA FiniteTags ==
    ASSUME NEW T, IsFiniteSet(T), \A screening \in T : IsFiniteSet(screening.domains),
           NEW visible
    PROVE  /\ IsFiniteSet(TagsWithout(T, visible))
           /\ IsFiniteSet(Tags(T, visible))
<1> DEFINE Out(screening) == {<<screening.key, slug>> : slug \in screening.domains \ visible}
           In(screening) == {<<screening.key, slug>> : slug \in screening.domains \cap visible}
           outs == {Out(screening) : screening \in T}
           ins == {In(screening) : screening \in T}
<1>1. ASSUME NEW screening \in T
      PROVE  IsFiniteSet(Out(screening)) /\ IsFiniteSet(In(screening))
  <2>1. /\ IsFiniteSet(screening.domains \ visible)
        /\ IsFiniteSet(screening.domains \cap visible)
    BY FS_Subset
  <2>2. QED
    BY <2>1, PairsCount
<1>2. IsFiniteSet(outs) /\ IsFiniteSet(ins)
  <2>1. [x \in T |-> Out(x)] \in Surjection(T, outs)
    BY DEF Surjection
  <2>2. [x \in T |-> In(x)] \in Surjection(T, ins)
    BY DEF Surjection
  <2> HIDE DEF outs, ins, Out, In
  <2>3. QED
    BY <2>1, <2>2, FS_Surjection
<1>3. (\A U \in outs : IsFiniteSet(U)) /\ (\A U \in ins : IsFiniteSet(U))
  BY <1>1
<1>4. TagsWithout(T, visible) = UNION outs /\ Tags(T, visible) = UNION ins
  BY DEF TagsWithout, Tags
<1> HIDE DEF outs, ins
<1>5. QED
  BY <1>2, <1>3, <1>4, FS_UNION

LEMMA OneMoreScreening ==
    ASSUME NEW T, IsFiniteSet(T), OneEach(T), NEW x \in T, NEW visible,
           \A screening \in T : IsFiniteSet(screening.domains)
    PROVE  Cardinality(TagsWithout(T, visible)) =
               Cardinality(TagsWithout(T \ {x}, visible))
               + Cardinality(x.domains \ visible)
<1> DEFINE others == TagsWithout(T \ {x}, visible)
           own == {<<x.key, slug>> : slug \in x.domains \ visible}
<1>1. TagsWithout(T, visible) = others \cup own
  BY DEF TagsWithout
<1>2. others \cap own = {}
  BY DEF TagsWithout, OneEach
<1>3. IsFiniteSet(others)
  BY FiniteTags, FS_RemoveElement
<1>4. IsFiniteSet(own) /\ Cardinality(own) = Cardinality(x.domains \ visible)
  <2>1. IsFiniteSet(x.domains \ visible)
    BY FS_Subset
  <2>2. QED
    BY <2>1, PairsCount
<1> HIDE DEF others, own
<1>5. Cardinality(others \cup own) = Cardinality(others) + Cardinality(own)
  <2>1. Cardinality(others \cap own) = 0
    BY <1>2, FS_EmptySet
  <2>2. Cardinality(others) \in Nat /\ Cardinality(own) \in Nat
    BY <1>3, <1>4, FS_CardinalityType
  <2>3. Cardinality(others \cup own) =
            Cardinality(others) + Cardinality(own) - Cardinality(others \cap own)
    BY <1>3, <1>4, FS_Union
  <2>4. QED
    BY <2>1, <2>2, <2>3
<1>6. QED
  BY <1>1, <1>4, <1>5 DEF others

\* The sum over the screenings counts the tags that are missing.
LEMMA WithheldCounts ==
    ASSUME NEW corpus, NEW visible, IsFiniteSet(corpus.screenings),
           OneEach(corpus.screenings),
           \A screening \in corpus.screenings : IsFiniteSet(screening.domains)
    PROVE  Withheld(corpus, visible) =
               Cardinality(TagsWithout(corpus.screenings, visible))
<1> DEFINE S == corpus.screenings
           Body(iter) ==
              [T \in SUBSET S |->
                 IF T = {} THEN 0
                 ELSE LET x == CHOOSE x \in T : TRUE
                      IN  iter[T \ {x}] + Cardinality(x.domains \ visible)]
           fold == CHOOSE iter : iter = Body(iter)
           closed == [T \in SUBSET S |-> Cardinality(TagsWithout(T, visible))]
           pick == [T \in SUBSET S |-> CHOOSE x \in T : TRUE]
<1>1. Withheld(corpus, visible) = fold[S]
  BY DEF Withheld, FoldSet, MapThenFoldSet
<1> HIDE DEF S
<1>2. Cardinality(TagsWithout({}, visible)) = 0
  <2>1. TagsWithout({}, visible) = {}
    BY DEF TagsWithout
  <2>2. QED
    BY <2>1, FS_EmptySet
<1>3. ASSUME NEW T \in SUBSET S, T # {}
      PROVE  /\ pick[T] \in T /\ pick[T] = CHOOSE x \in T : TRUE
             /\ T \ {pick[T]} \in SUBSET S
             /\ Cardinality(TagsWithout(T, visible)) =
                   Cardinality(TagsWithout(T \ {pick[T]}, visible))
                   + Cardinality(pick[T].domains \ visible)
  <2>1. pick[T] = CHOOSE x \in T : TRUE
    OBVIOUS
  <2>2. pick[T] \in T
    BY <1>3, <2>1
  <2>3. IsFiniteSet(T) /\ OneEach(T)
        /\ \A screening \in T : IsFiniteSet(screening.domains)
    BY FS_Subset DEF S, OneEach
  <2> HIDE DEF pick
  <2>4. PICK x \in T : x = pick[T]
    BY <2>2
  <2>5. Cardinality(TagsWithout(T, visible)) =
            Cardinality(TagsWithout(T \ {x}, visible)) + Cardinality(x.domains \ visible)
    BY <2>3, OneMoreScreening
  <2>6. QED
    BY <2>1, <2>4, <2>5
<1>4. closed = Body(closed)
  BY <1>2, <1>3
<1>5. fold = Body(fold)
  <2> HIDE DEF Body, closed
  <2>1. QED
    BY <1>4
<1> HIDE DEF fold
<1>6. fold[{}] = closed[{}]
  BY <1>2, <1>5
<1>7. ASSUME NEW T \in SUBSET S, T # {}
      PROVE  /\ pick[T] \in T
             /\ fold[T \ {pick[T]}] = closed[T \ {pick[T]}] => fold[T] = closed[T]
  <2>1. fold[T] = fold[T \ {pick[T]}] + Cardinality(pick[T].domains \ visible)
    BY <1>3, <1>5, <1>7
  <2>2. closed[T] = closed[T \ {pick[T]}] + Cardinality(pick[T].domains \ visible)
    BY <1>3, <1>7
  <2>3. QED
    BY <1>3, <1>7, <2>1, <2>2
<1>8. AgreeStepwise(S, fold, closed, pick)
  BY <1>6, <1>7 DEF AgreeStepwise
<1> HIDE DEF closed, pick, Body
<1>9. fold[S] = closed[S]
  BY <1>8, FoldsAgree DEF S
<1>10. QED
  BY <1>1, <1>9 DEF closed, S

\* What the records show of the screenings, and what they withhold.
LEMMA ShownAndWithheld ==
    ASSUME NEW s, Published(s)
    PROVE  LET corpus == s.semantic.corpus
               visible == s.semantic.profile.visible
               export == Export(s)
           IN  export.withheld =
                   Cardinality(UNION {{<<screening.key, slug>> : slug \in screening.domains} :
                                          screening \in corpus.screenings})
                   - Cardinality(UNION {{<<record.repository, slug>> :
                                            slug \in record.collections} :
                                                record \in export.records})
<1> DEFINE corpus == s.semantic.corpus
           visible == s.semantic.profile.visible
           S == corpus.screenings
           all == UNION {{<<screening.key, slug>> : slug \in screening.domains} :
                             screening \in S}
           records == {PublicRecord(r, corpus, visible) : r \in Keys(corpus.evidence)}
           shown == UNION {{<<record.repository, slug>> : slug \in record.collections} :
                               record \in records}
<1>1. Export(s).withheld = Withheld(corpus, visible) /\ Export(s).records = records
  BY DEF Export
<1>2. /\ IsFiniteSet(S) /\ OneEach(S)
      /\ \A screening \in S : IsFiniteSet(screening.domains)
      /\ Keys(S) = Keys(corpus.evidence)
  BY DEF Published, ContextRelated, ScopesAgree, Kinds
<1>3. ASSUME NEW screening \in S
      PROVE  Find(S, screening.key) = screening
  BY <1>2 DEF Find, OneEach
<1>4. \A r : /\ PublicRecord(r, corpus, visible).repository = r
             /\ PublicRecord(r, corpus, visible).collections = Find(S, r).domains \cap visible
  BY DEF PublicRecord
<1> HIDE DEF S, corpus, visible
<1>5. shown = Tags(S, visible)
  <2>1. shown = UNION {{<<r, slug>> : slug \in Find(S, r).domains \cap visible} :
                           r \in Keys(S)}
    BY <1>2, <1>4
  <2>2. UNION {{<<r, slug>> : slug \in Find(S, r).domains \cap visible} : r \in Keys(S)}
            = Tags(S, visible)
    BY <1>3 DEF Tags, Keys
  <2>3. QED
    BY <2>1, <2>2
<1>6. all = Tags(S, visible) \cup TagsWithout(S, visible)
  BY DEF Tags, TagsWithout
<1>7. Tags(S, visible) \cap TagsWithout(S, visible) = {}
  <2>1. ASSUME NEW pair \in Tags(S, visible), pair \in TagsWithout(S, visible)
        PROVE  FALSE
    <3>1. pair[2] \in visible
      BY DEF Tags
    <3>2. pair[2] \notin visible
      BY <2>1 DEF TagsWithout
    <3>3. QED
      BY <3>1, <3>2
  <2>2. QED
    BY <2>1
<1>8. IsFiniteSet(Tags(S, visible)) /\ IsFiniteSet(TagsWithout(S, visible))
  BY <1>2, FiniteTags
<1> HIDE DEF all, shown
<1>9. Cardinality(all) = Cardinality(shown) + Cardinality(TagsWithout(S, visible))
  BY <1>5, <1>6, <1>7, <1>8, FS_Union, FS_EmptySet, FS_CardinalityType
<1>10. Withheld(corpus, visible) = Cardinality(TagsWithout(S, visible))
  BY <1>2, WithheldCounts DEF S
<1>11. Cardinality(shown) \in Nat /\ Cardinality(TagsWithout(S, visible)) \in Nat
  BY <1>5, <1>8, FS_CardinalityType
<1>12. QED
  BY <1>1, <1>9, <1>10, <1>11 DEF all, shown, S, corpus, visible


\* The chosen record of a key has the key.
LEMMA FindFinds ==
    ASSUME NEW records, NEW key \in Keys(records)
    PROVE  Find(records, key) \in records /\ Find(records, key).key = key
BY DEF Find, Keys

\* No page is tagged with a hidden collection.
LEMMA PagesHide ==
    ASSUME NEW s, Published(s), NEW path \in DOMAIN RenderFiles(Export(s))
    PROVE  RenderFiles(Export(s))[path].tags \subseteq s.semantic.profile.visible
<1> DEFINE corpus == s.semantic.corpus
           visible == s.semantic.profile.visible
           export == Export(s)
           page == RenderFiles(export)[path]
<1>1. /\ export.records = {PublicRecord(r, corpus, visible) : r \in Keys(corpus.evidence)}
      /\ export.problems = {PublicProblem(problem, visible) : problem \in corpus.problems}
      /\ export.briefs =
            {[key |-> b.key, candidates |-> b.candidates] : b \in corpus.briefs}
  BY DEF Export
<1>2. \A record \in export.records : record.collections \subseteq visible
  BY <1>1 DEF PublicRecord
<1>3. \A problem \in export.problems : problem.domains \subseteq visible
  BY <1>1 DEF PublicProblem
<1>4. AssessmentsResolve(corpus) /\ BriefsResolve(corpus)
  BY DEF Published, ContextRelated
<1>5. ASSUME NEW brief \in export.briefs
      PROVE  /\ brief.key \in Keys(export.problems)
             /\ brief.candidates \subseteq Keys(corpus.evidence)
  <2>1. PICK b \in corpus.briefs : brief.key = b.key /\ brief.candidates = b.candidates
    BY <1>1
  <2>2. b.key \in Keys(corpus.problems)
    BY <1>4 DEF BriefsResolve
  <2>3. ASSUME NEW r \in b.candidates PROVE r \in Keys(corpus.evidence)
    <3>1. PICK assessment \in corpus.assessments : assessment.key = <<b.key, r>>
      BY <1>4 DEF BriefsResolve
    <3>2. QED
      BY <1>4, <3>1 DEF AssessmentsResolve
  <2>4. Keys(export.problems) = Keys(corpus.problems)
    BY ExportedNames
  <2>5. QED
    BY <2>1, <2>2, <2>3, <2>4
<1>6. ASSUME NEW r \in Keys(corpus.evidence)
      PROVE  \E record \in export.records : record.repository = r
  <2>1. PublicRecord(r, corpus, visible).repository = r
    BY DEF PublicRecord
  <2>2. PublicRecord(r, corpus, visible) \in export.records
    BY <1>1
  <2>3. QED
    BY <2>1, <2>2
<1> HIDE DEF export, corpus, visible
<1>7. DOMAIN RenderFiles(export) = FixedFiles \cup {File("index.md")}
                           \cup BriefPaths(export) \cup EvidencePaths(export)
  BY Rendered
<1>8. CASE path \in FixedFiles
  <2>1. page = PlainPage
    BY <1>8, Rendered
  <2>2. QED
    BY <2>1 DEF PlainPage, export, visible
<1>9. CASE path = File("index.md")
  <2>1. page = IndexPage(export)
    BY <1>9, Rendered
  <2>2. IndexPage(export).tags = {}
    BY DEF IndexPage, PlainPage
  <2>3. QED
    BY <2>1, <2>2 DEF export, visible
<1>10. CASE path \in BriefPaths(export)
  <2>1. PICK b \in export.briefs : page = BriefPage(b, export)
    BY <1>10, Rendered
  <2>2. BriefPage(b, export).tags = Find(export.problems, b.key).domains
    BY DEF BriefPage, PlainPage
  <2>3. Find(export.problems, b.key) \in export.problems
    BY <1>5, FindFinds
  <2>4. QED
    BY <1>3, <2>1, <2>2, <2>3 DEF export, visible
<1>11. CASE path \in EvidencePaths(export)
  <2>1. PICK r \in InBriefs(export) : page = EvidencePage(r, export)
    BY <1>11, Rendered
  <2> DEFINE record == CHOOSE x \in export.records : x.repository = r
  <2>2. EvidencePage(r, export).tags = record.collections
    BY DEF EvidencePage
  <2>3. r \in Keys(corpus.evidence)
    BY <1>5 DEF InBriefs
  <2>4. record \in export.records
    BY <1>6, <2>3
  <2> HIDE DEF record
  <2>5. QED
    BY <1>2, <2>1, <2>2, <2>4 DEF export, visible
<1>12. QED
  BY <1>7, <1>8, <1>9, <1>10, <1>11 DEF export

\* A collection that is not visible is named nowhere in a published package, and
\* the package counts exactly the tags it withheld, whatever was compiled.
THEOREM HiddenAlwaysHidden == Spec => []HiddenStaysHidden
<1>1. ReviewInv => HiddenStaysHidden
  <2>1. SUFFICES ASSUME ReviewInv, NEW s \in snapshot
                 PROVE  HidesCollections(Package(s), s.semantic.corpus,
                                         s.semantic.profile.visible)
    BY DEF HiddenStaysHidden
  <2> DEFINE corpus == s.semantic.corpus
             visible == s.semantic.profile.visible
  <2>2. Published(s)
    BY <2>1, SnapshotsArePublished
  <2>3. /\ Package(s).export = Export(s)
        /\ Package(s).files = RenderFiles(Export(s))
        /\ Package(s).manifest = DOMAIN RenderFiles(Export(s))
    BY DEF Package
  <2>4. /\ Export(s).records =
              {PublicRecord(r, corpus, visible) : r \in Keys(corpus.evidence)}
        /\ Export(s).problems =
              {PublicProblem(problem, visible) : problem \in corpus.problems}
    BY DEF Export
  <2>5. \A record \in Export(s).records : record.collections \subseteq visible
    BY <2>4 DEF PublicRecord
  <2>6. \A problem \in Export(s).problems : problem.domains \subseteq visible
    BY <2>4 DEF PublicProblem
  <2>7. \A path \in DOMAIN RenderFiles(Export(s)) :
            RenderFiles(Export(s))[path].tags \subseteq visible
    BY <2>2, PagesHide
  <2>8. Export(s).withheld =
            Cardinality(UNION {{<<screening.key, slug>> : slug \in screening.domains} :
                                   screening \in corpus.screenings})
            - Cardinality(UNION {{<<record.repository, slug>> :
                                     slug \in record.collections} :
                                         record \in Export(s).records})
    BY <2>2, ShownAndWithheld
  <2> HIDE DEF corpus, visible
  <2>9. HidesCollections(Package(s), corpus, visible)
    BY <2>3, <2>5, <2>6, <2>7, <2>8 DEF HidesCollections
  <2>10. QED
    BY <2>9 DEF corpus, visible
<1>2. QED
  BY <1>1, ReviewInvariant, PTL


-----------------------------------------------------------------------------
(* Ageing.                                                                 *)

IsEvidence(e) ==
    e \in [key : {e.key}, checked : Int,
           freshness : {"current", "stale", "partial", "blocked"}]

LEMMA SaidEvidence ==
    ASSUME NEW d, Listed(d)
    PROVE  /\ \A e \in Said("evidence", d) : IsEvidence(e)
           /\ \A b \in Said("briefs", d) : b.checked \in Int
<1>1. \A i \in DOMAIN d : WellFormed(d[i])
  BY DEF Listed, ToSet
<1>2. ASSUME NEW e \in Said("evidence", d) PROVE IsEvidence(e)
  BY <1>1 DEF WellFormed, Said, IsEvidence
<1>3. ASSUME NEW b \in Said("briefs", d) PROVE b.checked \in Int
  BY <1>1 DEF WellFormed, Said
<1>4. QED
  BY <1>2, <1>3

\* One day later.
LEMMA NormalizedAgain ==
    ASSUME NEW p, IsProfile(p), NEW q, IsProfile(q), q.asOf = p.asOf + 1,
           q.maxAge = p.maxAge, NEW e, IsEvidence(e)
    PROVE  LET then == NormalizeFreshness(e, p)
               now == NormalizeFreshness(then, q)
           IN  /\ NormalizeFreshness(e, q) = now
               /\ IsEvidence(then) /\ then.key = e.key
               /\ now.key = e.key
               /\ now # then <=> now.freshness = "stale" /\ then.freshness # "stale"
<1> DEFINE stale == [e EXCEPT !.freshness = "stale"]
           then == NormalizeFreshness(e, p)
           now == NormalizeFreshness(then, q)
<1>1. /\ p.asOf \in Int /\ q.asOf \in Int /\ p.maxAge \in Int /\ e.checked \in Int
      /\ e.freshness \in {"current", "stale", "partial", "blocked"}
  BY DEF IsProfile, IsEvidence
<1>2. /\ IsEvidence(stale) /\ stale.key = e.key
      /\ stale.freshness = "stale" /\ stale.checked = e.checked
  BY DEF IsEvidence
<1> HIDE DEF stale
<1>3. CASE e.freshness # "current"
  <2>1. then = e /\ now = e /\ NormalizeFreshness(e, q) = e
    BY <1>3 DEF NormalizeFreshness
  <2>2. QED
    BY <2>1
<1>4. CASE e.freshness = "current" /\ p.asOf - e.checked > p.maxAge
  <2>1. then = stale /\ now = stale
    BY <1>2, <1>4 DEF NormalizeFreshness, stale
  <2>2. NormalizeFreshness(e, q) = stale
    BY <1>1, <1>4 DEF NormalizeFreshness, stale
  <2>3. QED
    BY <1>2, <2>1, <2>2
<1>5. CASE e.freshness = "current" /\ ~(p.asOf - e.checked > p.maxAge)
  <2>1. then = e
    BY <1>5 DEF NormalizeFreshness
  <2>2. now = stale \/ now = e
    BY <2>1 DEF NormalizeFreshness, stale
  <2>3. QED
    BY <1>2, <1>5, <2>1, <2>2
<1>6. QED
  BY <1>3, <1>4, <1>5

\* The profile of the next review time.
LaterThan(q, p) ==
    IsProfile(p) /\ IsProfile(q) /\ q = [p EXCEPT !.asOf = @ + 1]

LEMMA LaterMeans ==
    ASSUME NEW p, NEW q, LaterThan(q, p)
    PROVE  /\ q.asOf = p.asOf + 1 /\ p.asOf \in Int /\ q # p
           /\ q.maxAge = p.maxAge /\ q.budgets = p.budgets
           /\ IsProfile(p) /\ IsProfile(q)
BY DEF LaterThan, IsProfile

\* The facts of the next review time are those of this one, aged.
LEMMA AgedFacts ==
    ASSUME NEW p, NEW q, LaterThan(q, p), NEW d, Listed(d)
    PROVE  /\ \A kind \in Kinds \ {"evidence"} : Facts(kind, q, d) = Facts(kind, p, d)
           /\ Facts("evidence", q, d) =
                 {NormalizeFreshness(e, q) : e \in Facts("evidence", p, d)}
           /\ \A e \in Facts("evidence", p, d) :
                 /\ NormalizeFreshness(e, q).key = e.key
                 /\ NormalizeFreshness(e, q) # e <=>
                        /\ NormalizeFreshness(e, q).freshness = "stale"
                        /\ e.freshness # "stale"
<1>1. \A e \in Said("evidence", d) : IsEvidence(e)
  BY SaidEvidence
<1>2. ASSUME NEW kind \in Kinds \ {"evidence"}
      PROVE  Facts(kind, q, d) = Facts(kind, p, d)
  BY DEF Facts, Taken
<1>3. ASSUME NEW x
      PROVE  Facts("evidence", x, d) = {NormalizeFreshness(e, x) : e \in Said("evidence", d)}
  BY DEF Facts, Taken
<1>4. ASSUME NEW e \in Said("evidence", d)
      PROVE  LET then == NormalizeFreshness(e, p)
                 now == NormalizeFreshness(then, q)
             IN  /\ NormalizeFreshness(e, q) = now
                 /\ now.key = then.key
                 /\ now # then <=> now.freshness = "stale" /\ then.freshness # "stale"
  BY <1>1, LaterMeans, NormalizedAgain
<1>5. Facts("evidence", q, d) =
          {NormalizeFreshness(e, q) : e \in Facts("evidence", p, d)}
  BY <1>3, <1>4
<1>6. ASSUME NEW e \in Facts("evidence", p, d)
      PROVE  /\ NormalizeFreshness(e, q).key = e.key
             /\ NormalizeFreshness(e, q) # e <=>
                    /\ NormalizeFreshness(e, q).freshness = "stale"
                    /\ e.freshness # "stale"
  BY <1>3, <1>4
<1>7. QED
  BY <1>2, <1>5, <1>6

\* What compiles now compiles later.
LEMMA LaterCompiles ==
    ASSUME NEW p, NEW q, LaterThan(q, p), NEW d, Listed(d), Compilable(p, d)
    PROVE  /\ Compilable(q, d)
           /\ Keys(Facts("evidence", q, d)) = Keys(Facts("evidence", p, d))
<1> DEFINE old == FactsOfAll(p, d)
           new == FactsOfAll(q, d)
           slugs == DOMAIN p.budgets
<1>1. /\ NothingFromFuture(p, d)
      /\ \A kind \in Kinds : OneEach(Facts(kind, p, d))
      /\ ContextRelated(old, slugs) /\ WithinBudgets(old, p)
  BY CompilableMeans
<1>2. q.budgets = p.budgets /\ q.asOf = p.asOf + 1 /\ p.asOf \in Int
  BY LaterMeans
<1>3. NothingFromFuture(q, d)
  <2>1. \A e \in Said("evidence", d) : e.checked \in Int
    BY SaidEvidence DEF IsEvidence
  <2>2. \A b \in Said("briefs", d) : b.checked \in Int
    BY SaidEvidence
  <2>3. QED
    BY <1>1, <1>2, <2>1, <2>2, FutureMeans
<1>4. Keys(Facts("evidence", q, d)) = Keys(Facts("evidence", p, d))
  BY AgedFacts DEF Keys
<1>5. "evidence" \in Kinds /\ new.evidence = Facts("evidence", q, d)
      /\ old.evidence = Facts("evidence", p, d)
  BY DEF FactsOfAll, Kinds
<1>6. OneEach(Facts("evidence", q, d))
  <2>1. OneEach(Facts("evidence", p, d))
    BY <1>1, <1>5
  <2>2. QED
    BY <2>1, AgedFacts DEF OneEach
<1>7. \A kind \in Kinds : OneEach(Facts(kind, q, d))
  BY <1>1, <1>6, AgedFacts
<1>8. /\ new.screenings = old.screenings /\ new.projections = old.projections
      /\ new.problems = old.problems /\ new.assessments = old.assessments
      /\ new.briefs = old.briefs
  BY AgedFacts DEF FactsOfAll, Kinds
<1>9. Keys(new.evidence) = Keys(old.evidence)
  BY <1>4, <1>5
<1> HIDE DEF old, new, slugs
<1>10. ContextRelated(new, slugs)
  BY <1>1, <1>8, <1>9 DEF ContextRelated, ScopesAgree, DomainsKnown,
                          AssessmentsResolve, BriefsResolve
<1>11. WithinBudgets(new, q)
  BY <1>1, <1>2, <1>8 DEF WithinBudgets, MembershipMap
<1>12. Compilable(q, d)
  BY <1>2, <1>3, <1>7, <1>10, <1>11, CompilableMeans DEF new, slugs
<1>13. QED
  BY <1>4, <1>12

\* The diff of two evaluations of which the later has only aged.
LEMMA AgedDiff ==
    ASSUME NEW p, NEW q, LaterThan(q, p), NEW d, Listed(d), Compilable(p, d)
    PROVE  LET old == FactsOfAll(p, d)
               new == FactsOfAll(q, d)
               diff == KeyedDiff(RepositorySemantics(old), RepositorySemantics(new))
           IN  /\ diff.added = {} /\ diff.removed = {}
               /\ diff.changed = WithFreshness(new, "stale") \ WithFreshness(old, "stale")
<1> DEFINE old == FactsOfAll(p, d)
           new == FactsOfAll(q, d)
           before == RepositorySemantics(old)
           after == RepositorySemantics(new)
           keys == Keys(old.evidence)
           aged(e) == NormalizeFreshness(e, q)
<1>1. /\ old.evidence = Facts("evidence", p, d) /\ new.evidence = Facts("evidence", q, d)
      /\ new.screenings = old.screenings /\ new.projections = old.projections
      /\ new.problems = old.problems /\ new.assessments = old.assessments
  BY AgedFacts DEF FactsOfAll, Kinds
<1>2. /\ new.evidence = {aged(e) : e \in old.evidence}
      /\ \A e \in old.evidence :
            /\ aged(e).key = e.key
            /\ aged(e) # e <=> aged(e).freshness = "stale" /\ e.freshness # "stale"
  BY <1>1, AgedFacts
<1>3. OneEach(old.evidence) /\ OneEach(new.evidence)
  <2>1. "evidence" \in Kinds
    BY DEF Kinds
  <2>2. Compilable(q, d)
    BY LaterCompiles
  <2>3. QED
    BY <1>1, <2>1, <2>2, CompilableMeans
<1>4. Keys(new.evidence) = keys
  BY <1>1, LaterCompiles
<1> HIDE DEF old, new
<1>5. /\ before = [r \in keys |->
             [evidence |-> Find(old.evidence, r), screening |-> Find(old.screenings, r),
              projection |-> Find(old.projections, r),
              assessments |->
                {[problem |-> Find(old.problems, a.key[1]), assessment |-> a] :
                    a \in {a \in old.assessments : a.key[2] = r}}]]
      /\ after = [r \in keys |->
             [evidence |-> Find(new.evidence, r), screening |-> Find(old.screenings, r),
              projection |-> Find(old.projections, r),
              assessments |->
                {[problem |-> Find(old.problems, a.key[1]), assessment |-> a] :
                    a \in {a \in old.assessments : a.key[2] = r}}]]
  BY <1>1, <1>4 DEF RepositorySemantics
<1>6. ASSUME NEW r \in keys
      PROVE  before[r] # after[r] <=> Find(old.evidence, r) # Find(new.evidence, r)
  <2>1. \A e, f, s, o, a :
           [evidence |-> e, screening |-> s, projection |-> o, assessments |-> a]
              = [evidence |-> f, screening |-> s, projection |-> o, assessments |-> a]
              <=> e = f
    OBVIOUS
  <2> HIDE DEF before, after
  <2>2. QED
    BY <1>5, <2>1
<1>7. DOMAIN before = keys /\ DOMAIN after = keys
  BY <1>5
<1>8. ASSUME NEW r \in keys
      PROVE  Find(old.evidence, r) # Find(new.evidence, r)
                <=> r \in WithFreshness(new, "stale") \ WithFreshness(old, "stale")
  <2>1. PICK e \in old.evidence : e.key = r
    BY DEF Keys
  <2>2. Find(old.evidence, r) = e
    BY <1>3, <2>1 DEF Find, OneEach
  <2>3. aged(e) \in new.evidence /\ aged(e).key = r
    BY <1>2, <2>1
  <2>4. Find(new.evidence, r) = aged(e)
    BY <1>3, <2>3 DEF Find, OneEach
  <2>5. r \in WithFreshness(old, "stale") <=> e.freshness = "stale"
    BY <1>3, <2>1 DEF WithFreshness, OneEach
  <2>6. r \in WithFreshness(new, "stale") <=> aged(e).freshness = "stale"
    BY <1>3, <2>3 DEF WithFreshness, OneEach
  <2>7. aged(e) # e <=> aged(e).freshness = "stale" /\ e.freshness # "stale"
    BY <1>2
  <2>8. QED
    BY <2>2, <2>4, <2>5, <2>6, <2>7
<1>9. WithFreshness(new, "stale") \subseteq keys
  BY <1>4 DEF WithFreshness, Keys
<1> DEFINE diff == KeyedDiff(before, after)
<1> HIDE DEF before, after, keys
<1>10. /\ diff.added = DOMAIN after \ DOMAIN before
       /\ diff.removed = DOMAIN before \ DOMAIN after
       /\ diff.changed = {r \in DOMAIN before \cap DOMAIN after : before[r] # after[r]}
  BY DEF KeyedDiff
<1>11. diff.added = {} /\ diff.removed = {}
  BY <1>7, <1>10
<1>12. diff.changed = WithFreshness(new, "stale") \ WithFreshness(old, "stale")
  BY <1>6, <1>7, <1>8, <1>9, <1>10
<1>13. QED
  BY <1>11, <1>12 DEF diff, before, after, old, new

\* Time alone never makes a profile uncompilable, and the diff of the next
\* snapshot names exactly the repositories whose evidence became stale, for
\* every profile, every set of sources and every number of reviews.
THEOREM AgeingAlwaysReported == Spec => AgeingIsReported
<1> DEFINE Reported ==
        \A s \in snapshot :
            /\ snapshot' # {}
            /\ \A t \in snapshot' :
                LET changes == t.diff.repositories
                IN  /\ changes.added = {} /\ changes.removed = {}
                    /\ changes.changed = WithFreshness(t.semantic.corpus, "stale")
                                       \ WithFreshness(s.semantic.corpus, "stale")
<1>1. ReviewInv /\ ReviewInv' /\ Next => Reported
  <2>1. SUFFICES ASSUME ReviewInv, ReviewInv', Next, NEW s \in snapshot
                 PROVE  /\ snapshot' # {}
                        /\ \A t \in snapshot' :
                              LET changes == t.diff.repositories
                              IN  /\ changes.added = {} /\ changes.removed = {}
                                  /\ changes.changed =
                                         WithFreshness(t.semantic.corpus, "stale")
                                         \ WithFreshness(s.semantic.corpus, "stale")
    OBVIOUS
  <2>2. PICK p, q, d : p = profile /\ q = profile' /\ d = documents
    OBVIOUS
  <2> DEFINE old == FactsOfAll(p, d)
             new == FactsOfAll(q, d)
  <2>3. /\ documents' = d /\ LaterThan(q, p)
        /\ snapshot' = Compiled(q, d, snapshot)
    BY <2>1, <2>2 DEF Next, Review, ReviewInv, LaterThan
  <2>4. Listed(d) /\ Compilable(p, d)
    BY <2>1, <2>2 DEF ReviewInv
  <2>5. \A x \in snapshot : x.semantic = Semantic(p, d)
    BY <2>1, <2>2 DEF ReviewInv
  <2>6. Compilable(q, d)
    BY <2>3, <2>4, LaterCompiles
  <2>7. snapshot' = {Compile(q, d, snapshot)}
    BY <2>3, <2>6 DEF Compiled
  <2>8. /\ Semantic(p, d).profile = p /\ Semantic(p, d).corpus = old
        /\ Semantic(q, d).profile = q /\ Semantic(q, d).corpus = new
    BY <2>4, <2>6, SemanticIsFacts
  <2>9. {x \in snapshot : x.semantic = Semantic(q, d)} = {}
    <3>1. q # p
      BY <2>3, LaterMeans
    <3>2. QED
      BY <2>5, <2>8, <3>1
  <2>10. Compile(q, d, snapshot) =
             [semantic |-> Semantic(q, d), diff |-> SemanticDiff(snapshot, Semantic(q, d))]
    BY <2>9 DEF Compile
  <2>11. [kind \in Kinds |-> UNION {x.semantic.corpus[kind] : x \in snapshot}] = old
    <3>1. \A x \in snapshot : x.semantic.corpus = old
      BY <2>5, <2>8
    <3>2. \A kind \in Kinds : UNION {x.semantic.corpus[kind] : x \in snapshot} = old[kind]
      BY <2>1, <3>1
    <3>3. old = [kind \in Kinds |-> old[kind]]
      BY DEF FactsOfAll
    <3> HIDE DEF old
    <3>4. QED
      BY <3>2, <3>3
  <2> HIDE DEF old, new
  <2>12. SemanticDiff(snapshot, Semantic(q, d)).repositories =
             KeyedDiff(RepositorySemantics(old), RepositorySemantics(new))
    BY <2>8, <2>11 DEF SemanticDiff
  <2> DEFINE diff == KeyedDiff(RepositorySemantics(old), RepositorySemantics(new))
  <2>13. /\ diff.added = {} /\ diff.removed = {}
         /\ diff.changed = WithFreshness(new, "stale") \ WithFreshness(old, "stale")
    BY <2>3, <2>4, AgedDiff DEF old, new
  <2> HIDE DEF diff
  <2>14. ASSUME NEW t \in snapshot'
         PROVE  t.diff.repositories = diff /\ t.semantic.corpus = new
    BY <2>7, <2>8, <2>10, <2>12 DEF diff
  <2>15. s.semantic.corpus = old
    BY <2>5, <2>8
  <2>16. snapshot' # {}
    BY <2>7
  <2>17. QED
    BY <2>13, <2>14, <2>15, <2>16
<1>2. ReviewInv /\ ReviewInv' /\ [Next]_vars => [Reported]_vars
  BY <1>1
<1>3. QED
  BY <1>2, ReviewInvariant, PTL DEF Spec, AgeingIsReported
=============================================================================
