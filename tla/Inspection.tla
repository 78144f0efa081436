----------------------------- MODULE Inspection -----------------------------
(***************************************************************************)
(* `shoulda inspect` (services.inspected, project_context.py): a bounded   *)
(* read of one explicit project, kept in the store.  A GitHub project is   *)
(* read by several requests, and what one of them cannot give becomes a    *)
(* receipt and a gap.  A local project is walked directory by directory    *)
(* while its owner may edit it.  A supplied SBOM replaces GitHub's.        *)
(*                                                                         *)
(* Left out: bytes and their limits (counts stand for them), topics,       *)
(* license and visibility, the digests of receipts.  A listing and the     *)
(* look at which of its subdirectories are links are one step, and so is   *)
(* queueing them; between the two the tree may change.                     *)
(***************************************************************************)
EXTENDS GhTransport, Selection, FiniteSets, SequencesExt

CONSTANTS
    Directories,    \* directories a tree may have, as paths below its root
    Skipped,        \* SKIPPED_DIRECTORIES
    Trees,          \* trees an inspection may find
    Documents,      \* SBOMs: format, and per component its parent and claim
    MaxDepth,       \* MAX_LOCAL_DEPTH, also the nesting limit of an SBOM
    MaxFiles,       \* MAX_LOCAL_FILES
    MaxManifests,   \* MAX_MANIFESTS
    MaxComponents,  \* MAX_SBOM_COMPONENTS
    NoDocument, NoSnapshot,
    MaxTreeEdits,   \* bound: edits of the tree during the walk
    MaxBadReplies   \* bound: requests that do not give what was asked for

\* Every component of a document is a child of a component before it, or a root
\* (0); the claim is what its identity is derived from and what it says.
WellNested(doc) ==
    /\ doc.parent \in Seq(Nat)
    /\ \A n \in DOMAIN doc.parent : doc.parent[n] < n
    /\ DOMAIN doc.claim = DOMAIN doc.parent

ASSUME InspectionAssumption ==
    /\ Directories \subseteq Seq(STRING) /\ IsFiniteSet(Directories)
    /\ \A doc \in Documents : WellNested(doc)
    /\ NoDocument \notin Documents
    /\ {MaxDepth, MaxFiles, MaxManifests, MaxComponents, MaxTreeEdits, MaxBadReplies}
            \subseteq Nat

VARIABLES
    tree,           \* directories, links and files as they are now
    treeEver, treeAlways,   \* files there at some / every instant (history)
    treeDirs,       \* paths that were directories at some instant (history)
    job,            \* "github" or "local", and the supplied SBOM if any
    step,           \* control state of the inspection
    receipts,       \* aspect -> state of its receipt
    gaps,           \* aspect -> state of its gap
    toVisit,        \* directories os.walk has still to list
    toRead,         \* files of the listed directory still to look at
    kept,           \* its subdirectories to go on with
    visited,        \* visited_files
    facts,          \* manifests read
    document,       \* the SBOM being parsed
    pending,        \* its components still to look at
    components,     \* those parsed
    stored,         \* snapshots in the store
    latestProject,  \* the snapshot the two pointers name
    latestOfTarget,
    treeEdits, badReplies

project    == <<tree, treeEver, treeAlways, treeDirs>>
walk       == <<toVisit, toRead, kept, visited, facts>>
sbom       == <<document, pending, components>>
evidence   == <<receipts, gaps>>
storage    == <<stored, latestProject, latestOfTarget>>
inspectVars == <<tree, treeEver, treeAlways, treeDirs, job, step, receipts,
                 gaps, toVisit, toRead, kept, visited, facts, document,
                 pending, components, stored, latestProject, latestOfTarget,
                 treeEdits, badReplies>>

-----------------------------------------------------------------------------
(* The local tree.  A file is <<directory, kind>>; it is found wherever     *)
(* its directory's path leads, through links as well.  Of the paths that   *)
(* lead to a directory, "links" are the symbolic links and "outer" those   *)
(* of them that lead out of the root.                                      *)

FileKinds == {"inner link", "manifest", "other", "outer link"}
KindOrder == <<"inner link", "manifest", "other", "outer link">>

Root == <<>>

\* The first n names of a path.
UpTo(path, n) == [m \in 1 .. n |-> path[m]]

Parent(path) == UpTo(path, Len(path) - 1)

\* A directory and all it lies in.
Above(path) == {UpTo(path, n) : n \in 0 .. Len(path)}

\* No part of the path is skipped.
Inside(path) == \A n \in 1 .. Len(path) : path[n] \notin Skipped

\* No part of the path is a link.
Plain(t, path) == Above(path) \cap t.links = {}

Rooted(t) ==
    /\ Root \in t.dirs
    /\ \A d \in t.dirs : Above(d) \subseteq t.dirs
    /\ \A f \in t.files : f[1] \in t.dirs
    /\ t.links \subseteq t.dirs \ {Root}
    /\ t.outer \subseteq t.links

ASSUME TreesAssumption ==
    \A t \in Trees :
        /\ t \in [dirs : SUBSET Directories, links : SUBSET Directories,
                  outer : SUBSET Directories, files : SUBSET (Directories \X FileKinds)]
        /\ Rooted(t)

PlainFiles(t) == {f \in t.files : Plain(t, f[1])}

EditTree(t) ==
    /\ step \in {"walk", "files"}
    /\ treeEdits < MaxTreeEdits
    /\ t # tree /\ Rooted(t)
    /\ tree' = t
    /\ treeEver' = treeEver \cup t.files
    /\ treeAlways' = treeAlways \cap PlainFiles(t)
    /\ treeDirs' = treeDirs \cup (t.dirs \ t.links)
    /\ treeEdits' = treeEdits + 1
    /\ UNCHANGED <<job, step, evidence, walk, sbom, storage, badReplies>>

FilesChange ==
    \E d \in tree.dirs, kind \in FileKinds :
        \/ EditTree([tree EXCEPT !.files = @ \cup {<<d, kind>>}])
        \/ EditTree([tree EXCEPT !.files = @ \ {<<d, kind>>}])

DirectoryVanishes ==
    \E d \in tree.dirs \ {Root} :
        EditTree([dirs |-> tree.dirs \ {d}, links |-> tree.links \ {d},
                  outer |-> tree.outer \ {d},
                  files |-> {f \in tree.files : f[1] # d}])

DirectoryAppears ==
    \E d \in Directories :
        EditTree([tree EXCEPT !.dirs = @ \cup {d}])

\* A directory is moved elsewhere, below the root or out of it, and a link to it
\* put in its place; or a link gives way to the directory itself.
DirectoryMoves ==
    \E d \in tree.dirs \ {Root} :
        \/ EditTree([tree EXCEPT !.links = @ \cup {d}, !.outer = @ \ {d}])
        \/ EditTree([tree EXCEPT !.links = @ \cup {d}, !.outer = @ \cup {d}])
        \/ EditTree([tree EXCEPT !.links = @ \ {d}, !.outer = @ \ {d}])

-----------------------------------------------------------------------------
(* Ends of the inspection. *)

\* Any exception that leaves inspect_project.
Abort ==
    /\ step' = "aborted"
    /\ UNCHANGED <<project, job, evidence, walk, sbom, storage, treeEdits>>

Available(aspect) == receipts' = [receipts EXCEPT ![aspect] = "available"]

\* Mutant: the receipt of a failed read without its gap.
MissingWithoutGap(aspect, state) ==
    receipts' = [receipts EXCEPT ![aspect] = state] /\ UNCHANGED gaps

Missing(aspect, state) ==
    /\ receipts' = [receipts EXCEPT ![aspect] = state]
    /\ gaps' = [gaps EXCEPT ![aspect] = state]

-----------------------------------------------------------------------------
(* _inspect_github. *)

Asks(at) == job.target = "github" /\ step = at

Answered(reply) ==
    IF reply.run = "good" THEN UNCHANGED badReplies
    ELSE badReplies < MaxBadReplies /\ badReplies' = badReplies + 1

\* Nothing can be said of a repository whose own metadata cannot be read.
ReadRepository ==
    \E reply \in Replies :
        /\ Asks("repository")
        /\ Answered(reply)
        /\ IF Raised(reply, FALSE) # NoError THEN Abort
           ELSE /\ Available("repository")
                /\ step' = "languages"
                /\ UNCHANGED <<project, job, gaps, walk, sbom, storage, treeEdits>>

\* Languages and the head commit: each failure is a gap of its own.
ReadOptional(aspect, after) ==
    \E reply \in Replies :
        /\ Asks(aspect)
        /\ Answered(reply)
        /\ IF Raised(reply, FALSE) # NoError THEN Missing(aspect, "error")
           ELSE Available(aspect) /\ UNCHANGED gaps
        /\ step' = after
        /\ UNCHANGED <<project, job, walk, sbom, storage, treeEdits>>

ReadLanguages == ReadOptional("languages", "commit")
ReadCommit == ReadOptional("commit", "sbom")

\* The children of a component, in order, each with how deep it lies.
Children(doc, parent, depth) ==
    LET nested == Select([n \in 1 .. Len(doc.parent) |-> n],
                         {n \in 1 .. Len(doc.parent) : doc.parent[n] = parent})
    IN  [i \in 1 .. Len(nested) |-> [of |-> nested[i], depth |-> depth]]

ParseDocument(doc) ==
    /\ document' = doc
    /\ pending' = Children(doc, 0, 1)
    /\ components' = <<>>
    /\ step' = "components"

\* Without a supplied SBOM, GitHub's own.  An answer that is not SPDX parses
\* into a SourceError, which is not a GitHubError: it leaves inspect_project.
AskForSbom ==
    /\ Asks("sbom") /\ job.supplied = NoDocument
    /\ \E answer \in SbomAnswers :
        IF answer = "available"
        THEN /\ \E doc \in Documents : ParseDocument(doc)
             /\ Available("sbom")
             /\ UNCHANGED <<gaps, badReplies>>
        ELSE /\ Missing("sbom", CASE answer = "pending" -> "pending"
                                  [] answer = "not found" -> "unavailable"
                                  [] OTHER -> "error")
             /\ badReplies < MaxBadReplies /\ badReplies' = badReplies + 1
             /\ step' = "seal"
             /\ UNCHANGED sbom
    /\ UNCHANGED <<project, job, walk, storage, treeEdits>>

-----------------------------------------------------------------------------
(* _inspect_local: _manifest_inventory, then the supplied SBOM. *)

Sorted(t, dir) == Select(KindOrder, {kind \in FileKinds : <<dir, kind>> \in t.files})

DirectoriesIn(dir) == {d \in tree.dirs \ {Root} : Parent(d) = dir}

\* Mutant: skipped directories are walked.
SubdirectoriesAll(dir) == DirectoriesIn(dir) \ tree.links

\* A link is passed over whatever its name.
Subdirectories(dir) ==
    {d \in DirectoriesIn(dir) \ tree.links : d[Len(d)] \notin Skipped}

\* os.walk lists one directory, or where a link at its path leads to; a vanished
\* one raises (onerror).  A link to a directory out of the root raises as well.
VisitDirectory ==
    /\ step = "walk" /\ toVisit # <<>>
    /\ LET dir == Head(toVisit)
       IN  IF \/ dir \notin tree.dirs \/ Len(dir) > MaxDepth
              \/ DirectoriesIn(dir) \cap tree.outer # {}
           THEN Abort
           ELSE /\ toVisit' = Tail(toVisit)
                /\ kept' = Subdirectories(dir)
                /\ toRead' = [n \in 1 .. Len(Sorted(tree, dir)) |->
                                 <<dir, Sorted(tree, dir)[n]>>]
                /\ step' = "files"
                /\ UNCHANGED <<project, job, evidence, visited, facts, sbom,
                               storage, treeEdits>>
    /\ UNCHANGED badReplies

\* _read_regular_file: a file that is gone when it is opened, or is not the file
\* it was, is refused.
ReadsRegular(file) == file \in tree.files

\* One name of the listing.  A link out of the root raises, as does a manifest
\* that cannot be read or is one too many; a link or another file is only counted.
ReadFile ==
    /\ step = "files" /\ toRead # <<>>
    /\ LET file == Head(toRead)
       IN  IF \/ visited = MaxFiles
              \/ file[2] = "outer link" /\ file \in tree.files
              \/ /\ file[2] = "manifest"
                 /\ \/ ~ReadsRegular(file)
                    \/ Cardinality(facts \cup {file}) > MaxManifests
           THEN Abort
           ELSE /\ visited' = visited + 1
                /\ facts' = IF file[2] = "manifest" THEN facts \cup {file}
                            ELSE facts
                /\ toRead' = Tail(toRead)
                /\ UNCHANGED <<project, job, step, evidence, toVisit, kept, sbom,
                               storage, treeEdits>>
    /\ UNCHANGED badReplies

\* os.walk goes on with the subdirectories kept, but for those that have become
\* links by now.  One that becomes a link after this is walked through.
DirectoryRead ==
    /\ step = "files" /\ toRead = <<>>
    /\ step' = "walk"
    /\ toVisit' = SetToSeq(kept \ tree.links) \o toVisit
    /\ kept' = {}
    /\ UNCHANGED <<project, job, evidence, toRead, visited, facts, sbom, storage,
                   treeEdits, badReplies>>

\* Local inspection never infers languages.
WalkEnds ==
    /\ step = "walk" /\ toVisit = <<>>
    /\ receipts' = [receipts EXCEPT !["inventory"] = "available"]
    /\ gaps' = [gaps EXCEPT !["languages"] = "unavailable"]
    /\ step' = "sbom"
    /\ UNCHANGED <<project, job, walk, sbom, storage, treeEdits, badReplies>>

-----------------------------------------------------------------------------
(* The dependency inventory. *)

\* _parse_sbom_payload, of a document that is neither SPDX nor CycloneDX.
UnsupportedFormat ==
    /\ step = "components" /\ document.format = "other"
    /\ Abort
    /\ UNCHANGED badReplies

\* _read_sbom_file: a file that cannot be read, is no regular file or holds no
\* JSON object ends the inspection, of a GitHub project as well.
SuppliedUnreadable ==
    /\ step = "sbom" /\ job.supplied # NoDocument
    /\ badReplies < MaxBadReplies /\ badReplies' = badReplies + 1
    /\ Abort

ReadSuppliedSbom ==
    /\ step = "sbom" /\ job.supplied # NoDocument
    /\ ParseDocument(job.supplied)
    /\ Available("sbom")
    /\ UNCHANGED <<project, job, gaps, walk, storage, treeEdits, badReplies>>

NoSbomSupplied ==
    /\ step = "sbom" /\ job.supplied = NoDocument /\ job.target = "local"
    /\ gaps' = [gaps EXCEPT !["sbom"] = "unavailable"]
    /\ step' = "seal"
    /\ UNCHANGED <<project, job, receipts, walk, sbom, storage, treeEdits,
                   badReplies>>

\* Mutant: what is still pending does not count against the limit.
WithinLimitParsed(parsed, waiting) == Len(parsed) <= MaxComponents + 1

WithinLimit(parsed, waiting) == Len(parsed) + Len(waiting) <= MaxComponents

\* The loop of _cyclonedx_components; _spdx_components is the case without
\* nesting, whose limit is checked on the whole array first.
ParseComponent ==
    /\ step = "components" /\ document.format # "other" /\ pending # <<>>
    /\ LET next == Head(pending)
           parsed == Append(components, document.claim[next.of])
           waiting == Children(document, next.of, next.depth + 1) \o Tail(pending)
       IN  IF next.depth > MaxDepth \/ ~WithinLimit(parsed, waiting)
           THEN Abort
           ELSE /\ components' = parsed /\ pending' = waiting
                /\ UNCHANGED <<project, job, step, evidence, walk, document,
                               storage, treeEdits>>
    /\ UNCHANGED badReplies

Conflicts(parsed) ==
    \E m, n \in DOMAIN parsed :
        parsed[m].identity = parsed[n].identity /\ parsed[m] # parsed[n]

\* _deduplicate_components
DocumentEnds ==
    /\ step = "components" /\ document.format # "other" /\ pending = <<>>
    /\ IF Conflicts(components) THEN Abort
       ELSE /\ step' = "seal"
            /\ UNCHANGED <<project, job, evidence, walk, sbom, storage, treeEdits>>
    /\ UNCHANGED badReplies

-----------------------------------------------------------------------------
(* _snapshot and StateStore.write_project: three durable writes. *)

Snapshot ==
    [target |-> job.target, receipts |-> receipts, gaps |-> gaps,
     manifests |-> facts, components |-> Range(components)]

Writes(from, to, effect) ==
    /\ step = from
    /\ effect
    /\ step' = to
    /\ UNCHANGED <<project, job, evidence, walk, sbom, treeEdits, badReplies>>

StoreSnapshot ==
    Writes("seal", "pointer",
        /\ stored' = stored \cup {Snapshot}
        /\ UNCHANGED <<latestProject, latestOfTarget>>)

PointToProject ==
    Writes("pointer", "target pointer",
        /\ latestProject' = Snapshot
        /\ UNCHANGED <<stored, latestOfTarget>>)

PointToTarget ==
    Writes("target pointer", "done",
        /\ latestOfTarget' = Snapshot
        /\ UNCHANGED <<stored, latestProject>>)

\* The process can die between any two steps.
Dies ==
    /\ step \notin {"off", "done", "aborted", "dead"}
    /\ step' = "dead"
    /\ UNCHANGED <<project, job, evidence, walk, sbom, storage, treeEdits,
                   badReplies>>

InspectNext ==
    \/ ReadRepository \/ ReadLanguages \/ ReadCommit \/ AskForSbom
    \/ VisitDirectory \/ ReadFile \/ DirectoryRead \/ WalkEnds
    \/ ReadSuppliedSbom \/ SuppliedUnreadable \/ NoSbomSupplied
    \/ UnsupportedFormat \/ ParseComponent \/ DocumentEnds
    \/ StoreSnapshot \/ PointToProject \/ PointToTarget
    \/ Dies
    \/ FilesChange \/ DirectoryVanishes \/ DirectoryAppears \/ DirectoryMoves

Aspects == {"repository", "languages", "commit", "inventory", "sbom"}

Jobs == [target : {"github", "local"}, supplied : Documents \cup {NoDocument}]

\* "off" where another command runs.
InspectInit ==
    /\ job \in Jobs /\ tree \in Trees
    /\ step \in {"off", IF job.target = "github" THEN "repository" ELSE "walk"}
    /\ treeEver = tree.files /\ treeAlways = PlainFiles(tree)
    /\ treeDirs = tree.dirs \ tree.links
    /\ receipts = [a \in Aspects |-> "none"] /\ gaps = [a \in Aspects |-> "none"]
    /\ toVisit = <<Root>> /\ toRead = <<>> /\ kept = {} /\ visited = 0 /\ facts = {}
    /\ document = NoDocument /\ pending = <<>> /\ components = <<>>
    /\ stored = {} /\ latestProject = NoSnapshot /\ latestOfTarget = NoSnapshot
    /\ treeEdits = 0 /\ badReplies = 0

InspectSpec == InspectInit /\ [][InspectNext]_inspectVars

-----------------------------------------------------------------------------
(* Properties. *)

\* A snapshot accounts for every aspect of its target once: there is a receipt
\* that it was available, or a gap that says why it was not.
Accounted(snapshot) ==
    LET asked == IF snapshot.target = "github"
                 THEN {"repository", "languages", "commit", "sbom"}
                 ELSE {"inventory", "languages", "sbom"}
    IN  \A a \in asked :
            snapshot.receipts[a] = "available" <=> snapshot.gaps[a] = "none"

\* Whatever requests fail and wherever the process dies: a pointer names a
\* stored snapshot, and one that accounts for all of its evidence.
PointersNameEvidence ==
    \A snapshot \in {latestProject, latestOfTarget} \ {NoSnapshot} :
        snapshot \in stored /\ Accounted(snapshot)

\* The directories the walk of a tree comes to if nobody edits it.
WalkedDirs(t) == {d \in t.dirs : Inside(d) /\ Plain(t, d)}

\* What a tree must be for its walk to end with an inventory.
Walkable(t) ==
    LET files == {f \in t.files : f[1] \in WalkedDirs(t)}
    IN  /\ \A d \in WalkedDirs(t) : Len(d) <= MaxDepth
        /\ Cardinality(files) <= MaxFiles
        /\ Cardinality({f \in files : f[2] = "manifest"}) <= MaxManifests
        /\ \A f \in files : f[2] # "outer link"
        /\ \A d \in t.outer : Parent(d) \notin WalkedDirs(t)

\* However the tree is edited during the walk, the inventory lists nothing that
\* never was and nothing of a skipped directory; every directory over a manifest
\* of it was a directory, not a link, at some instant; and every manifest that was
\* there all along, below directories, is listed.  Without an
\* edit the walk ends with an inventory exactly where the tree is within the
\* limits and no link among what it comes to leads out.
InventoryIsBracketed ==
    /\ \A snapshot \in stored :
          snapshot.target = "local" =>
              /\ snapshot.manifests \subseteq treeEver
              /\ \A f \in snapshot.manifests :
                    Inside(f[1]) /\ Above(f[1]) \subseteq treeDirs
              /\ {f \in treeAlways : f[2] = "manifest" /\ Inside(f[1])}
                     \subseteq snapshot.manifests
              /\ treeEdits = 0 => Walkable(tree)
    /\ (step = "aborted" /\ job.target = "local" /\ document = NoDocument
            /\ treeEdits = 0 /\ badReplies = 0) => ~Walkable(tree)

\* What a document must be for its components to be taken.
Acceptable(doc) ==
    /\ doc.format # "other"
    /\ Len(doc.parent) <= MaxComponents
    /\ \E level \in [DOMAIN doc.parent -> 1 .. MaxDepth] :
          \A n \in DOMAIN doc.parent :
              level[n] = IF doc.parent[n] = 0 THEN 1 ELSE level[doc.parent[n]] + 1
    /\ ~Conflicts(doc.claim)

\* A dependency inventory is taken whole or the inspection ends without a
\* snapshot, although the limit is watched while the nesting is unfolded; and
\* nothing but the document and a failed read ends it that way.
DependenciesAreWhole ==
    /\ \A snapshot \in stored :
          snapshot.receipts["sbom"] = "available" =>
              /\ Acceptable(document)
              /\ snapshot.components = Range(document.claim)
    /\ (step = "aborted" /\ job.target = "github" /\ badReplies = 0)
          => document # NoDocument
    /\ (step = "aborted" /\ document # NoDocument) => ~Acceptable(document)
=============================================================================
