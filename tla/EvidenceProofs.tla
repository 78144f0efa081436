--------------------------- MODULE EvidenceProofs ---------------------------
(***************************************************************************)
(* The evidence the system stores and what refers to it.                   *)
(*                                                                         *)
(* The inspection of a project, for every tree, document and limit: its    *)
(* pointers name what was read, its inventory is bracketed by the tree     *)
(* before and after, no dependency of a document is lost.  Then checks,    *)
(* rechecks and baselines: every reference resolves, no chain of rechecks  *)
(* moves a baseline past a hard gate, no check stands on part of its       *)
(* sources.  These treat the evaluation of sources as opaque; the last     *)
(* parts open it: what the merge, the stable sort and the limit make of    *)
(* any sources, and from it that shortlists and outcomes are true.         *)
(***************************************************************************)
EXTENDS Recheck, Inspection, DataInduction

-----------------------------------------------------------------------------
(* Paths.                                                                  *)

LEMMA UpToType ==
    ASSUME NEW p \in Seq(STRING), NEW n \in 0 .. Len(p)
    PROVE  /\ UpTo(p, n) \in Seq(STRING) /\ Len(UpTo(p, n)) = n
           /\ \A m \in 1 .. n : UpTo(p, n)[m] = p[m]
BY DEF UpTo

\* Two paths of one length with the same names are the same path.
LEMMA SamePath ==
    ASSUME NEW p \in Seq(STRING), NEW q \in Seq(STRING), Len(p) = Len(q),
           \A m \in 1 .. Len(p) : p[m] = q[m]
    PROVE  p = q
OBVIOUS

LEMMA AboveMeans ==
    ASSUME NEW p \in Seq(STRING), NEW q \in Seq(STRING)
    PROVE  q \in Above(p) <=> /\ Len(q) <= Len(p)
                              /\ \A m \in 1 .. Len(q) : q[m] = p[m]
<1>1. ASSUME NEW n \in 0 .. Len(p), q = UpTo(p, n)
      PROVE  Len(q) <= Len(p) /\ \A m \in 1 .. Len(q) : q[m] = p[m]
  <2>1. Len(q) = n /\ \A m \in 1 .. n : q[m] = p[m]
    BY <1>1, UpToType
  <2>2. n <= Len(p)
    OBVIOUS
  <2>3. QED
    BY <2>1, <2>2
<1>2. ASSUME Len(q) <= Len(p), \A m \in 1 .. Len(q) : q[m] = p[m]
      PROVE  q \in Above(p)
  <2>1. Len(q) \in 0 .. Len(p)
    BY <1>2
  <2>2. q = UpTo(p, Len(q))
    BY <1>2, <2>1, UpToType, SamePath
  <2>3. QED
    BY <2>1, <2>2 DEF Above
<1>3. QED
  BY <1>1, <1>2 DEF Above

LEMMA AboveArePaths ==
    ASSUME NEW p \in Seq(STRING), NEW q \in Above(p)
    PROVE  q \in Seq(STRING)
BY UpToType DEF Above

LEMMA AboveSelf ==
    ASSUME NEW p \in Seq(STRING)
    PROVE  p \in Above(p)
BY AboveMeans

LEMMA AboveAbove ==
    ASSUME NEW p \in Seq(STRING), NEW q \in Above(p), NEW r \in Above(q)
    PROVE  r \in Above(p)
<1>1. q \in Seq(STRING)
  BY AboveArePaths
<1>2. r \in Seq(STRING)
  BY <1>1, AboveArePaths
<1>3. /\ Len(r) <= Len(q) /\ \A m \in 1 .. Len(r) : r[m] = q[m]
      /\ Len(q) <= Len(p) /\ \A m \in 1 .. Len(q) : q[m] = p[m]
  BY <1>1, <1>2, AboveMeans
<1>4. Len(r) <= Len(p) /\ \A m \in 1 .. Len(r) : r[m] = p[m]
  BY <1>1, <1>2, <1>3
<1>5. QED
  BY <1>2, <1>4, AboveMeans

LEMMA InsideAbove ==
    ASSUME NEW p \in Seq(STRING), Inside(p), NEW q \in Above(p)
    PROVE  Inside(q)
<1>1. q \in Seq(STRING)
  BY AboveArePaths
<1>2. QED
  BY <1>1, AboveMeans DEF Inside

\* One step down from a directory towards what lies in it.
LEMMA StepDown ==
    ASSUME NEW p \in Seq(STRING), NEW q \in Above(p), q # p
    PROVE  \E c \in Above(p) :
              /\ c \in Seq(STRING) /\ c # Root
              /\ UpTo(c, Len(c) - 1) = q
              /\ c[Len(c)] = p[Len(c)] /\ Len(c) \in 1 .. Len(p)
<1>1. q \in Seq(STRING)
  BY AboveArePaths
<1>2. Len(q) <= Len(p) /\ \A m \in 1 .. Len(q) : q[m] = p[m]
  BY <1>1, AboveMeans
<1>3. Len(q) # Len(p)
  BY <1>1, <1>2, SamePath
<1>4. Len(q) + 1 \in 1 .. Len(p) /\ Len(q) + 1 \in 0 .. Len(p)
  BY <1>1, <1>2, <1>3
<1> DEFINE c == UpTo(p, Len(q) + 1)
<1>5. /\ c \in Seq(STRING) /\ Len(c) = Len(q) + 1
      /\ \A m \in 1 .. Len(q) + 1 : c[m] = p[m]
  BY <1>4, UpToType
<1>6. c \in Above(p)
  BY <1>4 DEF Above
<1> HIDE DEF c
<1>7. /\ UpTo(c, Len(c) - 1) \in Seq(STRING) /\ Len(UpTo(c, Len(c) - 1)) = Len(q)
      /\ \A m \in 1 .. Len(q) : UpTo(c, Len(c) - 1)[m] = c[m]
  <2>1. Len(c) - 1 = Len(q) /\ Len(q) \in 0 .. Len(c)
    BY <1>1, <1>5
  <2>2. QED
    BY <1>5, <2>1, UpToType
<1>8. UpTo(c, Len(c) - 1) = q
  BY <1>1, <1>2, <1>5, <1>7, SamePath
<1>9. c # Root
  BY <1>1, <1>5 DEF Root
<1>10. QED
  BY <1>4, <1>5, <1>6, <1>8, <1>9

\* What lies over a directory lies over its parent or is the directory.
LEMMA StepUp ==
    ASSUME NEW c \in Seq(STRING), c # Root, NEW q, UpTo(c, Len(c) - 1) = q
    PROVE  /\ q \in Above(c) /\ q \in Seq(STRING) /\ Len(c) = Len(q) + 1
           /\ \A r \in Above(c) : r = c \/ r \in Above(q)
<1>1. Len(c) \in Nat /\ Len(c) # 0
  BY DEF Root
<1>2. Len(c) - 1 \in 0 .. Len(c)
  BY <1>1
<1>3. /\ q \in Seq(STRING) /\ Len(q) = Len(c) - 1
      /\ \A m \in 1 .. Len(c) - 1 : q[m] = c[m]
  BY <1>2, UpToType
<1>4. q \in Above(c)
  BY <1>2 DEF Above
<1>5. ASSUME NEW r \in Above(c), r # c PROVE r \in Above(q)
  <2>1. r \in Seq(STRING)
    BY AboveArePaths
  <2>2. Len(r) <= Len(c) /\ \A m \in 1 .. Len(r) : r[m] = c[m]
    BY <2>1, AboveMeans
  <2>3. Len(r) # Len(c)
    BY <1>5, <2>1, <2>2, SamePath
  <2>4. Len(r) <= Len(q) /\ \A m \in 1 .. Len(r) : r[m] = q[m]
    BY <1>1, <1>3, <2>1, <2>2, <2>3
  <2>5. QED
    BY <1>3, <2>1, <2>4, AboveMeans
<1>6. QED
  BY <1>1, <1>3, <1>4, <1>5

-----------------------------------------------------------------------------
(* Types.                                                                  *)

Files == Directories \X FileKinds
AnyTree == [dirs : SUBSET Directories, links : SUBSET Directories,
            outer : SUBSET Directories, files : SUBSET Files]
States == {"none", "available", "error", "pending", "unavailable"}
Steps == {"off", "repository", "languages", "commit", "walk", "files", "sbom",
          "components", "seal", "pointer", "target pointer",
          "done", "dead", "aborted"}

\* The job alone decides which of the two inspections runs.
JobInv ==
    /\ step \in {"repository", "languages", "commit"} => job.target = "github"
    /\ step \in {"walk", "files"} => job.target = "local"

InspectTypes ==
    /\ job \in Jobs
    /\ step \in Steps
    /\ tree \in AnyTree /\ Rooted(tree)
    /\ receipts \in [Aspects -> States] /\ gaps \in [Aspects -> States]
    /\ toVisit \in Seq(Directories) /\ toRead \in Seq(Files)
    /\ kept \in SUBSET Directories
    /\ visited \in Nat
    /\ document \in Documents \cup {NoDocument}
    /\ treeEdits \in Nat /\ badReplies \in Nat
    /\ JobInv

LEMMA PathsOfTree ==
    /\ Directories \subseteq Seq(STRING)
    /\ Root \in Seq(STRING)
    /\ \A t \in Trees : Root \in Directories
BY InspectionAssumption, TreesAssumption DEF Root, Rooted

LEMMA AspectsAre ==
    Aspects = {"repository", "languages", "commit", "inventory", "sbom"}
BY DEF Aspects

LEMMA KindsInOrder ==
    /\ KindOrder \in Seq(FileKinds) /\ Elements(KindOrder) = FileKinds
    /\ Distinct(KindOrder) /\ IsFiniteSet(FileKinds)
<1>1. KindOrder \in Seq(FileKinds)
  BY DEF KindOrder, FileKinds
<1>2. Len(KindOrder) = 4
  BY DEF KindOrder
<1>3. /\ KindOrder[1] = "inner link" /\ KindOrder[2] = "manifest"
      /\ KindOrder[3] = "other" /\ KindOrder[4] = "outer link"
  BY DEF KindOrder
<1>4. /\ \A n \in 1 .. 4 : n = 1 \/ n = 2 \/ n = 3 \/ n = 4
      /\ 1 \in 1 .. 4 /\ 2 \in 1 .. 4 /\ 3 \in 1 .. 4 /\ 4 \in 1 .. 4
  OBVIOUS
<1>5. FileKinds \subseteq Elements(KindOrder)
  BY <1>2, <1>3, <1>4 DEF Elements, FileKinds
<1>6. \A n \in 1 .. 4 : KindOrder[n] \in FileKinds
  BY <1>3, <1>4 DEF FileKinds
<1>7. Elements(KindOrder) \subseteq FileKinds
  BY <1>2, <1>6 DEF Elements
<1>8. Elements(KindOrder) = FileKinds
  BY <1>5, <1>7
<1>9. Distinct(KindOrder)
  BY <1>2, <1>3, <1>4 DEF Distinct
<1>10. IsFiniteSet(FileKinds)
  BY <1>1, <1>8, <1>9, DistinctCounts
<1>11. QED
  BY <1>1, <1>8, <1>9, <1>10

\* What a listing holds.
LEMMA SortedType ==
    ASSUME NEW t, NEW dir
    PROVE  /\ Sorted(t, dir) \in Seq(FileKinds)
           /\ Elements(Sorted(t, dir)) = {kind \in FileKinds : <<dir, kind>> \in t.files}
           /\ Distinct(Sorted(t, dir))
<1> DEFINE K == {kind \in FileKinds : <<dir, kind>> \in t.files}
<1>1. FileKinds \cap K = K
  OBVIOUS
<1> HIDE DEF K
<1>2. /\ Select(KindOrder, K) \in Seq(FileKinds)
      /\ Elements(Select(KindOrder, K)) = K
      /\ Distinct(Select(KindOrder, K))
  BY <1>1, KindsInOrder, SelectProperties
<1>3. QED
  BY <1>2 DEF Sorted, K

LEMMA QueueingType ==
    ASSUME NEW S \in SUBSET Directories
    PROVE  /\ SetToSeq(S) \in Seq(Directories)
           /\ Elements(SetToSeq(S)) = S
           /\ Distinct(SetToSeq(S))
<1>1. IsFiniteSet(S)
  BY InspectionAssumption, FS_Subset
<1>2. SetToSeq(S) \in Seq(S)
  BY <1>1, SetToSeqProperties
<1>3. SetToSeq(S) \in Seq(Directories)
  BY <1>2
<1>4. QED
  BY <1>1, <1>3, SetToSeqProperties

LEMMA SubdirectoriesType ==
    ASSUME InspectTypes, NEW dir
    PROVE  Subdirectories(dir) \in SUBSET Directories
BY DEF Subdirectories, DirectoriesIn, InspectTypes, AnyTree

\* What a visited directory lists.
LEMMA ListingType ==
    ASSUME InspectTypes, NEW dir \in Directories,
           NEW listing,
           listing = [n \in 1 .. Len(Sorted(tree, dir)) |->
                         <<dir, Sorted(tree, dir)[n]>>]
    PROVE  /\ listing \in Seq(Files)
           /\ Elements(listing) = {f \in tree.files : f[1] = dir}
           /\ Distinct(listing)
<1> DEFINE kinds == Sorted(tree, dir)
<1>1. /\ kinds \in Seq(FileKinds)
      /\ Elements(kinds) = {kind \in FileKinds : <<dir, kind>> \in tree.files}
      /\ Distinct(kinds)
  BY SortedType
<1> HIDE DEF kinds
<1>2. Len(kinds) \in Nat /\ \A n \in 1 .. Len(kinds) : kinds[n] \in FileKinds
  BY <1>1
<1>3. listing \in Seq(Files) /\ Len(listing) = Len(kinds)
  BY <1>2 DEF Files, kinds
<1>4. \A n \in 1 .. Len(kinds) : listing[n] = <<dir, kinds[n]>>
  BY DEF kinds
<1>5. Elements(listing) \subseteq {f \in tree.files : f[1] = dir}
  <2>1. SUFFICES ASSUME NEW n \in 1 .. Len(kinds)
                 PROVE  listing[n] \in tree.files /\ listing[n][1] = dir
    BY <1>3 DEF Elements
  <2>2. kinds[n] \in Elements(kinds)
    BY DEF Elements
  <2>3. kinds[n] \in {kind \in FileKinds : <<dir, kind>> \in tree.files}
    BY <1>1, <2>2
  <2>4. <<dir, kinds[n]>> \in tree.files
    BY <2>3
  <2>5. listing[n] = <<dir, kinds[n]>>
    BY <1>4
  <2>6. <<dir, kinds[n]>>[1] = dir
    OBVIOUS
  <2>7. QED
    BY <2>4, <2>5, <2>6
<1>6. {f \in tree.files : f[1] = dir} \subseteq Elements(listing)
  <2>1. SUFFICES ASSUME NEW f \in tree.files, f[1] = dir
                 PROVE  f \in Elements(listing)
    OBVIOUS
  <2>2. f \in Files
    BY DEF InspectTypes, AnyTree
  <2>3. f = <<dir, f[2]>> /\ f[2] \in FileKinds
    BY <2>1, <2>2 DEF Files
  <2>4. PICK n \in 1 .. Len(kinds) : kinds[n] = f[2]
    BY <1>1, <2>3 DEF Elements
  <2>5. listing[n] = f
    BY <1>4, <2>3, <2>4
  <2>6. QED
    BY <1>3, <2>5 DEF Elements
<1>7. Distinct(listing)
  <2>1. SUFFICES ASSUME NEW m \in 1 .. Len(kinds), NEW n \in 1 .. Len(kinds),
                        listing[m] = listing[n]
                 PROVE  m = n
    BY <1>3 DEF Distinct
  <2>2. <<dir, kinds[m]>> = <<dir, kinds[n]>>
    <3>1. listing[m] = <<dir, kinds[m]>> /\ listing[n] = <<dir, kinds[n]>>
      BY <1>4
    <3>2. QED
      BY <2>1, <3>1
  <2>3. QED
    BY <1>1, <2>2 DEF Distinct
<1>8. QED
  BY <1>3, <1>5, <1>6, <1>7

LEMMA InitTypes == InspectInit => InspectTypes
<1> SUFFICES ASSUME InspectInit PROVE InspectTypes
  OBVIOUS
<1>1. tree \in AnyTree /\ Rooted(tree)
  BY TreesAssumption DEF InspectInit, Files, AnyTree
<1>2. toVisit \in Seq(Directories) /\ toRead \in Seq(Files)
  BY PathsOfTree DEF InspectInit
<1>3. receipts \in [Aspects -> States] /\ gaps \in [Aspects -> States]
  BY DEF InspectInit, States
<1>4. job \in Jobs /\ step \in Steps /\ JobInv
  BY DEF InspectInit, Jobs, Steps, JobInv
<1>5. QED
  BY <1>1, <1>2, <1>3, <1>4 DEF InspectInit, InspectTypes

\* Actions that leave tree, walk and document alone.
LEMMA TypesOfEvidence ==
    ASSUME InspectTypes, UNCHANGED <<tree, job, walk, treeEdits>>,
           step' \in Steps, JobInv', document' \in Documents \cup {NoDocument},
           receipts' \in [Aspects -> States], gaps' \in [Aspects -> States],
           badReplies' \in Nat
    PROVE  InspectTypes'
BY DEF InspectTypes, walk

LEMMA AbortTypes ==
    ASSUME InspectTypes, Abort, badReplies' \in Nat
    PROVE  InspectTypes'
BY DEF InspectTypes, Abort, walk, project, evidence, sbom, storage, JobInv, Steps

LEMMA AnsweredTypes ==
    ASSUME InspectTypes, NEW reply, Answered(reply)
    PROVE  badReplies' \in Nat
BY InspectionAssumption DEF Answered, InspectTypes

LEMMA NextTypes == InspectTypes /\ [InspectNext]_inspectVars => InspectTypes'
<1> SUFFICES ASSUME InspectTypes, [InspectNext]_inspectVars PROVE InspectTypes'
  OBVIOUS
<1> USE DEF project, evidence, sbom, storage
<1>1. CASE ReadRepository
  <2>1. PICK reply \in Replies :
            /\ Asks("repository") /\ Answered(reply)
            /\ \/ Abort
               \/ /\ Available("repository") /\ step' = "languages"
                  /\ UNCHANGED <<project, job, gaps, walk, sbom, storage, treeEdits>>
    BY <1>1 DEF ReadRepository
  <2>2. badReplies' \in Nat
    BY <2>1, AnsweredTypes
  <2>3. CASE Abort
    BY <2>2, <2>3, AbortTypes
  <2>4. CASE ~Abort
    <3>1. receipts' \in [Aspects -> States] /\ gaps' \in [Aspects -> States]
      BY <2>1, <2>4 DEF Available, InspectTypes, States
    <3>2. QED
      BY <2>1, <2>2, <2>4, <3>1, TypesOfEvidence DEF InspectTypes, Asks, JobInv, Steps
  <2>5. QED
    BY <2>3, <2>4
<1>2. ASSUME NEW aspect \in {"languages", "commit"}, NEW after \in {"commit", "sbom"},
             ReadOptional(aspect, after)
      PROVE  InspectTypes'
  <2>1. PICK reply \in Replies :
            /\ Asks(aspect) /\ Answered(reply)
            /\ \/ Missing(aspect, "error")
               \/ Available(aspect) /\ UNCHANGED gaps
            /\ step' = after
            /\ UNCHANGED <<project, job, walk, sbom, storage, treeEdits>>
    BY <1>2 DEF ReadOptional
  <2>2. receipts' \in [Aspects -> States] /\ gaps' \in [Aspects -> States]
    BY <2>1 DEF Available, Missing, InspectTypes, States
  <2>3. badReplies' \in Nat
    BY <2>1, AnsweredTypes
  <2>4. QED
    BY <1>2, <2>1, <2>2, <2>3, TypesOfEvidence DEF InspectTypes, Asks, JobInv, Steps
<1>3. CASE AskForSbom
  <2>1. PICK answer \in SbomAnswers :
            \/ /\ \E doc \in Documents : ParseDocument(doc)
               /\ Available("sbom")
               /\ UNCHANGED <<gaps, badReplies>>
            \/ /\ Missing("sbom", CASE answer = "pending" -> "pending"
                                     [] answer = "not found" -> "unavailable"
                                     [] OTHER -> "error")
               /\ badReplies < MaxBadReplies /\ badReplies' = badReplies + 1
               /\ step' = "seal"
               /\ UNCHANGED sbom
    BY <1>3 DEF AskForSbom
  <2>2. receipts' \in [Aspects -> States] /\ gaps' \in [Aspects -> States]
    BY <2>1 DEF Available, Missing, InspectTypes, States
  <2>3. badReplies' \in Nat /\ document' \in Documents \cup {NoDocument}
    <3>1. badReplies + 1 \in Nat /\ badReplies \in Nat
      BY DEF InspectTypes
    <3>2. QED
      BY <2>1, <3>1 DEF ParseDocument, InspectTypes
  <2>4. step' \in {"components", "seal"}
    BY <2>1 DEF ParseDocument
  <2>5. QED
    BY <1>3, <2>2, <2>3, <2>4, TypesOfEvidence DEF AskForSbom, InspectTypes, JobInv, Steps
<1>4. CASE VisitDirectory
  <2> DEFINE dir == Head(toVisit)
  <2>1. CASE Abort
    BY <1>4, <2>1, AbortTypes DEF VisitDirectory, InspectTypes
  <2>2. CASE ~Abort
    <3>1. /\ dir \in Directories /\ Tail(toVisit) \in Seq(Directories)
      BY <1>4, TailElements DEF VisitDirectory, InspectTypes
    <3>2. /\ toVisit' = Tail(toVisit) /\ kept' = Subdirectories(dir)
          /\ toRead' = [n \in 1 .. Len(Sorted(tree, dir)) |->
                           <<dir, Sorted(tree, dir)[n]>>]
          /\ step' = "files" /\ step = "walk"
          /\ UNCHANGED <<project, job, evidence, visited, facts, sbom, treeEdits, badReplies>>
      BY <1>4, <2>2 DEF VisitDirectory
    <3> HIDE DEF dir
    <3>3. toVisit' \in Seq(Directories) /\ kept' \in SUBSET Directories
      BY <3>1, <3>2, SubdirectoriesType
    <3>4. toRead' \in Seq(Files)
      BY <3>1, <3>2, ListingType
    <3>5. QED
      BY <3>2, <3>3, <3>4 DEF InspectTypes, JobInv, Steps
  <2>3. QED
    BY <2>1, <2>2
<1>5. CASE ReadFile
  <2>1. CASE Abort
    BY <1>5, <2>1, AbortTypes DEF ReadFile, InspectTypes
  <2>2. CASE ~Abort
    <3>1. Tail(toRead) \in Seq(Files)
      BY <1>5, TailElements DEF ReadFile, InspectTypes
    <3>2. /\ visited' = visited + 1 /\ toRead' = Tail(toRead)
          /\ UNCHANGED <<project, job, step, evidence, toVisit, kept, sbom,
                         storage, treeEdits, badReplies>>
      BY <1>5, <2>2 DEF ReadFile
    <3>3. QED
      BY <3>1, <3>2 DEF InspectTypes, JobInv
  <2>3. QED
    BY <2>1, <2>2
<1>6. CASE DirectoryRead
  <2>1. /\ toVisit' = SetToSeq(kept \ tree.links) \o toVisit /\ kept' = {}
        /\ step = "files" /\ step' = "walk"
        /\ UNCHANGED <<project, job, evidence, toRead, visited, sbom, treeEdits, badReplies>>
    BY <1>6 DEF DirectoryRead
  <2>2. kept \ tree.links \in SUBSET Directories /\ toVisit \in Seq(Directories)
    BY DEF InspectTypes
  <2>3. toVisit' \in Seq(Directories)
    BY <2>1, <2>2, QueueingType
  <2>4. QED
    BY <2>1, <2>3 DEF InspectTypes, JobInv, Steps
<1>7. CASE WalkEnds
  <2>1. receipts' \in [Aspects -> States] /\ gaps' \in [Aspects -> States]
    BY <1>7 DEF WalkEnds, InspectTypes, States
  <2>2. QED
    BY <1>7, <2>1, TypesOfEvidence DEF WalkEnds, InspectTypes, JobInv, Steps
<1>8. CASE ReadSuppliedSbom
  <2>1. receipts' \in [Aspects -> States]
    BY <1>8 DEF ReadSuppliedSbom, Available, InspectTypes, States
  <2>2. document' \in Documents \cup {NoDocument} /\ step' = "components"
    BY <1>8 DEF ReadSuppliedSbom, ParseDocument, InspectTypes, Jobs
  <2>3. QED
    BY <1>8, <2>1, <2>2, TypesOfEvidence DEF ReadSuppliedSbom, InspectTypes, JobInv, Steps
<1>a. CASE SuppliedUnreadable
  <2>1. badReplies' \in Nat /\ Abort
    BY <1>a DEF SuppliedUnreadable, InspectTypes
  <2>2. QED
    BY <2>1, AbortTypes
<1>9. CASE NoSbomSupplied
  <2>1. gaps' \in [Aspects -> States]
    BY <1>9 DEF NoSbomSupplied, InspectTypes, States
  <2>2. QED
    BY <1>9, <2>1, TypesOfEvidence DEF NoSbomSupplied, InspectTypes, JobInv, Steps
<1>10. CASE UnsupportedFormat
  BY <1>10, AbortTypes DEF UnsupportedFormat, InspectTypes
<1>11. CASE ParseComponent
  <2>1. CASE Abort
    BY <1>11, <2>1, AbortTypes DEF ParseComponent, InspectTypes
  <2>2. CASE ~Abort
    BY <1>11, <2>2, TypesOfEvidence DEF ParseComponent, InspectTypes, JobInv
  <2>3. QED
    BY <2>1, <2>2
<1>12. CASE DocumentEnds
  <2>1. CASE Abort
    BY <1>12, <2>1, AbortTypes DEF DocumentEnds, InspectTypes
  <2>2. CASE ~Abort
    BY <1>12, <2>2, TypesOfEvidence DEF DocumentEnds, InspectTypes, JobInv, Steps
  <2>3. QED
    BY <2>1, <2>2
<1>13. CASE StoreSnapshot \/ PointToProject \/ PointToTarget
  BY <1>13, TypesOfEvidence
  DEF StoreSnapshot, PointToProject, PointToTarget, Writes, InspectTypes, JobInv, Steps
<1>14. CASE Dies
  BY <1>14, TypesOfEvidence DEF Dies, InspectTypes, JobInv, Steps
<1>15. ASSUME NEW t, EditTree(t),
              t \in AnyTree
       PROVE  InspectTypes'
  BY <1>15 DEF EditTree, InspectTypes, JobInv, walk, Rooted
<1>16. CASE FilesChange
  <2>1. PICK d \in tree.dirs, kind \in FileKinds :
            \/ EditTree([tree EXCEPT !.files = @ \cup {<<d, kind>>}])
            \/ EditTree([tree EXCEPT !.files = @ \ {<<d, kind>>}])
    BY <1>16 DEF FilesChange
  <2>2. <<d, kind>> \in Files
    BY DEF Files, InspectTypes, AnyTree
  <2>3. /\ [tree EXCEPT !.files = @ \cup {<<d, kind>>}] \in AnyTree
        /\ [tree EXCEPT !.files = @ \ {<<d, kind>>}] \in AnyTree
    BY <2>2 DEF InspectTypes, AnyTree
  <2>4. QED
    BY <1>15, <2>1, <2>3
<1>17. CASE DirectoryVanishes
  <2>1. PICK d \in tree.dirs \ {Root} :
            EditTree([dirs |-> tree.dirs \ {d}, links |-> tree.links \ {d},
                      outer |-> tree.outer \ {d},
                      files |-> {f \in tree.files : f[1] # d}])
    BY <1>17 DEF DirectoryVanishes
  <2>2. [dirs |-> tree.dirs \ {d}, links |-> tree.links \ {d}, outer |-> tree.outer \ {d},
         files |-> {f \in tree.files : f[1] # d}] \in AnyTree
    BY DEF InspectTypes, AnyTree
  <2>3. QED
    BY <1>15, <2>1, <2>2
<1>18. CASE DirectoryAppears
  <2>1. PICK d \in Directories : EditTree([tree EXCEPT !.dirs = @ \cup {d}])
    BY <1>18 DEF DirectoryAppears
  <2>2. [tree EXCEPT !.dirs = @ \cup {d}] \in AnyTree
    BY DEF InspectTypes, AnyTree
  <2>3. QED
    BY <1>15, <2>1, <2>2
<1>b. CASE DirectoryMoves
  <2>1. PICK d \in tree.dirs \ {Root} :
            \/ EditTree([tree EXCEPT !.links = @ \cup {d}, !.outer = @ \ {d}])
            \/ EditTree([tree EXCEPT !.links = @ \cup {d}, !.outer = @ \cup {d}])
            \/ EditTree([tree EXCEPT !.links = @ \ {d}, !.outer = @ \ {d}])
    BY <1>b DEF DirectoryMoves
  <2>2. /\ [tree EXCEPT !.links = @ \cup {d}, !.outer = @ \ {d}] \in AnyTree
        /\ [tree EXCEPT !.links = @ \cup {d}, !.outer = @ \cup {d}] \in AnyTree
        /\ [tree EXCEPT !.links = @ \ {d}, !.outer = @ \ {d}] \in AnyTree
    BY DEF InspectTypes, AnyTree
  <2>3. QED
    BY <1>15, <2>1, <2>2
<1>19. CASE UNCHANGED inspectVars
  BY <1>19 DEF inspectVars, InspectTypes, JobInv, walk
<1>20. QED
  BY <1>1, <1>a, <1>b, <1>2, <1>3, <1>4, <1>5, <1>6, <1>7, <1>8, <1>9, <1>10, <1>11, <1>12, <1>13,
     <1>14, <1>16, <1>17, <1>18, <1>19 DEF InspectNext, ReadLanguages, ReadCommit

-----------------------------------------------------------------------------
(* What becomes of the evidence.  Every step of the inspection has aspects *)
(* it has not come to; the others are settled.                             *)

Asked == IF job.target = "github" THEN {"repository", "languages", "commit", "sbom"}
         ELSE {"inventory", "languages", "sbom"}

Ahead(at) ==
    CASE at = "repository" -> {"repository", "languages", "commit", "sbom"}
      [] at = "languages" -> {"languages", "commit", "sbom"}
      [] at = "commit" -> {"commit", "sbom"}
      [] at \in {"walk", "files"} -> {"inventory", "languages", "sbom"}
      [] at = "sbom" -> {"sbom"}
      [] OTHER -> {}

Settled(a) == receipts[a] = "available" <=> gaps[a] = "none"
Untouched(a) == receipts[a] = "none" /\ gaps[a] = "none"

Ended == {"off", "aborted", "dead"}
Written == {"pointer", "target pointer", "done"}

EvidenceInv ==
    (step \notin Ended \/ stored # {}) =>
        \A a \in Asked : IF a \in Ahead(step) THEN Untouched(a) ELSE Settled(a)

\* From the first durable write on the inspection does not change its mind.
StoredInv ==
    /\ stored \subseteq {Snapshot}
    /\ stored # {} => step \in Written \cup {"dead"}
    /\ step \in Written => Snapshot \in stored
    /\ {latestProject, latestOfTarget} \ {NoSnapshot} \subseteq stored

\* Before that there is nothing in the store.
LEMMA NothingStored ==
    ASSUME StoredInv, step \notin Written \cup {"dead"}, UNCHANGED storage,
           step' \notin Written
    PROVE  StoredInv' /\ stored = {} /\ stored' = {}
BY DEF StoredInv, storage, Written

LEMMA AbortStores ==
    ASSUME StoredInv, step \notin Written \cup {"dead"}, Abort
    PROVE  StoredInv' /\ EvidenceInv' /\ stored' = {}
<1>1. StoredInv' /\ stored' = {}
  BY NothingStored DEF Abort, Written
<1>2. QED
  BY <1>1 DEF Abort, EvidenceInv, Ended

\* A step that says nothing about an aspect.
LEMMA EvidenceStays ==
    ASSUME StoredInv, EvidenceInv, step \notin Ended \cup Written, Ahead(step') = Ahead(step),
           UNCHANGED <<job, evidence, storage>>, step' \notin Written
    PROVE  StoredInv' /\ EvidenceInv'
<1>1. StoredInv'
  BY NothingStored DEF Ended
<1>2. Asked' = Asked /\ UNCHANGED <<receipts, gaps>>
  BY DEF Asked, evidence
<1>3. QED
  BY <1>1, <1>2 DEF EvidenceInv, Settled, Untouched

\* A step that settles aspects and leaves the others as they are.
Settles(S) ==
    /\ S \subseteq Ahead(step) /\ Ahead(step') = Ahead(step) \ S
    /\ \A a \in S : Untouched(a) => (receipts'[a] = "available" <=> gaps'[a] = "none")
    /\ \A a \in Aspects \ S : receipts'[a] = receipts[a] /\ gaps'[a] = gaps[a]

LEMMA EvidenceSettles ==
    ASSUME StoredInv, EvidenceInv, InspectTypes, step \notin Ended \cup Written,
           NEW S, Settles(S), UNCHANGED <<job, storage>>, step' \notin Written
    PROVE  StoredInv' /\ EvidenceInv'
<1>1. StoredInv'
  BY NothingStored DEF Ended
<1>2. Asked' = Asked /\ Asked \subseteq Aspects
  BY DEF Asked, Aspects
<1>3. ASSUME NEW a \in Asked, a \in S PROVE Settled(a)'
  BY <1>3 DEF EvidenceInv, Settled, Settles
<1>4. ASSUME NEW a \in Asked, a \notin S
      PROVE  IF a \in Ahead(step') THEN Untouched(a)' ELSE Settled(a)'
  BY <1>2, <1>4 DEF EvidenceInv, Settled, Untouched, Settles
<1>5. QED
  BY <1>1, <1>2, <1>3, <1>4 DEF EvidenceInv, Settles

LEMMA EvidenceStep ==
    InspectTypes /\ StoredInv /\ EvidenceInv /\ [InspectNext]_inspectVars
        => StoredInv' /\ EvidenceInv'
<1> SUFFICES ASSUME InspectTypes, StoredInv, EvidenceInv, [InspectNext]_inspectVars
             PROVE  StoredInv' /\ EvidenceInv'
  OBVIOUS
<1> USE DEF Ended, Written
<1>a. DOMAIN receipts = Aspects /\ DOMAIN gaps = Aspects
  BY DEF InspectTypes
<1>b. /\ "repository" \in Aspects /\ "languages" \in Aspects /\ "commit" \in Aspects
      /\ "inventory" \in Aspects /\ "sbom" \in Aspects
  BY DEF Aspects
<1>1. CASE ReadRepository
  <2>1. CASE Abort
    BY <1>1, <2>1, AbortStores DEF ReadRepository, Asks
  <2>2. CASE ~Abort
    <3>1. /\ step = "repository" /\ step' = "languages" /\ Available("repository")
          /\ UNCHANGED <<job, gaps, storage>>
      BY <1>1, <2>2 DEF ReadRepository, Asks
    <3>2. Ahead(step') = Ahead(step) \ {"repository"} /\ "repository" \in Ahead(step)
      BY <3>1 DEF Ahead
    <3>3. Untouched("repository") =>
              (receipts'["repository"] = "available" <=> gaps'["repository"] = "none")
      BY <1>a, <1>b, <3>1 DEF Untouched, Available
    <3>4. \A a \in Aspects \ {"repository"} : receipts'[a] = receipts[a] /\ gaps'[a] = gaps[a]
      BY <1>a, <3>1 DEF Available
    <3>5. Settles({"repository"})
      BY <3>2, <3>3, <3>4 DEF Settles
    <3>6. QED
      BY <3>1, <3>5, EvidenceSettles
  <2>3. QED
    BY <2>1, <2>2
<1>2. CASE ReadLanguages
  <2>1. /\ step = "languages" /\ step' = "commit"
        /\ Missing("languages", "error") \/ (Available("languages") /\ UNCHANGED gaps)
        /\ UNCHANGED <<job, storage>>
    BY <1>2 DEF ReadLanguages, ReadOptional, Asks
  <2>2. Ahead(step') = Ahead(step) \ {"languages"} /\ "languages" \in Ahead(step)
    BY <2>1 DEF Ahead
  <2>3. Untouched("languages") =>
            (receipts'["languages"] = "available" <=> gaps'["languages"] = "none")
    BY <1>a, <1>b, <2>1 DEF Untouched, Available, Missing
  <2>4. \A a \in Aspects \ {"languages"} : receipts'[a] = receipts[a] /\ gaps'[a] = gaps[a]
    BY <1>a, <2>1 DEF Available, Missing
  <2>5. Settles({"languages"})
    BY <2>2, <2>3, <2>4 DEF Settles
  <2>6. QED
    BY <2>1, <2>5, EvidenceSettles
<1>3. CASE ReadCommit
  <2>1. /\ step = "commit" /\ step' = "sbom"
        /\ Missing("commit", "error") \/ (Available("commit") /\ UNCHANGED gaps)
        /\ UNCHANGED <<job, storage>>
    BY <1>3 DEF ReadCommit, ReadOptional, Asks
  <2>2. Ahead(step') = Ahead(step) \ {"commit"} /\ "commit" \in Ahead(step)
    BY <2>1 DEF Ahead
  <2>3. Untouched("commit") =>
            (receipts'["commit"] = "available" <=> gaps'["commit"] = "none")
    BY <1>a, <1>b, <2>1 DEF Untouched, Available, Missing
  <2>4. \A a \in Aspects \ {"commit"} : receipts'[a] = receipts[a] /\ gaps'[a] = gaps[a]
    BY <1>a, <2>1 DEF Available, Missing
  <2>5. Settles({"commit"})
    BY <2>2, <2>3, <2>4 DEF Settles
  <2>6. QED
    BY <2>1, <2>5, EvidenceSettles
<1>4. ASSUME step = "sbom", step' \in {"components", "seal"}, UNCHANGED <<job, storage>>,
             Untouched("sbom") => (receipts'["sbom"] = "available" <=> gaps'["sbom"] = "none"),
             \A a \in Aspects \ {"sbom"} : receipts'[a] = receipts[a] /\ gaps'[a] = gaps[a]
      PROVE  StoredInv' /\ EvidenceInv'
  <2>1. Ahead(step') = Ahead(step) \ {"sbom"} /\ "sbom" \in Ahead(step)
    BY <1>4 DEF Ahead
  <2>2. Settles({"sbom"})
    BY <1>4, <2>1 DEF Settles
  <2>3. QED
    BY <1>4, <2>2, EvidenceSettles
<1>5. CASE AskForSbom
  <2>1. /\ step = "sbom" /\ UNCHANGED <<job, storage>>
        /\ \/ /\ step' = "components" /\ Available("sbom") /\ UNCHANGED gaps
           \/ /\ step' = "seal"
              /\ \E state \in {"pending", "unavailable", "error"} : Missing("sbom", state)
    BY <1>5 DEF AskForSbom, Asks, ParseDocument
  <2>2. Untouched("sbom") => (receipts'["sbom"] = "available" <=> gaps'["sbom"] = "none")
    BY <1>a, <1>b, <2>1 DEF Untouched, Available, Missing
  <2>3. \A a \in Aspects \ {"sbom"} : receipts'[a] = receipts[a] /\ gaps'[a] = gaps[a]
    BY <1>a, <2>1 DEF Available, Missing
  <2>4. QED
    BY <1>4, <2>1, <2>2, <2>3
<1>6. CASE ReadSuppliedSbom
  <2>1. /\ step = "sbom" /\ UNCHANGED <<job, storage, gaps>>
        /\ step' = "components" /\ Available("sbom")
    BY <1>6 DEF ReadSuppliedSbom, ParseDocument
  <2>2. Untouched("sbom") => (receipts'["sbom"] = "available" <=> gaps'["sbom"] = "none")
    BY <1>a, <1>b, <2>1 DEF Untouched, Available
  <2>3. \A a \in Aspects \ {"sbom"} : receipts'[a] = receipts[a] /\ gaps'[a] = gaps[a]
    BY <1>a, <2>1 DEF Available
  <2>4. QED
    BY <1>4, <2>1, <2>2, <2>3
<1>7. CASE NoSbomSupplied
  <2>1. /\ step = "sbom" /\ UNCHANGED <<job, storage, receipts>> /\ step' = "seal"
        /\ gaps' = [gaps EXCEPT !["sbom"] = "unavailable"]
    BY <1>7 DEF NoSbomSupplied
  <2>2. Untouched("sbom") => (receipts'["sbom"] = "available" <=> gaps'["sbom"] = "none")
    BY <1>a, <1>b, <2>1 DEF Untouched
  <2>3. \A a \in Aspects \ {"sbom"} : receipts'[a] = receipts[a] /\ gaps'[a] = gaps[a]
    BY <1>a, <2>1
  <2>4. QED
    BY <1>4, <2>1, <2>2, <2>3
<1>c. CASE SuppliedUnreadable
  <2>1. step = "sbom" /\ Abort
    BY <1>c DEF SuppliedUnreadable
  <2>2. QED
    BY <2>1, AbortStores
<1>8. CASE WalkEnds
  <2>1. /\ step = "walk" /\ step' = "sbom" /\ UNCHANGED <<job, storage>>
        /\ receipts' = [receipts EXCEPT !["inventory"] = "available"]
        /\ gaps' = [gaps EXCEPT !["languages"] = "unavailable"]
    BY <1>8 DEF WalkEnds
  <2>2. /\ Ahead(step') = Ahead(step) \ {"inventory", "languages"}
        /\ {"inventory", "languages"} \subseteq Ahead(step)
    BY <2>1 DEF Ahead
  <2>3. \A a \in {"inventory", "languages"} :
            Untouched(a) => (receipts'[a] = "available" <=> gaps'[a] = "none")
    BY <1>a, <1>b, <2>1 DEF Untouched
  <2>4. \A a \in Aspects \ {"inventory", "languages"} :
           receipts'[a] = receipts[a] /\ gaps'[a] = gaps[a]
    BY <1>a, <2>1
  <2>5. Settles({"inventory", "languages"})
    BY <2>2, <2>3, <2>4 DEF Settles
  <2>6. QED
    BY <2>1, <2>5, EvidenceSettles
<1>9. CASE UnsupportedFormat \/ VisitDirectory \/ ReadFile \/ ParseComponent \/ DocumentEnds
  <2>1. step \in {"walk", "files", "components"}
    BY <1>9 DEF UnsupportedFormat, VisitDirectory, ReadFile, ParseComponent, DocumentEnds
  <2>2. CASE Abort
    BY <2>1, <2>2, AbortStores
  <2>3. CASE ~Abort
    <3>1. /\ UNCHANGED <<job, evidence, storage>> /\ step' \notin Written
          /\ \/ step = "walk" /\ step' = "files"
             \/ step' = step
             \/ step = "components" /\ step' = "seal"
      BY <1>9, <2>1, <2>3
      DEF UnsupportedFormat, VisitDirectory, ReadFile, ParseComponent, DocumentEnds
    <3>2. Ahead(step') = Ahead(step)
      BY <2>1, <3>1 DEF Ahead
    <3>3. QED
      BY <2>1, <3>1, <3>2, EvidenceStays
  <2>4. QED
    BY <2>2, <2>3
<1>10. CASE DirectoryRead
  <2>1. /\ UNCHANGED <<job, evidence, storage>> /\ step = "files" /\ step' = "walk"
    BY <1>10 DEF DirectoryRead
  <2>2. Ahead(step') = Ahead(step)
    BY <2>1 DEF Ahead
  <2>3. QED
    BY <2>1, <2>2, EvidenceStays
<1>11. CASE StoreSnapshot \/ PointToProject \/ PointToTarget
  <2>1. /\ UNCHANGED <<job, evidence, facts, components>>
        /\ \/ /\ step = "seal" /\ step' = "pointer" /\ stored' = stored \cup {Snapshot}
              /\ UNCHANGED <<latestProject, latestOfTarget>>
           \/ /\ step \in Written /\ step' \in Written
              /\ UNCHANGED stored
              /\ {latestProject', latestOfTarget'}
                     \subseteq {latestProject, latestOfTarget, Snapshot}
    BY <1>11 DEF StoreSnapshot, PointToProject, PointToTarget, Writes, walk, sbom
  <2>2. Snapshot' = Snapshot /\ Asked' = Asked
    BY <2>1 DEF Snapshot, Asked, evidence
  <2>3. StoredInv'
    BY <2>1, <2>2 DEF StoredInv
  <2>4. Ahead(step) = {} /\ Ahead(step') = {}
    BY <2>1 DEF Ahead
  <2>5. EvidenceInv'
    BY <2>1, <2>2, <2>4 DEF EvidenceInv, Settled, evidence
  <2>6. QED
    BY <2>3, <2>5
<1>12. CASE Dies
  <2>1. /\ UNCHANGED <<job, evidence, facts, components, storage>>
        /\ step \notin Ended /\ step' = "dead"
    BY <1>12 DEF Dies, walk, sbom
  <2>2. Snapshot' = Snapshot /\ Asked' = Asked
    BY <2>1 DEF Snapshot, Asked, evidence
  <2>3. StoredInv'
    BY <2>1, <2>2 DEF StoredInv, storage
  <2>4. stored # {} => Ahead(step) = {} /\ Ahead(step') = {}
    BY <2>1 DEF Ahead, StoredInv
  <2>5. EvidenceInv'
    BY <2>1, <2>2, <2>4 DEF EvidenceInv, Settled, evidence, storage
  <2>6. QED
    BY <2>3, <2>5
<1>13. ASSUME NEW t, EditTree(t) PROVE StoredInv' /\ EvidenceInv'
  BY <1>13, EvidenceStays DEF EditTree
<1>14. CASE FilesChange \/ DirectoryVanishes \/ DirectoryAppears \/ DirectoryMoves
  BY <1>13, <1>14 DEF FilesChange, DirectoryVanishes, DirectoryAppears, DirectoryMoves
<1>15. CASE UNCHANGED inspectVars
  <2>1. /\ UNCHANGED <<job, step, receipts, gaps, facts, components, stored,
                       latestProject, latestOfTarget>>
    BY <1>15 DEF inspectVars
  <2>2. QED
    BY <2>1 DEF StoredInv, EvidenceInv, Snapshot, Asked, Ahead, Settled, Untouched
<1>16. QED
  BY <1>1, <1>2, <1>3, <1>5, <1>6, <1>7, <1>c, <1>8, <1>9, <1>10, <1>11, <1>12, <1>14,
     <1>15
  DEF InspectNext

LEMMA EvidenceInit == InspectInit => StoredInv /\ EvidenceInv
<1> SUFFICES ASSUME InspectInit PROVE StoredInv /\ EvidenceInv
  OBVIOUS
<1>1. StoredInv
  BY DEF InspectInit, StoredInv, Written
<1>2. Asked \subseteq Ahead(step) \/ step = "off"
  BY DEF InspectInit, Asked, Ahead, Jobs
<1>3. Asked \subseteq Aspects
  BY DEF Asked, Aspects
<1>4. EvidenceInv
  BY <1>2, <1>3 DEF InspectInit, EvidenceInv, Untouched, Ended
<1>5. QED
  BY <1>1, <1>4

\* A stored snapshot is what the inspection found, and accounts for it.
LEMMA StoredIsSnapshot ==
    ASSUME InspectTypes, StoredInv, EvidenceInv, NEW snapshot \in stored
    PROVE  snapshot = Snapshot /\ Accounted(snapshot)
<1>1. snapshot = Snapshot /\ step \in Written \cup {"dead"}
  BY DEF StoredInv
<1>2. Ahead(step) = {}
  BY <1>1 DEF Ahead, Written
<1>3. \A a \in Asked : receipts[a] = "available" <=> gaps[a] = "none"
  BY <1>2 DEF EvidenceInv, Settled
<1>4. /\ Snapshot.target = job.target
      /\ Snapshot.receipts = receipts /\ Snapshot.gaps = gaps
  BY DEF Snapshot
<1>5. QED
  BY <1>1, <1>3, <1>4 DEF Accounted, Asked

-----------------------------------------------------------------------------
(* The walk.  Every directory that is not skipped or below a link is read  *)
(* already, is the one being read, or lies in one that is waiting.         *)

QueuedIn(S, dir) == \E d \in S : d \in Above(dir)
Waiting == Elements(toVisit) \cup kept
Queued(dir) == QueuedIn(Waiting, dir)
Held(file) == file \in Elements(toRead) \/ Queued(file[1])
AlreadyRead == {f \in tree.files : f[1] \in WalkedDirs(tree) /\ ~Held(f)}
ManifestsIn(S) == {f \in S : f[2] = "manifest"}

\* What the walk may go to: every part was once listed as a directory to go on with.
Walked(path) == Inside(path) /\ Above(path) \subseteq treeDirs

\* What VisitDirectory asks of a directory.
Fits(dir) == Len(dir) <= MaxDepth /\ DirectoriesIn(dir) \cap tree.outer = {}

Walking == step \in {"walk", "files"}

WalkInv ==
    Walking =>
        /\ step = "walk" => toRead = <<>> /\ kept = {}
        /\ facts \subseteq treeEver /\ tree.files \subseteq treeEver
        /\ tree.dirs \ tree.links \subseteq treeDirs
        /\ treeAlways \subseteq PlainFiles(tree)
        /\ \A d \in Waiting : Walked(d)
        /\ \A f \in Elements(toRead) \cup facts : Walked(f[1])
        /\ \A f \in treeAlways :
              f[2] = "manifest" /\ Inside(f[1]) => f \in facts \/ Held(f)

\* What holds besides while nobody has edited the tree.
ExactInv ==
    Walking /\ treeEdits = 0 =>
        /\ Waiting \subseteq WalkedDirs(tree)
        /\ \A f \in Elements(toRead) : f \in tree.files /\ f[1] \in WalkedDirs(tree)
        /\ Distinct(toVisit) /\ Distinct(toRead) /\ Elements(toVisit) \cap kept = {}
        /\ \A a, b \in Waiting : a \in Above(b) => a = b
        /\ \A f \in Elements(toRead) : ~Queued(f[1])
        /\ \A d \in WalkedDirs(tree) : Fits(d) \/ Queued(d)
        /\ visited = Cardinality(AlreadyRead) /\ visited <= MaxFiles
        /\ \A f \in AlreadyRead : f[2] # "outer link"
        /\ facts = ManifestsIn(AlreadyRead) /\ Cardinality(facts) <= MaxManifests

Bracketed ==
    /\ facts \subseteq treeEver
    /\ \A f \in facts : Walked(f[1])
    /\ {f \in treeAlways : f[2] = "manifest" /\ Inside(f[1])} \subseteq facts
    /\ treeEdits = 0 => Walkable(tree)

\* Whatever comes after the walk, and where the walk was given up.
WalkedInv ==
    /\ (job.target = "local"
          /\ (step \in {"sbom", "components", "seal"} \cup Written \/ stored # {}))
              => Bracketed
    /\ (step = "aborted" /\ job.target = "local" /\ document = NoDocument
            /\ treeEdits = 0 /\ badReplies = 0) => ~Walkable(tree)

\* A document is known where one is parsed, and not before.
DocumentInv ==
    /\ step = "components" => document # NoDocument
    /\ step \in {"repository", "languages", "commit", "walk", "files", "sbom"}
          => document = NoDocument
    /\ receipts["sbom"] = "available" <=> document # NoDocument

LEMMA LimitsAreNumbers ==
    /\ MaxDepth \in Nat /\ MaxFiles \in Nat /\ MaxManifests \in Nat
    /\ MaxComponents \in Nat /\ MaxTreeEdits \in Nat /\ MaxBadReplies \in Nat
BY InspectionAssumption

LEMMA SmallerCount ==
    ASSUME NEW S, IsFiniteSet(S), NEW T \in SUBSET S, T # S
    PROVE  Cardinality(T) < Cardinality(S)
<1>1. /\ IsFiniteSet(T) /\ Cardinality(T) <= Cardinality(S)
      /\ Cardinality(S) = Cardinality(T) => S = T
  BY FS_Subset
<1>2. Cardinality(S) # Cardinality(T)
  BY <1>1
<1>3. PICK c \in Nat, d \in Nat : c = Cardinality(T) /\ d = Cardinality(S)
  BY <1>1, FS_CardinalityType
<1>4. QED
  BY <1>1, <1>2, <1>3

LEMMA FilesAreTyped ==
    ASSUME InspectTypes
    PROVE  /\ \A f \in tree.files : f[1] \in tree.dirs /\ f[1] \in Seq(STRING)
           /\ \A d \in tree.dirs : d \in Seq(STRING) /\ Above(d) \subseteq tree.dirs
           /\ IsFiniteSet(tree.files)
           /\ tree.links \subseteq tree.dirs \ {Root} /\ tree.outer \subseteq tree.links
<1>1. tree.dirs \subseteq Directories /\ tree.files \subseteq Files
  BY DEF InspectTypes, AnyTree
<1>2. IsFiniteSet(FileKinds)
  BY KindsInOrder
<1>3. IsFiniteSet(Files)
  BY <1>2, InspectionAssumption, FS_Product DEF Files
<1>4. QED
  BY <1>1, <1>3, InspectionAssumption, FS_Subset DEF InspectTypes, Rooted

\* Below a directory, everything the walk comes to lies in a subdirectory.
LEMMA Descend ==
    ASSUME InspectTypes, NEW dir, NEW p \in WalkedDirs(tree), dir \in Above(p), p # dir
    PROVE  QueuedIn(Subdirectories(dir), p)
<1>1. /\ p \in Seq(STRING) /\ Above(p) \subseteq tree.dirs
      /\ Inside(p) /\ Above(p) \cap tree.links = {}
  BY FilesAreTyped DEF WalkedDirs, Plain
<1>2. PICK c \in Above(p) :
          /\ c \in Seq(STRING) /\ c # Root
          /\ UpTo(c, Len(c) - 1) = dir
          /\ c[Len(c)] = p[Len(c)] /\ Len(c) \in 1 .. Len(p)
  BY <1>1, StepDown
<1>3. c[Len(c)] \notin Skipped
  BY <1>1, <1>2 DEF Inside
<1>4. c \in Subdirectories(dir)
  BY <1>1, <1>2, <1>3 DEF Subdirectories, DirectoriesIn, Parent
<1>5. QED
  BY <1>2, <1>4 DEF QueuedIn

LEMMA SubdirectoryFacts ==
    ASSUME InspectTypes, NEW dir, NEW c \in Subdirectories(dir)
    PROVE  /\ c \in Seq(STRING) /\ dir \in Seq(STRING) /\ dir \in Above(c)
           /\ c \in tree.dirs \ tree.links /\ Len(c) = Len(dir) + 1
           /\ \A r \in Above(c) : r = c \/ r \in Above(dir)
           /\ Inside(dir) => Inside(c)
           /\ tree.dirs \ tree.links \subseteq treeDirs /\ Walked(dir) => Walked(c)
           /\ dir \in WalkedDirs(tree) => c \in WalkedDirs(tree)
<1>1. /\ c \in tree.dirs \ tree.links /\ c # Root
      /\ UpTo(c, Len(c) - 1) = dir /\ c[Len(c)] \notin Skipped
  BY DEF Subdirectories, DirectoriesIn, Parent
<1>2. c \in Seq(STRING)
  BY <1>1, FilesAreTyped
<1>3. /\ dir \in Above(c) /\ dir \in Seq(STRING) /\ Len(c) = Len(dir) + 1
      /\ \A r \in Above(c) : r = c \/ r \in Above(dir)
  BY <1>1, <1>2, StepUp
<1>4. Inside(dir) => Inside(c)
  <2>1. \A n \in 1 .. Len(dir) : dir[n] = c[n]
    BY <1>2, <1>3, AboveMeans
  <2>2. \A n \in 1 .. Len(c) : n \in 1 .. Len(dir) \/ n = Len(c)
    BY <1>2, <1>3
  <2>3. QED
    BY <1>1, <2>1, <2>2 DEF Inside
<1>5. tree.dirs \ tree.links \subseteq treeDirs /\ Walked(dir) => Walked(c)
  BY <1>1, <1>3, <1>4 DEF Walked
<1>6. dir \in WalkedDirs(tree) => c \in WalkedDirs(tree)
  BY <1>1, <1>3, <1>4 DEF WalkedDirs, Plain
<1>7. QED
  BY <1>1, <1>2, <1>3, <1>4, <1>5, <1>6

\* Replacing a directory of the queue by its subdirectories loses nothing
\* below it,
LEMMA ListingKeeps ==
    ASSUME InspectTypes, NEW T, NEW dir, NEW p \in WalkedDirs(tree), p # dir,
           QueuedIn({dir} \cup T, p)
    PROVE  QueuedIn(Subdirectories(dir) \cup T, p)
<1>1. CASE dir \in Above(p)
  <2>1. QueuedIn(Subdirectories(dir), p)
    BY <1>1, Descend
  <2>2. QED
    BY <2>1 DEF QueuedIn
<1>2. CASE dir \notin Above(p)
  BY <1>2 DEF QueuedIn
<1>3. QED
  BY <1>1, <1>2

\* and adds nothing, where no directory of the queue lies in another.
LEMMA ListingAddsNothing ==
    ASSUME InspectTypes, NEW T, NEW dir, dir \in Seq(STRING), dir \notin T,
           \A b \in T : b \in Above(dir) => b = dir,
           NEW p, p \in Seq(STRING), QueuedIn(Subdirectories(dir) \cup T, p)
    PROVE  QueuedIn({dir} \cup T, p) /\ p # dir
<1>1. CASE QueuedIn(Subdirectories(dir), p)
  <2>1. PICK c \in Subdirectories(dir) : c \in Above(p)
    BY <1>1 DEF QueuedIn
  <2>2. c \in Seq(STRING) /\ dir \in Above(c) /\ Len(c) = Len(dir) + 1
    BY SubdirectoryFacts
  <2>3. dir \in Above(p)
    BY <2>1, <2>2, AboveAbove
  <2>4. Len(c) <= Len(p)
    BY <2>1, <2>2, AboveMeans
  <2>5. p # dir
    BY <2>2, <2>4
  <2>6. QED
    BY <2>3, <2>5 DEF QueuedIn
<1>2. CASE ~QueuedIn(Subdirectories(dir), p)
  <2>1. PICK b \in T : b \in Above(p)
    BY <1>2 DEF QueuedIn
  <2>2. QED
    BY <2>1 DEF QueuedIn
<1>3. QED
  BY <1>1, <1>2

\* Still no directory of the queue lies in another.
LEMMA ListingIsAntichain ==
    ASSUME InspectTypes, NEW T \in SUBSET Directories, NEW dir, dir \in Seq(STRING), dir \notin T,
           \A a, b \in {dir} \cup T : a \in Above(b) => a = b
    PROVE  \A x, y \in Subdirectories(dir) \cup T : x \in Above(y) => x = y
<1> SUFFICES ASSUME NEW x \in Subdirectories(dir) \cup T,
                    NEW y \in Subdirectories(dir) \cup T, x \in Above(y)
             PROVE  x = y
  OBVIOUS
<1>1. \A b \in T : b \in Seq(STRING) /\ dir \notin Above(b) /\ b \notin Above(dir)
  BY InspectionAssumption
<1>2. CASE x \in T /\ y \in T
  BY <1>2
<1>3. CASE y \in Subdirectories(dir)
  <2>1. x = y \/ x \in Above(dir)
    BY <1>3, SubdirectoryFacts
  <2>2. ASSUME x \in Above(dir) PROVE FALSE
    <3>1. x \in Subdirectories(dir)
      BY <1>1, <2>2
    <3>2. x \in Seq(STRING) /\ Len(x) = Len(dir) + 1
      BY <3>1, SubdirectoryFacts
    <3>3. Len(x) <= Len(dir)
      BY <2>2, <3>2, AboveMeans
    <3>4. QED
      BY <3>2, <3>3
  <2>3. QED
    BY <2>1, <2>2
<1>4. CASE x \in Subdirectories(dir) /\ y \in T
  <2>1. dir \in Above(x) /\ y \in Seq(STRING)
    BY <1>1, <1>4, SubdirectoryFacts
  <2>2. dir \in Above(y)
    BY <2>1, AboveAbove
  <2>3. QED
    BY <1>1, <1>4, <2>2
<1>5. QED
  BY <1>2, <1>3, <1>4

LEMMA SubdirectoriesApart ==
    ASSUME InspectTypes, NEW T, NEW dir, dir \notin T,
           \A a, b \in {dir} \cup T : a \in Above(b) => a = b
    PROVE  Subdirectories(dir) \cap T = {}
<1> SUFFICES ASSUME NEW c \in Subdirectories(dir), c \in T PROVE FALSE
  OBVIOUS
<1>1. dir \in Above(c)
  BY SubdirectoryFacts
<1>2. QED
  BY <1>1

LEMMA VisitStep ==
    ASSUME InspectTypes, WalkInv, ExactInv, VisitDirectory, ~Abort
    PROVE  WalkInv' /\ ExactInv'
<1> PICK dir : dir = Head(toVisit)
  OBVIOUS
<1> PICK T : T = Elements(Tail(toVisit))
  OBVIOUS
<1> PICK S : S = Subdirectories(dir)
  OBVIOUS
<1>1. /\ step = "walk" /\ step' = "files" /\ toVisit # <<>> /\ toRead = <<>> /\ kept = {}
      /\ dir \in tree.dirs /\ Fits(dir)
      /\ toVisit' = Tail(toVisit) /\ kept' = S
      /\ toRead' = [n \in 1 .. Len(Sorted(tree, dir)) |-> <<dir, Sorted(tree, dir)[n]>>]
      /\ UNCHANGED <<tree, treeEver, treeAlways, treeDirs, visited, facts, treeEdits>>
  <2>1. step = "walk" /\ toVisit # <<>> /\ toRead = <<>> /\ kept = {}
    BY DEF VisitDirectory, WalkInv, Walking
  <2>2. dir \in tree.dirs /\ ~(Len(dir) > MaxDepth) /\ DirectoriesIn(dir) \cap tree.outer = {}
    BY DEF VisitDirectory
  <2>3. Fits(dir)
    <3>1. Len(dir) \in Nat
      BY <2>2, FilesAreTyped
    <3>2. QED
      BY <2>2, <3>1, LimitsAreNumbers DEF Fits
  <2>4. /\ step' = "files" /\ toVisit' = Tail(toVisit) /\ kept' = S
        /\ toRead' = [n \in 1 .. Len(Sorted(tree, dir)) |-> <<dir, Sorted(tree, dir)[n]>>]
        /\ UNCHANGED <<tree, treeEver, treeAlways, treeDirs, visited, facts, treeEdits>>
    BY <2>2 DEF VisitDirectory, project
  <2>5. QED
    BY <2>1, <2>2, <2>3, <2>4
<1>2. /\ dir \in Directories /\ dir \in Seq(STRING)
      /\ Tail(toVisit) \in Seq(Directories) /\ T \subseteq Directories
      /\ Elements(toVisit) = {dir} \cup T
      /\ Distinct(toVisit) => Distinct(Tail(toVisit)) /\ dir \notin T
  <2>1. /\ dir \in Directories /\ Tail(toVisit) \in Seq(Directories)
        /\ Elements(toVisit) = {dir} \cup T
        /\ Distinct(toVisit) => Distinct(Tail(toVisit)) /\ dir \notin T
    BY <1>1, TailElements DEF InspectTypes
  <2>2. T \subseteq Directories
    BY <2>1 DEF Elements
  <2>3. QED
    BY <2>1, <2>2, InspectionAssumption
<1>3. Waiting = {dir} \cup T
  BY <1>1, <1>2 DEF Waiting
<1>4. Elements(toVisit)' = T /\ Waiting' = S \cup T
  BY <1>1 DEF Waiting, Elements
<1>5. /\ Elements(toRead') = {f \in tree.files : f[1] = dir} /\ Distinct(toRead')
  BY <1>1, <1>2, ListingType
<1>6. Elements(toRead) = {} /\ Elements(toRead)' = {f \in tree.files : f[1] = dir}
  <2>1. Elements(toRead) = {}
    BY <1>1 DEF Elements
  <2>2. Elements(toRead)' = Elements(toRead')
    BY DEF Elements
  <2>3. QED
    BY <1>5, <2>1, <2>2
<1>7. Walked(dir) /\ \A p : Walked(p)' <=> Walked(p)
  BY <1>1, <1>3 DEF WalkInv, Walking, Walked
<1>8. \A p : Queued(p) <=> QueuedIn({dir} \cup T, p)
  BY <1>3 DEF Queued
<1>9. \A p : Queued(p)' <=> QueuedIn(S \cup T, p)
  BY <1>4 DEF Queued, QueuedIn
<1>10. \A p \in WalkedDirs(tree) : p # dir /\ Queued(p) => Queued(p)'
  BY <1>8, <1>9, ListingKeeps
<1>11. WalkInv'
  <2>1. \A d \in S \cup T : Walked(d)
    BY <1>1, <1>3, <1>7, SubdirectoryFacts DEF WalkInv, Walking
  <2>2. ASSUME NEW f \in treeAlways, f[2] = "manifest", Inside(f[1])
        PROVE  f \in facts \/ f \in Elements(toRead)' \/ Queued(f[1])'
    <3>1. f \in PlainFiles(tree)
      BY <1>1 DEF WalkInv, Walking
    <3>2. f \in tree.files /\ f[1] \in WalkedDirs(tree)
      BY <2>2, <3>1, FilesAreTyped DEF PlainFiles, WalkedDirs
    <3>3. f \in facts \/ Queued(f[1])
      BY <1>1, <1>6, <2>2 DEF WalkInv, Walking, Held
    <3>4. QED
      BY <1>6, <1>10, <3>2, <3>3
  <2>3. \A f \in Elements(toRead)' \cup facts : Walked(f[1])
    BY <1>1, <1>6, <1>7 DEF WalkInv, Walking
  <2>4. PlainFiles(tree)' = PlainFiles(tree)
    BY <1>1 DEF PlainFiles, Plain
  <2>5. /\ facts \subseteq treeEver /\ tree.files \subseteq treeEver
        /\ tree.dirs \ tree.links \subseteq treeDirs /\ treeAlways \subseteq PlainFiles(tree)
    BY <1>1 DEF WalkInv, Walking
  <2>6. QED
    BY <1>1, <1>4, <1>7, <2>1, <2>2, <2>3, <2>4, <2>5 DEF WalkInv, Held
<1>12. ASSUME treeEdits = 0 PROVE ExactInv'
  <2>1. /\ {dir} \cup T \subseteq WalkedDirs(tree) /\ Distinct(toVisit)
        /\ \A a, b \in {dir} \cup T : a \in Above(b) => a = b
        /\ \A d \in WalkedDirs(tree) : Fits(d) \/ Queued(d)
        /\ visited = Cardinality(AlreadyRead) /\ visited <= MaxFiles
        /\ \A f \in AlreadyRead : f[2] # "outer link"
        /\ facts = ManifestsIn(AlreadyRead) /\ Cardinality(facts) <= MaxManifests
    BY <1>1, <1>3, <1>12 DEF ExactInv, Walking
  <2>2. dir \notin T /\ Distinct(Tail(toVisit))
    BY <1>2, <2>1
  <2>3. S \cap T = {}
    BY <2>1, <2>2, SubdirectoriesApart
  <2>4. Distinct(toVisit)' /\ Distinct(toRead)'
    BY <1>1, <1>5, <2>2 DEF Distinct
  <2>5. \A a, b \in S \cup T : a \in Above(b) => a = b
    <3>1. T \in SUBSET Directories /\ dir \in Seq(STRING)
      BY <1>2
    <3>2. \A a, b \in {dir} \cup T : a \in Above(b) => a = b
      BY <2>1
    <3>3. \A a, b \in Subdirectories(dir) \cup T : a \in Above(b) => a = b
      BY <2>2, <3>1, <3>2, ListingIsAntichain
    <3>4. QED
      BY <3>3
  <2>6. \A p \in Seq(STRING) : Queued(p)' => Queued(p) /\ p # dir
    <3>1. \A b \in T : b \in Above(dir) => b = dir
      BY <2>1
    <3>2. QED
      BY <1>2, <1>8, <1>9, <2>2, <3>1, ListingAddsNothing
  <2>7. S \cup T \subseteq WalkedDirs(tree) /\ dir \in WalkedDirs(tree)
    BY <2>1, SubdirectoryFacts
  <2>8. \A f \in tree.files : f[1] = dir => ~Queued(f[1])'
    BY <1>2, <2>6
  <2>9. \A d \in WalkedDirs(tree) : Fits(d) \/ Queued(d)'
    BY <1>1, <1>10, <2>1
  <2>10. ASSUME NEW f \in tree.files, f[1] \in WalkedDirs(tree)
         PROVE  Held(f)' <=> Held(f)
    <3>1. f[1] \in Seq(STRING)
      BY FilesAreTyped
    <3>2. CASE f[1] = dir
      <4>1. dir \in Above(dir)
        BY <1>2, AboveSelf
      <4>2. Queued(dir)
        BY <1>8, <4>1 DEF QueuedIn
      <4>3. QED
        BY <1>6, <3>2, <4>2 DEF Held
    <3>3. CASE f[1] # dir
      BY <1>6, <1>10, <2>6, <2>10, <3>1, <3>3 DEF Held
    <3>4. QED
      BY <3>2, <3>3
  <2>11. WalkedDirs(tree)' = WalkedDirs(tree) /\ \A d : Fits(d)' <=> Fits(d)
    BY <1>1 DEF WalkedDirs, Plain, Fits, DirectoriesIn
  <2>12. AlreadyRead' = AlreadyRead
    BY <1>1, <2>10, <2>11 DEF AlreadyRead
  <2>13. ManifestsIn(AlreadyRead)' = ManifestsIn(AlreadyRead)
    BY <2>12 DEF ManifestsIn
  <2>14. \A f \in Elements(toRead)' :
            f \in tree.files /\ f[1] \in WalkedDirs(tree) /\ ~Queued(f[1])'
    BY <1>6, <2>7, <2>8
  <2>15. Elements(toVisit)' \cap kept' = {}
    BY <1>1, <1>4, <2>3
  <2>16. QED
    BY <1>1, <1>4, <2>1, <2>4, <2>5, <2>7, <2>9, <2>11, <2>12, <2>13, <2>14, <2>15
    DEF ExactInv, Walking
<1>13. QED
  BY <1>1, <1>11, <1>12 DEF ExactInv

LEMMA ReadStep ==
    ASSUME InspectTypes, WalkInv, ExactInv, ReadFile, ~Abort
    PROVE  WalkInv' /\ ExactInv'
<1>a. PICK file : file = Head(toRead)
  OBVIOUS
<1>b. PICK T : T = Elements(Tail(toRead))
  OBVIOUS
<1>1. /\ step = "files" /\ step' = "files" /\ toRead # <<>> /\ toRead' = Tail(toRead)
      /\ UNCHANGED <<tree, treeEver, treeAlways, treeDirs, toVisit, kept, treeEdits>>
      /\ visited # MaxFiles /\ visited' = visited + 1
      /\ file[2] = "outer link" => file \notin tree.files
      /\ file[2] = "manifest" =>
            file \in tree.files /\ ~(Cardinality(facts \cup {file}) > MaxManifests)
      /\ facts' = IF file[2] = "manifest" THEN facts \cup {file} ELSE facts
  BY <1>a DEF ReadFile, project, ReadsRegular
<1>2. /\ Elements(toRead) = {file} \cup T
      /\ Distinct(toRead) => Distinct(Tail(toRead)) /\ file \notin T
  BY <1>a, <1>b, <1>1, TailElements DEF InspectTypes
<1>3. Elements(toRead)' = T /\ Elements(toVisit)' = Elements(toVisit) /\ Waiting' = Waiting
  BY <1>b, <1>1 DEF Elements, Waiting
<1>4. \A p : Queued(p)' <=> Queued(p)
  BY <1>3 DEF Queued
<1>5. \A f : Held(f) <=> Held(f)' \/ f = file
  BY <1>2, <1>3, <1>4 DEF Held
<1>6. WalkInv'
  <2>1. \A p : Walked(p)' <=> Walked(p)
    BY <1>1 DEF Walked
  <2>2. PlainFiles(tree)' = PlainFiles(tree)
    BY <1>1 DEF PlainFiles, Plain
  <2>3. /\ facts \subseteq treeEver /\ tree.files \subseteq treeEver
        /\ tree.dirs \ tree.links \subseteq treeDirs
        /\ treeAlways \subseteq PlainFiles(tree)
        /\ \A d \in Waiting : Walked(d)
        /\ \A f \in {file} \cup T \cup facts : Walked(f[1])
        /\ \A f \in treeAlways :
              f[2] = "manifest" /\ Inside(f[1]) => f \in facts \/ Held(f)
    BY <1>1, <1>2 DEF WalkInv, Walking
  <2>4. facts' \subseteq treeEver /\ facts \subseteq facts' /\ facts' \subseteq facts \cup {file}
    BY <1>1, <2>3
  <2>5. \A f \in treeAlways :
           f[2] = "manifest" /\ Inside(f[1]) => f \in facts' \/ Held(f)'
    BY <1>1, <1>5, <2>3
  <2>6. \A f \in T \cup facts' : Walked(f[1])
    BY <2>3, <2>4
  <2>7. QED
    BY <1>1, <1>3, <2>1, <2>2, <2>3, <2>4, <2>5, <2>6 DEF WalkInv
<1>7. ASSUME treeEdits = 0 PROVE ExactInv'
  <2>1. /\ Waiting \subseteq WalkedDirs(tree)
        /\ \A f \in {file} \cup T : f \in tree.files /\ f[1] \in WalkedDirs(tree)
        /\ Distinct(toVisit) /\ Distinct(toRead) /\ Elements(toVisit) \cap kept = {}
        /\ \A a, b \in Waiting : a \in Above(b) => a = b
        /\ \A f \in {file} \cup T : ~Queued(f[1])
        /\ \A d \in WalkedDirs(tree) : Fits(d) \/ Queued(d)
        /\ visited = Cardinality(AlreadyRead) /\ visited <= MaxFiles
        /\ \A f \in AlreadyRead : f[2] # "outer link"
        /\ facts = ManifestsIn(AlreadyRead) /\ Cardinality(facts) <= MaxManifests
    BY <1>1, <1>2, <1>7 DEF ExactInv, Walking
  <2>2. file \notin T /\ Distinct(toRead')
    BY <1>1, <1>2, <2>1
  <2>3. WalkedDirs(tree)' = WalkedDirs(tree) /\ \A d : Fits(d)' <=> Fits(d)
    BY <1>1 DEF WalkedDirs, Plain, Fits, DirectoriesIn
  <2>4. ~Held(file)' /\ Held(file)
    BY <1>2, <1>3, <1>4, <2>1, <2>2 DEF Held
  <2>5. AlreadyRead' = AlreadyRead \cup {file} /\ file \notin AlreadyRead
    BY <1>1, <1>5, <2>1, <2>3, <2>4 DEF AlreadyRead
  <2>6. IsFiniteSet(AlreadyRead)
    BY FilesAreTyped, FS_Subset DEF AlreadyRead
  <2>7. Cardinality(AlreadyRead') = Cardinality(AlreadyRead) + 1
    BY <2>5, <2>6, FS_AddElement
  <2>8. visited' = Cardinality(AlreadyRead') /\ visited' <= MaxFiles
    <3>1. visited' = Cardinality(AlreadyRead')
      BY <1>1, <2>1, <2>7
    <3>2. visited \in Nat
      BY DEF InspectTypes
    <3>3. visited # MaxFiles /\ visited <= MaxFiles /\ visited' = visited + 1
      BY <1>1, <2>1
    <3>4. visited' <= MaxFiles
      BY <3>2, <3>3, LimitsAreNumbers
    <3>5. QED
      BY <3>1, <3>4
  <2>9. \A f \in AlreadyRead' : f[2] # "outer link"
    BY <1>1, <2>1, <2>5
  <2>10. Distinct(toVisit)' /\ Distinct(toRead)'
    BY <1>1, <2>1, <2>2 DEF Distinct
  <2>11. facts' = ManifestsIn(AlreadyRead)'
    BY <1>1, <2>1, <2>5 DEF ManifestsIn
  <2>12. Cardinality(facts') <= MaxManifests
    <3>1. CASE file[2] = "manifest"
      <4>1. facts' = facts \cup {file} /\ ~(Cardinality(facts \cup {file}) > MaxManifests)
        BY <1>1, <3>1
      <4>2. IsFiniteSet(facts \cup {file})
        <5>1. IsFiniteSet(AlreadyRead \cup {file})
          BY <2>6, FS_AddElement
        <5>2. facts \cup {file} \in SUBSET (AlreadyRead \cup {file})
          BY <2>1 DEF ManifestsIn
        <5>3. QED
          BY <5>1, <5>2, FS_Subset
      <4>3. Cardinality(facts \cup {file}) \in Nat
        BY <4>2, FS_CardinalityType
      <4>4. QED
        BY <4>1, <4>3, LimitsAreNumbers
    <3>2. CASE file[2] # "manifest"
      BY <1>1, <2>1, <3>2
    <3>3. QED
      BY <3>1, <3>2
  <2>13. /\ Waiting' \subseteq WalkedDirs(tree)' /\ Elements(toVisit)' \cap kept' = {}
         /\ \A f \in Elements(toRead)' :
               f \in tree'.files /\ f[1] \in WalkedDirs(tree)' /\ ~Queued(f[1])'
         /\ \A d \in WalkedDirs(tree)' : Fits(d)' \/ Queued(d)'
         /\ \A a, b \in Waiting' : a \in Above(b) => a = b
    BY <1>1, <1>3, <1>4, <2>1, <2>3
  <2>14. QED
    BY <2>8, <2>9, <2>10, <2>11, <2>12, <2>13 DEF ExactInv
<1>8. QED
  BY <1>1, <1>6, <1>7 DEF ExactInv

\* The subdirectories join the queue; a link among them is one that has replaced
\* a directory since it was listed.
LEMMA QueueStep ==
    ASSUME InspectTypes, WalkInv, ExactInv, DirectoryRead
    PROVE  WalkInv' /\ ExactInv'
<1> PICK S : S = kept \ tree.links
  OBVIOUS
<1>1. /\ step = "files" /\ step' = "walk" /\ toRead = <<>> /\ toRead' = <<>>
      /\ toVisit' = SetToSeq(S) \o toVisit /\ kept' = {}
      /\ UNCHANGED <<tree, treeEver, treeAlways, treeDirs, visited, facts, treeEdits>>
  BY DEF DirectoryRead, project
<1>2. /\ SetToSeq(S) \in Seq(Directories) /\ Elements(SetToSeq(S)) = S /\ Distinct(SetToSeq(S))
      /\ toVisit \in Seq(Directories)
  <2>1. S \in SUBSET Directories /\ toVisit \in Seq(Directories)
    BY DEF InspectTypes
  <2>2. QED
    BY <2>1, QueueingType
<1>3. /\ Elements(toVisit') = S \cup Elements(toVisit)
      /\ Distinct(toVisit) /\ S \cap Elements(toVisit) = {} => Distinct(toVisit')
  <2> PICK u : u = SetToSeq(S)
    OBVIOUS
  <2> PICK v : v = toVisit
    OBVIOUS
  <2>1. u \in Seq(Directories) /\ v \in Seq(Directories)
    BY <1>2
  <2>2. /\ Elements(u \o v) = Elements(u) \cup Elements(v)
        /\ Distinct(u) /\ Distinct(v) /\ Elements(u) \cap Elements(v) = {}
              => Distinct(u \o v)
    <3>1. ASSUME NEW s \in Seq(Directories), NEW t \in Seq(Directories)
          PROVE  /\ Elements(s \o t) = Elements(s) \cup Elements(t)
                 /\ Distinct(s) /\ Distinct(t) /\ Elements(s) \cap Elements(t) = {}
                       => Distinct(s \o t)
      BY ConcatElements
    <3>2. QED
      BY <2>1, <3>1
  <2>3. toVisit' = u \o v /\ Elements(u) = S /\ Distinct(u)
    BY <1>1, <1>2
  <2>4. QED
    BY <2>2, <2>3
<1>4. /\ Elements(toVisit)' = S \cup Elements(toVisit) /\ Waiting' = S \cup Elements(toVisit)
      /\ Elements(toRead) = {} /\ Elements(toRead)' = {}
  <2>1. Elements(toVisit)' = Elements(toVisit')
    BY DEF Elements
  <2>2. Elements(toRead) = {} /\ Elements(toRead)' = {}
    BY <1>1 DEF Elements
  <2>3. QED
    BY <1>1, <1>3, <2>1, <2>2 DEF Waiting
<1>5. \A p : Plain(tree, p) /\ Queued(p) => Queued(p)'
  <2>1. ASSUME NEW p, Plain(tree, p), NEW d \in Waiting, d \in Above(p)
        PROVE  d \in Waiting'
    BY <1>4, <2>1 DEF Plain, Waiting
  <2>2. QED
    BY <2>1 DEF Queued, QueuedIn
<1>6. WalkInv'
  <2>1. /\ facts \subseteq treeEver /\ tree.files \subseteq treeEver
        /\ tree.dirs \ tree.links \subseteq treeDirs
        /\ treeAlways \subseteq PlainFiles(tree)
        /\ \A d \in Waiting : Walked(d)
        /\ \A f \in facts : Walked(f[1])
        /\ \A f \in treeAlways :
              f[2] = "manifest" /\ Inside(f[1]) => f \in facts \/ Held(f)
    BY <1>1 DEF WalkInv, Walking
  <2>2. PlainFiles(tree)' = PlainFiles(tree) /\ \A p : Walked(p)' <=> Walked(p)
    BY <1>1 DEF PlainFiles, Plain, Walked
  <2>3. \A f \in treeAlways :
           f[2] = "manifest" /\ Inside(f[1]) => f \in facts \/ Queued(f[1])'
    <3>1. TAKE f \in treeAlways
    <3>2. HAVE f[2] = "manifest" /\ Inside(f[1])
    <3>3. f \in facts \/ Queued(f[1])
      BY <1>4, <2>1, <3>2 DEF Held
    <3>4. Plain(tree, f[1])
      BY <2>1 DEF PlainFiles
    <3>5. QED
      BY <1>5, <3>3, <3>4
  <2>4. \A d \in Waiting' : Walked(d)
    BY <1>4, <2>1 DEF Waiting
  <2>5. QED
    BY <1>1, <1>4, <2>1, <2>2, <2>3, <2>4 DEF WalkInv, Held
<1>7. ASSUME treeEdits = 0 PROVE ExactInv'
  <2>1. /\ Waiting \subseteq WalkedDirs(tree)
        /\ Distinct(toVisit) /\ Elements(toVisit) \cap kept = {}
        /\ \A a, b \in Waiting : a \in Above(b) => a = b
        /\ \A d \in WalkedDirs(tree) : Fits(d) \/ Queued(d)
        /\ visited = Cardinality(AlreadyRead) /\ visited <= MaxFiles
        /\ \A f \in AlreadyRead : f[2] # "outer link"
        /\ facts = ManifestsIn(AlreadyRead) /\ Cardinality(facts) <= MaxManifests
    BY <1>1, <1>7 DEF ExactInv, Walking
  <2>2. S = kept
    <3>1. SUFFICES ASSUME NEW d \in kept PROVE d \notin tree.links
      OBVIOUS
    <3>2. d \in WalkedDirs(tree) /\ d \in tree.dirs
      BY <2>1 DEF Waiting, WalkedDirs
    <3>3. d \in Above(d)
      BY <3>2, FilesAreTyped, AboveSelf
    <3>4. QED
      BY <3>2, <3>3 DEF WalkedDirs, Plain
  <2>3. Waiting' = Waiting
    BY <1>4, <2>2 DEF Waiting
  <2>4. Distinct(toVisit)' /\ Distinct(toRead)'
    <3>1. Distinct(toVisit')
      BY <1>3, <2>1, <2>2
    <3>2. Distinct(toVisit)'
      BY <3>1 DEF Distinct
    <3>3. Distinct(toRead)'
      BY <1>1 DEF Distinct
    <3>4. QED
      BY <3>2, <3>3
  <2>5. \A p : Queued(p)' <=> Queued(p)
    BY <2>3 DEF Queued
  <2>6. \A f : Held(f)' <=> Held(f)
    BY <1>4, <2>5 DEF Held
  <2>7. WalkedDirs(tree)' = WalkedDirs(tree) /\ \A d : Fits(d)' <=> Fits(d)
    BY <1>1 DEF WalkedDirs, Plain, Fits, DirectoriesIn
  <2>8. AlreadyRead' = AlreadyRead
    BY <1>1, <2>6, <2>7 DEF AlreadyRead
  <2>9. ManifestsIn(AlreadyRead)' = ManifestsIn(AlreadyRead)
    BY <2>8 DEF ManifestsIn
  <2>10. QED
    BY <1>1, <1>4, <2>1, <2>3, <2>4, <2>5, <2>7, <2>8, <2>9 DEF ExactInv
<1>8. QED
  BY <1>1, <1>6, <1>7 DEF ExactInv

\* Giving the walk up without an edit shows a limit that is exceeded.
LEMMA VisitAborts ==
    ASSUME InspectTypes, WalkInv, ExactInv, treeEdits = 0,
           step = "walk", toVisit # <<>>,
           \/ Head(toVisit) \notin tree.dirs \/ Len(Head(toVisit)) > MaxDepth
           \/ DirectoriesIn(Head(toVisit)) \cap tree.outer # {}
    PROVE  ~Walkable(tree)
<1> PICK dir : dir = Head(toVisit)
  OBVIOUS
<1>1. dir \in Waiting
  <2>1. Elements(toVisit) = {dir} \cup Elements(Tail(toVisit))
    BY TailElements DEF InspectTypes
  <2>2. QED
    BY <2>1 DEF Waiting
<1>2. dir \in WalkedDirs(tree) /\ dir \in tree.dirs
  BY <1>1 DEF ExactInv, Walking, WalkedDirs
<1>3. CASE Len(dir) > MaxDepth
  <2>1. Len(dir) \in Nat
    BY <1>2, FilesAreTyped
  <2>2. ~(Len(dir) <= MaxDepth)
    BY <1>3, <2>1, LimitsAreNumbers
  <2>3. QED
    BY <1>2, <2>2 DEF Walkable
<1>4. CASE DirectoriesIn(dir) \cap tree.outer # {}
  <2>1. PICK d \in tree.outer : Parent(d) = dir
    BY <1>4 DEF DirectoriesIn
  <2>2. QED
    BY <1>2, <2>1 DEF Walkable
<1>5. QED
  BY <1>2, <1>3, <1>4

Refused(file) ==
    \/ visited = MaxFiles \/ file[2] = "outer link" \/ file \notin tree.files
    \/ file[2] = "manifest" /\ Cardinality(facts \cup {file}) > MaxManifests

LEMMA ReadAborts ==
    ASSUME InspectTypes, WalkInv, ExactInv, treeEdits = 0,
           step = "files", toRead # <<>>, Refused(Head(toRead))
    PROVE  ~Walkable(tree)
<1> PICK file : file = Head(toRead)
  OBVIOUS
<1> PICK within : within = {f \in tree.files : f[1] \in WalkedDirs(tree)}
  OBVIOUS
<1>1. file \in Elements(toRead)
  <2>1. Elements(toRead) = {file} \cup Elements(Tail(toRead))
    BY TailElements DEF InspectTypes
  <2>2. QED
    BY <2>1
<1>2. file \in tree.files /\ file[1] \in WalkedDirs(tree) /\ Held(file)
  BY <1>1 DEF ExactInv, Walking, Held
<1>3. file \in within /\ file \notin AlreadyRead /\ AlreadyRead \subseteq within
  BY <1>2 DEF AlreadyRead
<1>4. IsFiniteSet(within)
  BY FilesAreTyped, FS_Subset
<1>5. SUFFICES ASSUME Cardinality(within) <= MaxFiles,
                      Cardinality(ManifestsIn(within)) <= MaxManifests,
                      \A f \in within : f[2] # "outer link"
               PROVE  FALSE
  BY DEF Walkable, ManifestsIn
<1>6. CASE visited = MaxFiles
  <2>1. AlreadyRead \in SUBSET within /\ AlreadyRead # within
    BY <1>3
  <2>2. Cardinality(AlreadyRead) < Cardinality(within)
    BY <1>4, <2>1, SmallerCount
  <2>3. Cardinality(AlreadyRead) = MaxFiles
    BY <1>6 DEF ExactInv, Walking
  <2>4. PICK c \in Nat : c = Cardinality(within)
    BY <1>4, FS_CardinalityType
  <2>5. c <= MaxFiles /\ MaxFiles < c
    BY <1>5, <2>2, <2>3, <2>4
  <2>6. QED
    BY <2>4, <2>5, LimitsAreNumbers
<1>7. CASE file[2] = "manifest" /\ Cardinality(facts \cup {file}) > MaxManifests
  <2>1. facts = ManifestsIn(AlreadyRead)
    BY DEF ExactInv, Walking
  <2>2. facts \cup {file} \in SUBSET ManifestsIn(within)
    BY <1>3, <1>7, <2>1 DEF ManifestsIn
  <2>3. IsFiniteSet(ManifestsIn(within))
    BY <1>4, FS_Subset DEF ManifestsIn
  <2>4. /\ IsFiniteSet(facts \cup {file})
        /\ Cardinality(facts \cup {file}) <= Cardinality(ManifestsIn(within))
    BY <2>2, <2>3, FS_Subset
  <2>5. PICK c \in Nat, d \in Nat :
            c = Cardinality(facts \cup {file}) /\ d = Cardinality(ManifestsIn(within))
    BY <2>3, <2>4, FS_CardinalityType
  <2>6. c > MaxManifests /\ c <= d /\ d <= MaxManifests
    BY <1>5, <1>7, <2>4, <2>5
  <2>7. QED
    BY <2>5, <2>6, LimitsAreNumbers
<1>8. QED
  BY <1>2, <1>3, <1>5, <1>6, <1>7 DEF Refused

\* The walk ends where everything is read.
LEMMA WalkIsComplete ==
    ASSUME InspectTypes, WalkInv, ExactInv, step = "walk", toVisit = <<>>
    PROVE  Bracketed
<1>1. toRead = <<>> /\ Waiting = {} /\ Elements(toRead) = {}
  BY DEF WalkInv, Walking, Waiting, Elements
<1>2. \A p : ~Queued(p)
  BY <1>1 DEF Queued, QueuedIn
<1>3. \A f : ~Held(f)
  BY <1>1, <1>2 DEF Held
<1>4. ASSUME treeEdits = 0 PROVE Walkable(tree)
  <2>1. /\ \A d \in WalkedDirs(tree) : Fits(d)
        /\ Cardinality(AlreadyRead) <= MaxFiles
        /\ \A f \in AlreadyRead : f[2] # "outer link"
        /\ Cardinality(ManifestsIn(AlreadyRead)) <= MaxManifests
    BY <1>2, <1>4 DEF ExactInv, Walking
  <2>2. AlreadyRead = {f \in tree.files : f[1] \in WalkedDirs(tree)}
    BY <1>3 DEF AlreadyRead
  <2>3. \A d \in tree.outer : Parent(d) \notin WalkedDirs(tree)
    <3>1. SUFFICES ASSUME NEW d \in tree.outer, Parent(d) \in WalkedDirs(tree) PROVE FALSE
      OBVIOUS
    <3>2. d \in tree.dirs \ {Root}
      BY FilesAreTyped
    <3>3. d \in DirectoriesIn(Parent(d))
      BY <3>2 DEF DirectoriesIn
    <3>4. QED
      BY <2>1, <3>1, <3>3 DEF Fits
  <2>4. QED
    BY <2>1, <2>2, <2>3 DEF Walkable, Fits, ManifestsIn
<1>5. QED
  BY <1>3, <1>4 DEF WalkInv, Walking, Bracketed

WalkingInv == WalkInv /\ ExactInv /\ WalkedInv

\* The walk, or what it left, where nothing of it changes.
LEMMA WalkStays ==
    ASSUME InspectTypes, StoredInv, WalkingInv,
           UNCHANGED <<project, walk, job, treeEdits>>,
           step' = "aborted" => /\ step = "aborted" /\ document' = document
                                /\ badReplies' = badReplies,
           step' \in {"walk", "files"} => step' = step,
           stored' # {} \/ step' \in {"sbom", "components", "seal"} \cup Written
              => stored # {} \/ step \in {"sbom", "components", "seal"} \cup Written
    PROVE  WalkingInv'
<1>1. UNCHANGED <<tree, treeEver, treeAlways, treeDirs, toVisit, toRead, kept, visited, facts,
                  job, treeEdits>>
  BY DEF project, walk
<1>2. /\ WalkedDirs(tree)' = WalkedDirs(tree) /\ PlainFiles(tree)' = PlainFiles(tree)
      /\ \A p : (Walked(p)' <=> Walked(p)) /\ (Fits(p)' <=> Fits(p))
  BY <1>1 DEF WalkedDirs, Plain, PlainFiles, Walked, Fits, DirectoriesIn
<1>3. Bracketed' <=> Bracketed
  BY <1>1, <1>2 DEF Bracketed, Walkable
<1>4. /\ Elements(toVisit)' = Elements(toVisit) /\ Elements(toRead)' = Elements(toRead)
      /\ Waiting' = Waiting
  BY <1>1 DEF Elements, Waiting
<1>5. \A d : Queued(d)' <=> Queued(d)
  BY <1>4 DEF Queued
<1>6. \A f : Held(f)' <=> Held(f)
  BY <1>4, <1>5 DEF Held
<1>7. AlreadyRead' = AlreadyRead /\ ManifestsIn(AlreadyRead)' = ManifestsIn(AlreadyRead)
  BY <1>1, <1>2, <1>6 DEF AlreadyRead, ManifestsIn
<1>8. (Distinct(toVisit) <=> Distinct(toVisit)') /\ (Distinct(toRead) <=> Distinct(toRead)')
  BY <1>1 DEF Distinct
<1>9. WalkInv'
  BY <1>1, <1>2, <1>4, <1>6 DEF WalkInv, WalkingInv, Walking
<1>10. ExactInv'
  BY <1>1, <1>2, <1>4, <1>5, <1>7, <1>8 DEF ExactInv, WalkingInv, Walking
<1>11. WalkedInv'
  <2>1. Walkable(tree)' <=> Walkable(tree)
    BY <1>1, <1>2 DEF Walkable
  <2>2. QED
    BY <1>1, <1>3, <2>1 DEF WalkedInv, WalkingInv
<1>12. QED
  BY <1>9, <1>10, <1>11 DEF WalkingInv

\* An inspection given up while it parses a document, or over a file.
LEMMA WalkAborts ==
    ASSUME StoredInv, step \notin Written \cup {"dead"}, Abort,
           job.target = "local" /\ document = NoDocument /\ treeEdits = 0 /\ badReplies' = 0
              => ~Walkable(tree)
    PROVE  WalkingInv'
<1>1. stored' = {}
  BY NothingStored DEF Abort, Written
<1>2. /\ step' = "aborted"
      /\ UNCHANGED <<tree, job, document, treeEdits>>
  BY DEF Abort, project, sbom
<1>3. Walkable(tree)' <=> Walkable(tree)
  BY <1>2 DEF Walkable, WalkedDirs, Plain
<1>4. QED
  BY <1>1, <1>2, <1>3 DEF WalkingInv, WalkInv, ExactInv, WalkedInv, Walking, Written

LEMMA EditStep ==
    ASSUME InspectTypes, StoredInv, WalkingInv, NEW t, EditTree(t)
    PROVE  WalkingInv'
<1>1. /\ step \in {"walk", "files"} /\ step' = step
      /\ tree' = t /\ treeEver' = treeEver \cup t.files
      /\ treeAlways' = treeAlways \cap PlainFiles(t)
      /\ treeDirs' = treeDirs \cup (t.dirs \ t.links) /\ treeEdits' = treeEdits + 1
      /\ UNCHANGED <<toVisit, toRead, kept, facts, stored>>
  BY DEF EditTree, walk, storage
<1>2. stored = {}
  BY <1>1 DEF StoredInv, Written
<1>3. /\ Elements(toVisit)' = Elements(toVisit) /\ Elements(toRead)' = Elements(toRead)
      /\ Waiting' = Waiting
  BY <1>1 DEF Elements, Waiting
<1>4. \A f : Held(f)' <=> Held(f)
  BY <1>3 DEF Held, Queued
<1>5. \A p : Walked(p) => Walked(p)'
  BY <1>1 DEF Walked
<1>6. PlainFiles(tree)' = PlainFiles(t)
  BY <1>1 DEF PlainFiles, Plain
<1>7. WalkInv'
  <2>1. /\ step = "walk" => toRead = <<>> /\ kept = {}
        /\ facts \subseteq treeEver
        /\ \A d \in Waiting : Walked(d)
        /\ \A f \in Elements(toRead) \cup facts : Walked(f[1])
        /\ \A f \in treeAlways :
              f[2] = "manifest" /\ Inside(f[1]) => f \in facts \/ Held(f)
    BY <1>1 DEF WalkInv, WalkingInv, Walking
  <2>2. QED
    BY <1>1, <1>3, <1>4, <1>5, <1>6, <2>1 DEF WalkInv
<1>8. treeEdits' # 0
  BY <1>1 DEF InspectTypes
<1>9. QED
  BY <1>1, <1>2, <1>7, <1>8 DEF WalkingInv, ExactInv, WalkedInv, Written

LEMMA WalkingStep ==
    InspectTypes /\ InspectTypes' /\ StoredInv /\ StoredInv' /\ DocumentInv /\ WalkingInv
      /\ [InspectNext]_inspectVars => WalkingInv'
<1> SUFFICES ASSUME InspectTypes, InspectTypes', StoredInv, StoredInv', DocumentInv, WalkingInv,
                    [InspectNext]_inspectVars
             PROVE  WalkingInv'
  OBVIOUS
<1>1. CASE ReadRepository \/ ReadLanguages \/ ReadCommit \/ AskForSbom
  <2>1. job.target = "github" /\ job' = job
    BY <1>1 DEF ReadRepository, ReadLanguages, ReadCommit, ReadOptional, AskForSbom, Asks, Abort
  <2>2. QED
    BY <2>1 DEF WalkingInv, WalkInv, ExactInv, WalkedInv, Walking, InspectTypes, JobInv
<1>2. CASE VisitDirectory
  <2>1. step = "walk" /\ toVisit # <<>> /\ stored = {}
    BY <1>2 DEF VisitDirectory, StoredInv, Written
  <2>2. CASE Abort
    <3>1. \/ Head(toVisit) \notin tree.dirs \/ Len(Head(toVisit)) > MaxDepth
          \/ DirectoriesIn(Head(toVisit)) \cap tree.outer # {}
          \/ step' = "files"
      BY <1>2 DEF VisitDirectory
    <3>2. step' = "aborted"
      BY <2>2 DEF Abort
    <3>3. treeEdits = 0 => ~Walkable(tree)
      BY <2>1, <3>1, <3>2, VisitAborts DEF WalkingInv
    <3>4. QED
      BY <2>1, <2>2, <3>3, WalkAborts DEF Written
  <2>3. CASE ~Abort
    <3>1. WalkInv' /\ ExactInv'
      BY <1>2, <2>3, VisitStep DEF WalkingInv
    <3>2. step' = "files" /\ stored' = {}
      BY <1>2, <2>1, <2>3 DEF VisitDirectory, storage
    <3>3. QED
      BY <3>1, <3>2 DEF WalkingInv, WalkedInv, Written
  <2>4. QED
    BY <2>2, <2>3
<1>3. CASE ReadFile
  <2>1. step = "files" /\ toRead # <<>> /\ stored = {}
    BY <1>3 DEF ReadFile, StoredInv, Written
  <2>2. CASE Abort
    <3>1. Refused(Head(toRead)) \/ step' = step
      BY <1>3 DEF ReadFile, Refused, ReadsRegular
    <3>2. step' = "aborted"
      BY <2>2 DEF Abort
    <3>3. treeEdits = 0 => ~Walkable(tree)
      BY <2>1, <3>1, <3>2, ReadAborts DEF WalkingInv
    <3>4. QED
      BY <2>1, <2>2, <3>3, WalkAborts DEF Written
  <2>3. CASE ~Abort
    <3>1. WalkInv' /\ ExactInv'
      BY <1>3, <2>3, ReadStep DEF WalkingInv
    <3>2. step' = "files" /\ stored' = {}
      BY <1>3, <2>1, <2>3 DEF ReadFile, storage
    <3>3. QED
      BY <3>1, <3>2 DEF WalkingInv, WalkedInv, Written
  <2>4. QED
    BY <2>2, <2>3
<1>4. CASE DirectoryRead
  <2>1. WalkInv' /\ ExactInv'
    BY <1>4, QueueStep DEF WalkingInv
  <2>2. step' = "walk" /\ stored = {} /\ stored' = {}
    BY <1>4 DEF DirectoryRead, storage, StoredInv, Written
  <2>3. QED
    BY <2>1, <2>2 DEF WalkingInv, WalkedInv, Written
<1>5. CASE WalkEnds
  <2>1. /\ step = "walk" /\ toVisit = <<>> /\ step' = "sbom"
        /\ UNCHANGED <<tree, treeEver, treeAlways, treeDirs, facts, treeEdits>>
    BY <1>5 DEF WalkEnds, project, walk
  <2>2. Bracketed
    BY <2>1, WalkIsComplete DEF WalkingInv
  <2>3. Bracketed'
    BY <2>1, <2>2 DEF Bracketed, Walked, Walkable, WalkedDirs, Plain
  <2>4. QED
    BY <2>1, <2>3 DEF WalkingInv, WalkInv, ExactInv, WalkedInv, Walking
<1>6. CASE UnsupportedFormat \/ ParseComponent \/ DocumentEnds
  <2>1. step = "components" /\ document # NoDocument
    BY <1>6 DEF UnsupportedFormat, ParseComponent, DocumentEnds, DocumentInv
  <2>2. CASE Abort
    BY <2>1, <2>2, WalkAborts DEF Written
  <2>3. CASE ~Abort
    <3>1. UNCHANGED <<project, walk, job, treeEdits>> /\ step' \in {"components", "seal"}
      BY <1>6, <2>1, <2>3 DEF UnsupportedFormat, ParseComponent, DocumentEnds
    <3>2. QED
      BY <2>1, <3>1, WalkStays DEF Written
  <2>4. QED
    BY <2>2, <2>3
<1>7. CASE ReadSuppliedSbom \/ NoSbomSupplied
  <2>1. /\ UNCHANGED <<project, walk, job, treeEdits>>
        /\ step = "sbom" /\ step' \in {"components", "seal"}
    BY <1>7 DEF ReadSuppliedSbom, NoSbomSupplied, ParseDocument
  <2>2. QED
    BY <2>1, WalkStays DEF Written
<1>a. CASE SuppliedUnreadable
  <2>1. step = "sbom" /\ Abort /\ badReplies' # 0
    BY <1>a DEF SuppliedUnreadable, InspectTypes
  <2>2. QED
    BY <2>1, WalkAborts DEF Written
<1>8. CASE StoreSnapshot \/ PointToProject \/ PointToTarget
  <2>1. /\ UNCHANGED <<project, walk, job, treeEdits>>
        /\ step \in {"seal"} \cup Written /\ step' \in Written
    BY <1>8 DEF StoreSnapshot, PointToProject, PointToTarget, Writes, Written
  <2>2. QED
    BY <2>1, WalkStays DEF Written
<1>9. CASE Dies
  <2>1. /\ UNCHANGED <<project, walk, job, treeEdits, stored>>
        /\ step' = "dead"
    BY <1>9 DEF Dies, storage
  <2>2. QED
    BY <2>1, WalkStays DEF Written
<1>10. CASE FilesChange \/ DirectoryVanishes \/ DirectoryAppears \/ DirectoryMoves
  BY <1>10, EditStep DEF FilesChange, DirectoryVanishes, DirectoryAppears, DirectoryMoves
<1>11. CASE UNCHANGED inspectVars
  <2>1. /\ UNCHANGED <<project, walk, job, treeEdits>>
        /\ UNCHANGED <<step, stored, document, badReplies>>
    BY <1>11 DEF inspectVars, project, walk
  <2>2. QED
    BY <2>1, WalkStays
<1>12. QED
  BY <1>1, <1>2, <1>3, <1>4, <1>5, <1>6, <1>7, <1>a, <1>8, <1>9, <1>10, <1>11
  DEF InspectNext

LEMMA WalkingInit == InspectInit => WalkingInv
<1> SUFFICES ASSUME InspectInit PROVE WalkingInv
  OBVIOUS
<1>0. InspectTypes
  BY InitTypes
<1>1. /\ toVisit = <<Root>> /\ toRead = <<>> /\ kept = {} /\ visited = 0 /\ facts = {}
      /\ treeEver = tree.files /\ treeAlways = PlainFiles(tree)
      /\ treeDirs = tree.dirs \ tree.links /\ stored = {}
      /\ step \in {"off", "repository", "walk"}
  BY DEF InspectInit
<1>2. /\ Waiting = {Root} /\ Elements(toRead) = {}
      /\ Distinct(toVisit) /\ Distinct(toRead)
  BY <1>1 DEF Waiting, Elements, Distinct
<1>3. Root \in Seq(STRING) /\ Len(Root) = 0
  BY DEF Root
<1>4. \A p \in Seq(STRING) : Root \in Above(p)
  <2>1. TAKE p \in Seq(STRING)
  <2>2. Len(Root) <= Len(p) /\ \A m \in 1 .. Len(Root) : Root[m] = p[m]
    BY <1>3
  <2>3. QED
    BY <1>3, <2>2, AboveMeans
<1>5. \A f \in tree.files : Held(f)
  BY <1>0, <1>2, <1>4, FilesAreTyped DEF Held, Queued, QueuedIn
<1>6. /\ Root \in tree.dirs /\ Root \notin tree.links /\ Above(Root) = {Root}
      /\ Inside(Root)
  <2>1. Root \in tree.dirs /\ Root \notin tree.links
    BY <1>0 DEF InspectTypes, Rooted
  <2>2. \A r \in Above(Root) : r = Root
    <3>1. TAKE r \in Above(Root)
    <3>2. r \in Seq(STRING)
      BY <1>3, AboveArePaths
    <3>3. Len(r) <= Len(Root)
      BY <1>3, <3>1, <3>2, AboveMeans
    <3>4. Len(r) = 0
      BY <1>3, <3>2, <3>3
    <3>5. QED
      BY <3>2, <3>4 DEF Root
  <2>3. Root \in Above(Root)
    BY <1>3, AboveSelf
  <2>4. Inside(Root)
    BY <1>3 DEF Inside
  <2>5. QED
    BY <2>1, <2>2, <2>3, <2>4
<1>7. WalkInv
  <2>1. Walked(Root)
    BY <1>1, <1>6 DEF Walked
  <2>2. PlainFiles(tree) \subseteq tree.files
    BY DEF PlainFiles
  <2>3. QED
    BY <1>1, <1>2, <1>5, <2>1, <2>2 DEF WalkInv
<1>8. ExactInv
  <2>1. AlreadyRead = {} /\ ManifestsIn(AlreadyRead) = {}
    BY <1>5 DEF AlreadyRead, ManifestsIn
  <2>2. Cardinality(AlreadyRead) = 0 /\ Cardinality(facts) = 0
    BY <1>1, <2>1, FS_EmptySet
  <2>3. \A d \in WalkedDirs(tree) : Queued(d)
    BY <1>0, <1>2, <1>4, FilesAreTyped DEF Queued, QueuedIn, WalkedDirs
  <2>4. Root \in WalkedDirs(tree)
    BY <1>6 DEF WalkedDirs, Plain
  <2>5. QED
    BY <1>1, <1>2, <2>1, <2>2, <2>3, <2>4, LimitsAreNumbers DEF ExactInv
<1>9. WalkedInv
  BY <1>1 DEF WalkedInv, Written
<1>10. QED
  BY <1>7, <1>8, <1>9 DEF WalkingInv

LEMMA DocumentStep ==
    InspectTypes /\ DocumentInv /\ [InspectNext]_inspectVars => DocumentInv'
<1> SUFFICES ASSUME InspectTypes, DocumentInv, [InspectNext]_inspectVars
             PROVE  DocumentInv'
  OBVIOUS
<1>a. DOMAIN receipts = Aspects /\ "sbom" \in Aspects
  BY DEF InspectTypes, Aspects
<1>1. CASE ReadRepository \/ ReadLanguages \/ ReadCommit \/ WalkEnds \/ SuppliedUnreadable
  <2>1. /\ document' = document
        /\ step \in {"repository", "languages", "commit", "walk", "sbom"}
        /\ step' \in {"languages", "commit", "sbom", "aborted"}
        /\ receipts'["sbom"] = receipts["sbom"]
    BY <1>a, <1>1 DEF ReadRepository, ReadLanguages, ReadCommit, ReadOptional, WalkEnds,
                SuppliedUnreadable, Asks, Available, Missing, Abort, evidence, sbom
  <2>2. QED
    BY <2>1 DEF DocumentInv
<1>2. ASSUME step = "sbom", step' = "components", receipts'["sbom"] = "available",
             document' \in Documents
      PROVE  DocumentInv'
  BY <1>2, InspectionAssumption DEF DocumentInv
<1>3. ASSUME step = "sbom", step' = "seal", receipts'["sbom"] # "available",
             document' = document
      PROVE  DocumentInv'
  BY <1>3 DEF DocumentInv
<1>4. CASE AskForSbom
  <2>1. /\ step = "sbom"
        /\ \/ /\ \E doc \in Documents : ParseDocument(doc)
              /\ Available("sbom")
           \/ /\ step' = "seal" /\ document' = document
              /\ \E state \in {"pending", "unavailable", "error"} : Missing("sbom", state)
    BY <1>4 DEF AskForSbom, Asks, sbom
  <2>2. QED
    BY <1>a, <1>2, <1>3, <2>1 DEF ParseDocument, Available, Missing
<1>5. CASE ReadSuppliedSbom
  <2>1. job.supplied \in Documents
    BY <1>5 DEF ReadSuppliedSbom, InspectTypes, Jobs
  <2>2. QED
    BY <1>a, <1>2, <1>5, <2>1 DEF ReadSuppliedSbom, ParseDocument, Available
<1>6. CASE NoSbomSupplied
  <2>1. receipts["sbom"] # "available"
    BY <1>6 DEF DocumentInv, NoSbomSupplied
  <2>2. QED
    BY <1>3, <1>6, <2>1 DEF NoSbomSupplied, sbom
<1>7. CASE \/ VisitDirectory \/ ReadFile \/ DirectoryRead
           \/ UnsupportedFormat \/ ParseComponent \/ DocumentEnds
           \/ StoreSnapshot \/ PointToProject \/ PointToTarget \/ Dies
  <2>1. /\ UNCHANGED <<document, receipts>>
        /\ \/ step \in {"walk", "files"} /\ step' \in {"walk", "files", "aborted"}
           \/ step = "components" /\ step' \in {"components", "seal", "aborted"}
           \/ step' \in {"dead"} \cup Written
    BY <1>7 DEF VisitDirectory, ReadFile, DirectoryRead, UnsupportedFormat, ParseComponent,
                DocumentEnds, StoreSnapshot, PointToProject, PointToTarget, Writes, Dies,
                Abort, evidence, sbom, Written
  <2>2. QED
    BY <2>1 DEF DocumentInv, Written
<1>8. ASSUME NEW t, EditTree(t) PROVE DocumentInv'
  BY <1>8 DEF EditTree, evidence, sbom, DocumentInv
<1>9. CASE FilesChange \/ DirectoryVanishes \/ DirectoryAppears \/ DirectoryMoves
  BY <1>8, <1>9 DEF FilesChange, DirectoryVanishes, DirectoryAppears, DirectoryMoves
<1>10. CASE UNCHANGED inspectVars
  BY <1>10 DEF inspectVars, DocumentInv
<1>11. QED
  BY <1>1, <1>4, <1>5, <1>6, <1>7, <1>9, <1>10 DEF InspectNext

LEMMA DocumentInit == InspectInit => DocumentInv
<1> SUFFICES ASSUME InspectInit PROVE DocumentInv
  OBVIOUS
<1>1. receipts["sbom"] = "none"
  BY DEF InspectInit, Aspects
<1>2. QED
  BY <1>1 DEF InspectInit, DocumentInv

-----------------------------------------------------------------------------
(* The dependency inventory.  Every component has one level.  What is      *)
(* parsed is closed under parents, and what is pending are the children of *)
(* it, each with its level.                                                *)

Nested(doc, level) ==
    /\ level \in [DOMAIN doc.parent -> Nat \ {0}]
    /\ \A n \in DOMAIN doc.parent :
          level[n] = IF doc.parent[n] = 0 THEN 1 ELSE level[doc.parent[n]] + 1

LEMMA DocumentShape ==
    ASSUME NEW doc, WellNested(doc)
    PROVE  /\ Len(doc.parent) \in Nat
           /\ DOMAIN doc.parent = 1 .. Len(doc.parent)
           /\ DOMAIN doc.claim = 1 .. Len(doc.parent)
           /\ \A n \in 1 .. Len(doc.parent) :
                 doc.parent[n] \in Nat /\ doc.parent[n] < n
BY DEF WellNested

NestedUpTo(doc, m, level) ==
    /\ level \in [1 .. m -> Nat \ {0}]
    /\ \A n \in 1 .. m :
          level[n] = IF doc.parent[n] = 0 THEN 1 ELSE level[doc.parent[n]] + 1

LEMMA LevelsExist ==
    ASSUME NEW doc, WellNested(doc)
    PROVE  \E level : Nested(doc, level)
<1> DEFINE k == Len(doc.parent)
           S == {m \in 0 .. k : \E level : NestedUpTo(doc, m, level)}
<1>1. k \in Nat /\ \A n \in 1 .. k : doc.parent[n] \in Nat /\ doc.parent[n] < n
  BY DocumentShape
<1>2. 0 \in S
  <2>1. NestedUpTo(doc, 0, [n \in 1 .. 0 |-> 1])
    BY DEF NestedUpTo
  <2>2. QED
    BY <1>1, <2>1
<1>3. ASSUME NEW m \in 0 .. k - 1, m \in S PROVE m + 1 \in S
  <2>1. PICK level : NestedUpTo(doc, m, level)
    BY <1>3
  <2> DEFINE last == IF doc.parent[m + 1] = 0 THEN 1 ELSE level[doc.parent[m + 1]] + 1
             more == [n \in 1 .. m + 1 |-> IF n = m + 1 THEN last ELSE level[n]]
  <2>2. m + 1 \in 1 .. k /\ doc.parent[m + 1] \in 0 .. m /\ m \in Nat
    BY <1>1
  <2>3. last \in Nat \ {0}
    BY <2>1, <2>2 DEF NestedUpTo
  <2> HIDE DEF last
  <2>4. /\ more \in [1 .. m + 1 -> Nat \ {0}]
        /\ more[m + 1] = last /\ \A n \in 1 .. m : more[n] = level[n]
    BY <2>1, <2>2, <2>3 DEF NestedUpTo
  <2> HIDE DEF more
  <2>5. \A n \in 1 .. m : n \in 1 .. k /\ doc.parent[n] \in Nat /\ doc.parent[n] < n
    <3>1. \A n \in 1 .. m : n \in 1 .. k
      BY <2>2
    <3>2. QED
      BY <1>1, <3>1
  <2>6. ASSUME NEW n \in 1 .. m
        PROVE  more[n] = IF doc.parent[n] = 0 THEN 1 ELSE more[doc.parent[n]] + 1
    <3>1. doc.parent[n] # 0 => doc.parent[n] \in 1 .. m
      BY <2>2, <2>5
    <3>2. more[n] = level[n] /\ (doc.parent[n] # 0 => more[doc.parent[n]] = level[doc.parent[n]])
      BY <2>4, <3>1
    <3>3. level[n] = IF doc.parent[n] = 0 THEN 1 ELSE level[doc.parent[n]] + 1
      BY <2>1 DEF NestedUpTo
    <3>4. QED
      BY <3>2, <3>3
  <2>7. more[m + 1] = IF doc.parent[m + 1] = 0 THEN 1 ELSE more[doc.parent[m + 1]] + 1
    <3>1. doc.parent[m + 1] # 0 => doc.parent[m + 1] \in 1 .. m
      BY <2>2
    <3>2. QED
      BY <2>4, <3>1 DEF last
  <2>8. NestedUpTo(doc, m + 1, more)
    <3>1. \A n \in 1 .. m + 1 : n \in 1 .. m \/ n = m + 1
      BY <2>2
    <3>2. QED
      BY <2>4, <2>6, <2>7, <3>1 DEF NestedUpTo
  <2>9. QED
    BY <1>1, <2>2, <2>8
<1>4. k \in S
  <2> HIDE DEF S
  <2>1. \A n \in 0 .. k : n \in S
    BY <1>1, <1>2, <1>3, BoundedInduction
  <2>2. QED
    BY <1>1, <2>1
<1>5. PICK level : NestedUpTo(doc, k, level)
  BY <1>4
<1>6. QED
  BY <1>5, DocumentShape DEF NestedUpTo, Nested

LEMMA LevelsUnique ==
    ASSUME NEW doc, WellNested(doc), NEW f, Nested(doc, f), NEW g, Nested(doc, g)
    PROVE  f = g
<1> DEFINE k == Len(doc.parent)
           S == {m \in 0 .. k : \A n \in 1 .. m : f[n] = g[n]}
<1>1. /\ k \in Nat /\ DOMAIN doc.parent = 1 .. k
      /\ \A n \in 1 .. k : doc.parent[n] \in Nat /\ doc.parent[n] < n
  BY DocumentShape
<1>2. 0 \in S
  BY <1>1
<1>3. ASSUME NEW m \in 0 .. k - 1, m \in S PROVE m + 1 \in S
  <2>1. m + 1 \in 1 .. k /\ doc.parent[m + 1] \in 0 .. m /\ m \in Nat
    BY <1>1
  <2>2. doc.parent[m + 1] # 0 => doc.parent[m + 1] \in 1 .. m
    BY <2>1
  <2>3. f[m + 1] = g[m + 1]
    BY <1>1, <1>3, <2>1, <2>2 DEF Nested
  <2>4. \A n \in 1 .. m + 1 : n \in 1 .. m \/ n = m + 1
    BY <2>1
  <2>5. m + 1 \in 0 .. k
    BY <2>1
  <2>6. QED
    BY <1>3, <2>3, <2>4, <2>5
<1>4. \A n \in 0 .. k : n \in S
  <2> HIDE DEF S
  <2>1. QED
    BY <1>1, <1>2, <1>3, BoundedInduction
<1>5. \A n \in 1 .. k : f[n] = g[n]
  BY <1>1, <1>4
<1>6. QED
  BY <1>1, <1>5 DEF Nested

Description(level, n) == [of |-> n, depth |-> level[n]]
Descriptions(level, E) == {Description(level, n) : n \in E}
Described(level, ofs) == [i \in 1 .. Len(ofs) |-> Description(level, ofs[i])]

\* Sequences, name by name.
LEMMA SameSequence ==
    ASSUME NEW E, NEW s \in Seq(E), NEW t \in Seq(E), Len(s) = Len(t),
           \A n \in 1 .. Len(s) : s[n] = t[n]
    PROVE  s = t
OBVIOUS

LEMMA ConcatAt ==
    ASSUME NEW E, NEW s \in Seq(E), NEW t \in Seq(E)
    PROVE  /\ s \o t \in Seq(E) /\ Len(s \o t) = Len(s) + Len(t)
           /\ \A n \in 1 .. Len(s) : (s \o t)[n] = s[n]
           /\ \A n \in 1 .. Len(t) : (s \o t)[Len(s) + n] = t[n]
OBVIOUS

LEMMA TailAt ==
    ASSUME NEW E, NEW s \in Seq(E), s # <<>>
    PROVE  /\ Len(s) \in Nat /\ Len(s) >= 1 /\ Head(s) = s[1]
           /\ Tail(s) \in Seq(E) /\ Len(Tail(s)) = Len(s) - 1
           /\ \A n \in 1 .. Len(s) - 1 : Tail(s)[n] = s[n + 1]
OBVIOUS

LEMMA DescribedIs ==
    ASSUME NEW E, NEW level, NEW ofs \in Seq(E)
    PROVE  /\ Described(level, ofs) \in Seq(Descriptions(level, E))
           /\ Len(Described(level, ofs)) = Len(ofs)
           /\ \A n \in 1 .. Len(ofs) : Described(level, ofs)[n] = Description(level, ofs[n])
BY DEF Described, Descriptions

LEMMA DescribedTail ==
    ASSUME NEW E, NEW level, NEW ofs \in Seq(E), ofs # <<>>
    PROVE  /\ Described(level, ofs) # <<>>
           /\ Head(Described(level, ofs)).of = Head(ofs)
           /\ Head(Described(level, ofs)).depth = level[Head(ofs)]
           /\ Tail(Described(level, ofs)) = Described(level, Tail(ofs))
<1> DEFINE R == Descriptions(level, E)
           d == Described(level, ofs)
           t == Tail(ofs)
           e == Described(level, t)
<1>1. /\ Len(ofs) \in Nat /\ Len(ofs) >= 1 /\ Head(ofs) = ofs[1]
      /\ t \in Seq(E) /\ Len(t) = Len(ofs) - 1
      /\ \A n \in 1 .. Len(ofs) - 1 : t[n] = ofs[n + 1]
  BY TailAt
<1>2. /\ d \in Seq(R) /\ Len(d) = Len(ofs)
      /\ d[1] = Description(level, ofs[1])
      /\ \A n \in 1 .. Len(ofs) : d[n] = Description(level, ofs[n])
  <2>1. 1 \in 1 .. Len(ofs)
    BY <1>1
  <2> HIDE DEF t, e
  <2>2. /\ d \in Seq(R) /\ Len(d) = Len(ofs)
        /\ \A n \in 1 .. Len(ofs) : d[n] = Description(level, ofs[n])
    BY DescribedIs
  <2>3. QED
    BY <2>1, <2>2
<1>3. /\ e \in Seq(R) /\ Len(e) = Len(t)
      /\ \A n \in 1 .. Len(t) : e[n] = Description(level, t[n])
  <2> HIDE DEF d, t
  <2>1. t \in Seq(E)
    BY <1>1
  <2>2. QED
    BY <2>1, DescribedIs
<1> HIDE DEF d, e, R, t
<1>4. d # <<>>
  BY <1>1, <1>2
<1>5. /\ Head(d) = d[1] /\ Tail(d) \in Seq(R) /\ Len(Tail(d)) = Len(d) - 1
      /\ \A n \in 1 .. Len(d) - 1 : Tail(d)[n] = d[n + 1]
  BY <1>2, <1>4, TailAt
<1>6. \A n \in 1 .. Len(Tail(d)) : Tail(d)[n] = e[n]
  <2>1. TAKE n \in 1 .. Len(Tail(d))
  <2>2. n + 1 \in 1 .. Len(ofs) /\ n \in 1 .. Len(ofs) - 1
    BY <1>1, <1>2, <1>5
  <2>3. QED
    BY <1>1, <1>2, <1>3, <1>5, <2>2
<1>7. Len(Tail(d)) = Len(e)
  BY <1>1, <1>2, <1>3, <1>5
<1>8. Tail(d) = e
  BY <1>3, <1>5, <1>6, <1>7, SameSequence
<1>9. QED
  BY <1>1, <1>2, <1>4, <1>5, <1>8 DEF d, e, t, Description

LEMMA DescribedConcat ==
    ASSUME NEW E, NEW level, NEW a \in Seq(E), NEW b \in Seq(E)
    PROVE  Described(level, a) \o Described(level, b) = Described(level, a \o b)
<1> DEFINE R == Descriptions(level, E)
           c == a \o b
           u == Described(level, a)
           v == Described(level, b)
           w == Described(level, c)
<1>1. /\ u \in Seq(R) /\ Len(u) = Len(a)
      /\ \A n \in 1 .. Len(a) : u[n] = Description(level, a[n])
  BY DescribedIs
<1>2. /\ v \in Seq(R) /\ Len(v) = Len(b)
      /\ \A n \in 1 .. Len(b) : v[n] = Description(level, b[n])
  BY DescribedIs
<1>3. /\ Len(a) \in Nat /\ Len(b) \in Nat
      /\ c \in Seq(E) /\ Len(c) = Len(a) + Len(b)
      /\ \A n \in 1 .. Len(a) : c[n] = a[n]
      /\ \A n \in 1 .. Len(b) : c[Len(a) + n] = b[n]
  BY ConcatAt
<1>4. /\ w \in Seq(R) /\ Len(w) = Len(c)
      /\ \A n \in 1 .. Len(c) : w[n] = Description(level, c[n])
  <2> HIDE DEF u, v, c
  <2>1. c \in Seq(E)
    BY <1>3
  <2>2. QED
    BY <2>1, DescribedIs
<1> HIDE DEF u, v, w, c, R
<1>5. /\ u \o v \in Seq(R) /\ Len(u \o v) = Len(u) + Len(v)
      /\ \A n \in 1 .. Len(u) : (u \o v)[n] = u[n]
      /\ \A n \in 1 .. Len(v) : (u \o v)[Len(u) + n] = v[n]
  <2>1. u \in Seq(R) /\ v \in Seq(R)
    BY <1>1, <1>2
  <2>2. QED
    BY <2>1, ConcatAt
<1>6. \A n \in 1 .. Len(a) : (u \o v)[n] = w[n]
  <2>1. TAKE n \in 1 .. Len(a)
  <2>2. n \in 1 .. Len(c)
    BY <1>3
  <2>3. QED
    BY <1>1, <1>3, <1>4, <1>5, <2>2
<1>7. \A n \in 1 .. Len(b) : (u \o v)[Len(a) + n] = w[Len(a) + n]
  <2>1. TAKE n \in 1 .. Len(b)
  <2>2. Len(a) + n \in 1 .. Len(c)
    BY <1>3
  <2>3. QED
    BY <1>1, <1>2, <1>3, <1>4, <1>5, <2>2
<1>8. Len(u \o v) = Len(w) /\ Len(w) = Len(a) + Len(b)
  BY <1>1, <1>2, <1>3, <1>4, <1>5
<1>9. \A n \in 1 .. Len(u \o v) : (u \o v)[n] = w[n]
  <2>1. TAKE n \in 1 .. Len(u \o v)
  <2>2. CASE n \in 1 .. Len(a)
    BY <1>6, <2>2
  <2>3. CASE n \notin 1 .. Len(a)
    <3>1. n - Len(a) \in 1 .. Len(b) /\ n = Len(a) + (n - Len(a))
      BY <1>3, <1>8, <2>3
    <3>2. QED
      BY <1>7, <3>1
  <2>4. QED
    BY <2>2, <2>3
<1>10. u \o v = w
  BY <1>4, <1>5, <1>8, <1>9, SameSequence
<1>11. QED
  BY <1>10 DEF u, v, w, c

ChildrenOf(doc, p) == {n \in 1 .. Len(doc.parent) : doc.parent[n] = p}

Lists(doc, p, level, ofs) ==
    /\ ofs \in Seq(1 .. Len(doc.parent)) /\ Distinct(ofs)
    /\ Elements(ofs) = ChildrenOf(doc, p)
    /\ \A depth : (\A n \in ChildrenOf(doc, p) : level[n] = depth)
                     => Children(doc, p, depth) = Described(level, ofs)

LEMMA ChildrenAre ==
    ASSUME NEW doc, WellNested(doc), NEW p, NEW level
    PROVE  \E ofs : Lists(doc, p, level, ofs)
<1> DEFINE k == Len(doc.parent)
           all == [n \in 1 .. k |-> n]
           ofs == Select(all, ChildrenOf(doc, p))
<1>1. k \in Nat
  BY DocumentShape
<1> HIDE DEF k
<1>2. all \in Seq(1 .. k) /\ Len(all) = k /\ \A n \in 1 .. k : all[n] = n
  BY <1>1
<1>3. Elements(all) = 1 .. k
  BY <1>2 DEF Elements
<1>4. Distinct(all)
  BY <1>2 DEF Distinct
<1> HIDE DEF all
<1>5. (1 .. k) \cap ChildrenOf(doc, p) = ChildrenOf(doc, p)
  BY DEF ChildrenOf, k
<1>6. ofs \in Seq(1 .. k) /\ Elements(ofs) = ChildrenOf(doc, p) /\ Distinct(ofs)
  BY <1>2, <1>3, <1>4, <1>5, SelectProperties
<1>7. ASSUME NEW depth, \A n \in ChildrenOf(doc, p) : level[n] = depth
      PROVE  Children(doc, p, depth) = Described(level, ofs)
  <2>1. Children(doc, p, depth)
           = [i \in 1 .. Len(ofs) |-> [of |-> ofs[i], depth |-> depth]]
    BY DEF Children, ChildrenOf, all, k
  <2> HIDE DEF ofs
  <2>2. \A i \in 1 .. Len(ofs) : level[ofs[i]] = depth
    BY <1>6, <1>7 DEF Elements
  <2>3. QED
    BY <2>1, <2>2 DEF Described, Description
<1> HIDE DEF ofs
<1>8. Lists(doc, p, level, ofs)
  BY <1>6, <1>7 DEF Lists, k
<1>9. QED
  BY <1>8

ClaimsOf(claim, E) == {claim[n] : n \in E}
Claims(claim, done) == [i \in 1 .. Len(done) |-> claim[done[i]]]

Parsing(doc, level, done, ofs) ==
    /\ Nested(doc, level)
    /\ done \in Seq(1 .. Len(doc.parent)) /\ ofs \in Seq(1 .. Len(doc.parent))
    /\ components = Claims(doc.claim, done)
    /\ pending = Described(level, ofs)
    /\ Distinct(done) /\ Distinct(ofs) /\ Elements(done) \cap Elements(ofs) = {}
    /\ \A n \in 1 .. Len(doc.parent) :
          doc.parent[n] = 0 \/ doc.parent[n] \in Elements(done)
              <=> n \in Elements(done) \cup Elements(ofs)
    /\ \A n \in Elements(done) : level[n] <= MaxDepth
    /\ done = <<>> \/ Len(done) + Len(ofs) <= MaxComponents

Parses(doc) == \E level, done, ofs : Parsing(doc, level, done, ofs)

ParsingInv == step = "components" => Parses(document)

Taken == Acceptable(document) /\ Range(components) = Range(document.claim)

WholeInv ==
    /\ document # NoDocument /\ (step \in {"seal"} \cup Written \/ stored # {}) => Taken
    /\ step = "aborted" /\ document # NoDocument => ~Acceptable(document)
    /\ step = "aborted" /\ job.target = "github" /\ badReplies = 0 => document # NoDocument

LEMMA DocumentsAreNested ==
    \A doc \in Documents : WellNested(doc)
BY InspectionAssumption

\* What has just been opened.
LEMMA ParsingStarts ==
    ASSUME NEW doc \in Documents, document' = doc,
           pending' = Children(doc, 0, 1), components' = <<>>
    PROVE  Parses(document)'
<1> DEFINE k == Len(doc.parent)
<1>1. WellNested(doc)
  BY DocumentsAreNested
<1>2. PICK level : Nested(doc, level)
  BY <1>1, LevelsExist
<1>3. PICK ofs : Lists(doc, 0, level, ofs)
  BY <1>1, ChildrenAre
<1>4. \A n \in ChildrenOf(doc, 0) : level[n] = 1
  BY <1>1, <1>2, DocumentShape DEF Nested, ChildrenOf
<1>5. Children(doc, 0, 1) = Described(level, ofs)
  BY <1>3, <1>4 DEF Lists
<1>6. Elements(<<>>) = {} /\ Distinct(<<>>) /\ <<>> \in Seq(1 .. k) /\ Len(<<>>) = 0
  BY DEF Elements, Distinct
<1>7. components' = Claims(doc.claim, <<>>)
  BY <1>6 DEF Claims
<1>8. \A n \in 1 .. k : doc.parent[n] = 0 \/ doc.parent[n] \in Elements(<<>>)
                           <=> n \in Elements(<<>>) \cup Elements(ofs)
  BY <1>3, <1>6 DEF Lists, ChildrenOf
<1>9. Parsing(doc, level, <<>>, ofs)'
  BY <1>2, <1>3, <1>5, <1>6, <1>7, <1>8 DEF Parsing, Lists
<1>10. QED
  BY <1>9 DEF Parses

ClaimsFit(E, claim, done) ==
    /\ Claims(claim, done) \in Seq(ClaimsOf(claim, E))
    /\ Len(Claims(claim, done)) = Len(done)
    /\ \A i \in 1 .. Len(done) : Claims(claim, done)[i] = claim[done[i]]

LEMMA ClaimsAre ==
    ASSUME NEW E, NEW claim, NEW done \in Seq(E)
    PROVE  ClaimsFit(E, claim, done)
<1>1. \A i \in 1 .. Len(done) : claim[done[i]] \in ClaimsOf(claim, E)
  <2>1. \A i \in 1 .. Len(done) : done[i] \in E
    OBVIOUS
  <2>2. QED
    BY <2>1 DEF ClaimsOf
<1>2. Len(done) \in Nat
  OBVIOUS
<1>3. QED
  BY <1>1, <1>2 DEF Claims, ClaimsFit

LEMMA AppendClaims ==
    ASSUME NEW E, NEW claim, NEW done \in Seq(E), NEW next \in E
    PROVE  Append(Claims(claim, done), claim[next]) = Claims(claim, Append(done, next))
<1> DEFINE C == ClaimsOf(claim, E)
           parsed == Append(done, next)
           old == Claims(claim, done)
           more == Claims(claim, parsed)
           x == claim[next]
<1>1. /\ Len(done) \in Nat /\ parsed \in Seq(E) /\ Len(parsed) = Len(done) + 1
      /\ \A i \in 1 .. Len(done) : parsed[i] = done[i]
      /\ parsed[Len(done) + 1] = next
  OBVIOUS
<1>2. /\ old \in Seq(C) /\ Len(old) = Len(done)
      /\ \A i \in 1 .. Len(done) : old[i] = claim[done[i]]
  <2>1. ClaimsFit(E, claim, done)
    BY ClaimsAre
  <2>2. QED
    BY <2>1 DEF ClaimsFit
<1>3. /\ more \in Seq(C) /\ Len(more) = Len(parsed)
      /\ \A i \in 1 .. Len(parsed) : more[i] = claim[parsed[i]]
  <2> HIDE DEF parsed
  <2>1. parsed \in Seq(E)
    BY <1>1
  <2>2. ClaimsFit(E, claim, parsed)
    BY <2>1, ClaimsAre
  <2>3. QED
    BY <2>2 DEF ClaimsFit
<1>4. x \in C
  BY DEF ClaimsOf
<1> HIDE DEF C, old, more, parsed
<1>5. /\ Append(old, x) \in Seq(C) /\ Len(Append(old, x)) = Len(old) + 1
      /\ \A i \in 1 .. Len(old) : Append(old, x)[i] = old[i]
      /\ Append(old, x)[Len(old) + 1] = x
  <2> HIDE DEF x
  <2>1. QED
    BY <1>2, <1>4
<1>6. \A i \in 1 .. Len(Append(old, x)) : Append(old, x)[i] = more[i]
  <2>1. TAKE i \in 1 .. Len(Append(old, x))
  <2>2. i \in 1 .. Len(parsed) /\ (i \in 1 .. Len(done) \/ i = Len(done) + 1)
    BY <1>1, <1>2, <1>5
  <2>3. CASE i \in 1 .. Len(done)
    BY <1>1, <1>2, <1>3, <1>5, <2>2, <2>3
  <2>4. CASE i = Len(done) + 1
    BY <1>1, <1>2, <1>3, <1>5, <2>2, <2>4
  <2>5. QED
    BY <2>2, <2>3, <2>4
<1>7. Len(Append(old, x)) = Len(more)
  BY <1>1, <1>2, <1>3, <1>5
<1>8. Append(old, x) = more
  BY <1>3, <1>5, <1>6, <1>7, SameSequence
<1>9. QED
  BY <1>8 DEF old, more, parsed

\* One more component: it is parsed, and its children are pending.
ParsingMore(doc, level, done, ofs, kids) ==
    /\ Parsing(doc, level, done, ofs) /\ ofs # <<>>
    /\ Lists(doc, Head(ofs), level, kids)

Unfolded(doc, level, done, next, parsed, waiting) ==
    /\ Head(pending).of = next /\ Head(pending).depth = level[next]
    /\ next \in 1 .. Len(doc.parent)
    /\ Children(doc, next, level[next] + 1) \o Tail(pending) = Described(level, waiting)
    /\ Append(components, doc.claim[next]) = Claims(doc.claim, parsed)
    /\ Len(Claims(doc.claim, parsed)) = Len(parsed)
    /\ Len(Described(level, waiting)) = Len(waiting)
    /\ parsed \in Seq(1 .. Len(doc.parent)) /\ waiting \in Seq(1 .. Len(doc.parent))
    /\ Distinct(parsed) /\ Distinct(waiting)
    /\ Elements(parsed) \cap Elements(waiting) = {}
    /\ Elements(parsed) = Elements(done) \cup {next}
    /\ \A n \in 1 .. Len(doc.parent) :
          doc.parent[n] = 0 \/ doc.parent[n] \in Elements(parsed)
              <=> n \in Elements(parsed) \cup Elements(waiting)

LEMMA ParsingUnfolds ==
    ASSUME NEW doc, WellNested(doc), NEW level, NEW done, NEW ofs, NEW kids,
           ParsingMore(doc, level, done, ofs, kids)
    PROVE  Unfolded(doc, level, done, Head(ofs), Append(done, Head(ofs)), kids \o Tail(ofs))
<1>k. PICK k : k = Len(doc.parent)
  OBVIOUS
<1>n. PICK next : next = Head(ofs)
  OBVIOUS
<1>r. PICK rest : rest = Tail(ofs)
  OBVIOUS
<1>1. /\ k \in Nat /\ \A n \in 1 .. k : doc.parent[n] \in Nat /\ doc.parent[n] < n
  BY <1>k, DocumentShape
<1>2. /\ Nested(doc, level) /\ done \in Seq(1 .. k) /\ ofs \in Seq(1 .. k) /\ ofs # <<>>
      /\ components = Claims(doc.claim, done)
      /\ pending = Described(level, ofs)
      /\ Distinct(done) /\ Distinct(ofs) /\ Elements(done) \cap Elements(ofs) = {}
      /\ \A n \in 1 .. k :
            doc.parent[n] = 0 \/ doc.parent[n] \in Elements(done)
                <=> n \in Elements(done) \cup Elements(ofs)
  BY <1>k DEF ParsingMore, Parsing
<1>3. /\ kids \in Seq(1 .. k) /\ Distinct(kids)
      /\ Elements(kids) = {n \in 1 .. k : doc.parent[n] = next}
      /\ \A depth : (\A n \in ChildrenOf(doc, next) : level[n] = depth)
                       => Children(doc, next, depth) = Described(level, kids)
  BY <1>k, <1>n DEF ParsingMore, Lists, ChildrenOf
<1>4. /\ next \in 1 .. k /\ rest \in Seq(1 .. k) /\ Distinct(rest)
      /\ Elements(ofs) = {next} \cup Elements(rest) /\ next \notin Elements(rest)
  BY <1>n, <1>r, <1>2, TailElements
<1>5. /\ Head(pending).of = next /\ Head(pending).depth = level[next]
      /\ Tail(pending) = Described(level, rest)
  <2>1. ofs \in Seq(1 .. k) /\ ofs # <<>> /\ pending = Described(level, ofs)
    BY <1>2
  <2>2. /\ Head(Described(level, ofs)).of = Head(ofs)
        /\ Head(Described(level, ofs)).depth = level[Head(ofs)]
        /\ Tail(Described(level, ofs)) = Described(level, Tail(ofs))
    <3>1. ofs \in Seq(1 .. k) /\ ofs # <<>>
      BY <2>1
    <3>2. QED
      BY <3>1, DescribedTail
  <2>3. QED
    BY <1>n, <1>r, <2>1, <2>2
<1>6. Children(doc, next, level[next] + 1) = Described(level, kids)
  <2>1. next # 0
    BY <1>1, <1>4
  <2>2. \A n \in ChildrenOf(doc, next) : level[n] = level[next] + 1
    BY <1>k, <1>1, <1>2, <2>1, DocumentShape DEF ChildrenOf, Nested
  <2>3. QED
    BY <1>3, <2>2
<1>7. Described(level, kids) \o Described(level, rest) = Described(level, kids \o rest)
  BY <1>3, <1>4, DescribedConcat
<1>p. PICK parsed : parsed = Append(done, next)
  OBVIOUS
<1>8. /\ Len(done) \in Nat /\ parsed \in Seq(1 .. k) /\ Len(parsed) = Len(done) + 1
      /\ \A i \in 1 .. Len(done) : parsed[i] = done[i] /\ parsed[Len(done) + 1] = next
      /\ parsed[Len(done) + 1] = next
  BY <1>p, <1>2, <1>4
<1>9. Elements(parsed) = Elements(done) \cup {next}
  <2>1. Elements(parsed) \subseteq Elements(done) \cup {next}
    <3>1. \A i \in 1 .. Len(parsed) : i \in 1 .. Len(done) \/ i = Len(done) + 1
      BY <1>8
    <3>2. QED
      BY <1>8, <3>1 DEF Elements
  <2>2. Elements(done) \subseteq Elements(parsed)
    <3>1. \A i \in 1 .. Len(done) : i \in 1 .. Len(parsed)
      BY <1>8
    <3>2. QED
      BY <1>8, <3>1 DEF Elements
  <2>3. next \in Elements(parsed)
    <3>1. Len(done) + 1 \in 1 .. Len(parsed)
      BY <1>8
    <3>2. QED
      BY <1>8, <3>1 DEF Elements
  <2>4. QED
    BY <2>1, <2>2, <2>3
<1>10. next \notin Elements(done)
  BY <1>2, <1>4
<1>11. Distinct(parsed)
  <2>1. \A i \in 1 .. Len(parsed) : i \in 1 .. Len(done) \/ i = Len(done) + 1
    BY <1>8
  <2>2. \A i \in 1 .. Len(done) : parsed[i] # next
    BY <1>8, <1>10 DEF Elements
  <2>3. SUFFICES ASSUME NEW i \in 1 .. Len(parsed), NEW j \in 1 .. Len(parsed),
                        parsed[i] = parsed[j]
                 PROVE  i = j
    BY DEF Distinct
  <2>4. CASE i \in 1 .. Len(done) /\ j \in 1 .. Len(done)
    BY <1>2, <1>8, <2>3, <2>4 DEF Distinct
  <2>5. QED
    BY <1>8, <2>1, <2>2, <2>3, <2>4
<1>12. Append(components, doc.claim[next]) = Claims(doc.claim, parsed)
  <2>1. done \in Seq(1 .. k) /\ next \in 1 .. k
    BY <1>2, <1>4
  <2>2. Append(Claims(doc.claim, done), doc.claim[next])
           = Claims(doc.claim, Append(done, next))
    <3>1. PICK D : D = 1 .. k
      OBVIOUS
    <3>2. PICK claim : claim = doc.claim
      OBVIOUS
    <3>3. done \in Seq(D) /\ next \in D
      BY <2>1, <3>1
    <3>4. Append(Claims(claim, done), claim[next]) = Claims(claim, Append(done, next))
      BY <3>3, AppendClaims
    <3>5. QED
      BY <3>2, <3>4
  <2>3. components = Claims(doc.claim, done)
    BY <1>2
  <2>4. QED
    BY <1>p, <2>2, <2>3
<1>13. Len(Claims(doc.claim, parsed)) = Len(parsed)
  <2>1. parsed \in Seq(1 .. k)
    BY <1>8
  <2>2. ClaimsFit(1 .. k, doc.claim, parsed)
    BY <2>1, ClaimsAre
  <2>3. QED
    BY <2>2 DEF ClaimsFit
<1>w. PICK waiting : waiting = kids \o rest
  OBVIOUS
<1>14. Elements(kids) \cap (Elements(done) \cup Elements(ofs)) = {}
  <2>1. SUFFICES ASSUME NEW n \in Elements(kids), n \in Elements(done) \cup Elements(ofs)
                 PROVE  FALSE
    OBVIOUS
  <2>2. n \in 1 .. k /\ doc.parent[n] = next
    BY <1>3
  <2>3. next # 0
    BY <1>1, <1>4
  <2>4. QED
    BY <1>2, <1>10, <2>1, <2>2, <2>3
<1>15. /\ waiting \in Seq(1 .. k)
       /\ Elements(waiting) = Elements(kids) \cup Elements(rest)
       /\ Distinct(waiting)
  <2>1. Elements(kids) \cap Elements(rest) = {}
    BY <1>4, <1>14
  <2>2. QED
    BY <1>w, <1>3, <1>4, <2>1, ConcatElements
<1>16. Elements(parsed) \cap Elements(waiting) = {}
  <2>1. next \notin Elements(kids)
    BY <1>4, <1>14
  <2>2. QED
    BY <1>2, <1>4, <1>9, <1>14, <1>15, <2>1
<1>17. \A n \in 1 .. k : doc.parent[n] = 0 \/ doc.parent[n] \in Elements(parsed)
                            <=> n \in Elements(parsed) \cup Elements(waiting)
  BY <1>2, <1>3, <1>4, <1>9, <1>15
<1>18. Len(Described(level, waiting)) = Len(waiting)
  <2>1. waiting \in Seq(1 .. k)
    BY <1>15
  <2>2. QED
    BY <2>1, DescribedIs
<1>19. Children(doc, next, level[next] + 1) \o Tail(pending) = Described(level, waiting)
  BY <1>w, <1>5, <1>6, <1>7
<1>20. Unfolded(doc, level, done, next, parsed, waiting)
  BY <1>k, <1>4, <1>5, <1>8, <1>9, <1>11, <1>12, <1>13, <1>15, <1>16, <1>17, <1>18, <1>19
  DEF Unfolded
<1>21. QED
  BY <1>n, <1>r, <1>p, <1>w, <1>20

\* There are never more than the document has.
LEMMA PartsAreBounded ==
    ASSUME NEW k \in Nat, NEW a \in Seq(1 .. k), NEW b \in Seq(1 .. k),
           Distinct(a), Distinct(b), Elements(a) \cap Elements(b) = {}
    PROVE  Len(a) + Len(b) <= k
<1>1. /\ a \o b \in Seq(1 .. k) /\ Distinct(a \o b) /\ Len(a \o b) = Len(a) + Len(b)
  BY ConcatElements
<1>2. PICK c \in Seq(1 .. k) : c = a \o b
  BY <1>1
<1>3. IsFiniteSet(1 .. k) /\ Cardinality(1 .. k) = k
  BY FS_Interval
<1>4. Elements(c) \in SUBSET (1 .. k)
  BY <1>2 DEF Elements
<1>5. Cardinality(Elements(c)) = Len(c)
  BY <1>1, <1>2, DistinctCounts
<1>6. Cardinality(Elements(c)) <= Cardinality(1 .. k)
  BY <1>3, <1>4, FS_Subset
<1>7. QED
  BY <1>1, <1>2, <1>3, <1>5, <1>6

\* One component more keeps the parse going,
LEMMA ParsingContinues ==
    ASSUME NEW doc, WellNested(doc), NEW level, NEW done, NEW ofs, NEW kids,
           ParsingMore(doc, level, done, ofs, kids), MaxComponents \in Nat,
           level[Head(ofs)] <= MaxDepth,
           components' = Append(components, doc.claim[Head(ofs)]),
           pending' = Children(doc, Head(ofs), level[Head(ofs)] + 1) \o Tail(pending),
           Len(components') + Len(pending') <= MaxComponents
    PROVE  Parses(doc)'
<1>1. PICK next, parsed, waiting :
          /\ next = Head(ofs) /\ parsed = Append(done, Head(ofs)) /\ waiting = kids \o Tail(ofs)
  OBVIOUS
<1>2. Unfolded(doc, level, done, next, parsed, waiting)
  BY <1>1, ParsingUnfolds
<1>3. /\ components' = Claims(doc.claim, parsed) /\ pending' = Described(level, waiting)
      /\ Len(parsed) + Len(waiting) <= MaxComponents
  BY <1>1, <1>2 DEF Unfolded
<1>4. Nested(doc, level) /\ \A n \in Elements(done) : level[n] <= MaxDepth
  BY DEF ParsingMore, Parsing
<1>5. \A n \in Elements(parsed) : level[n] <= MaxDepth
  BY <1>1, <1>2, <1>4 DEF Unfolded
<1>6. Parsing(doc, level, parsed, waiting)'
  BY <1>2, <1>3, <1>4, <1>5 DEF Parsing, Unfolded
<1>7. QED
  BY <1>6 DEF Parses

\* or shows that the document is beyond a limit.
LEMMA ParsingFails ==
    ASSUME NEW doc, WellNested(doc), NEW level, NEW done, NEW ofs, NEW kids,
           ParsingMore(doc, level, done, ofs, kids),
           \/ Head(pending).depth > MaxDepth
           \/ ~(Len(Append(components, doc.claim[Head(pending).of]))
                  + Len(Children(doc, Head(pending).of, Head(pending).depth + 1) \o Tail(pending))
                     <= MaxComponents)
    PROVE  ~Acceptable(doc)
<1>1. PICK next, parsed, waiting :
          /\ next = Head(ofs) /\ parsed = Append(done, Head(ofs)) /\ waiting = kids \o Tail(ofs)
  OBVIOUS
<1>2. Unfolded(doc, level, done, next, parsed, waiting)
  BY <1>1, ParsingUnfolds
<1>3. PICK k : k = Len(doc.parent)
  OBVIOUS
<1>4. k \in Nat /\ DOMAIN doc.parent = 1 .. k
  BY <1>3, DocumentShape
<1>5. /\ Head(pending).of = next /\ Head(pending).depth = level[next] /\ next \in 1 .. k
      /\ parsed \in Seq(1 .. k) /\ waiting \in Seq(1 .. k)
      /\ Distinct(parsed) /\ Distinct(waiting)
      /\ Elements(parsed) \cap Elements(waiting) = {}
  BY <1>2, <1>3 DEF Unfolded
<1>6. Len(parsed) + Len(waiting) <= k
  BY <1>4, <1>5, PartsAreBounded
<1>7. Nested(doc, level)
  BY DEF ParsingMore, Parsing
<1>8. SUFFICES ASSUME k <= MaxComponents,
                      NEW f \in [1 .. k -> 1 .. MaxDepth],
                      \A n \in 1 .. k :
                          f[n] = IF doc.parent[n] = 0 THEN 1 ELSE f[doc.parent[n]] + 1
               PROVE  FALSE
  BY <1>3, <1>4 DEF Acceptable
<1>9. Nested(doc, f)
  <2>1. f \in [1 .. k -> Nat \ {0}]
    OBVIOUS
  <2>2. QED
    BY <1>4, <1>8, <2>1 DEF Nested
<1>10. f = level
  BY <1>7, <1>9, LevelsUnique
<1>11. level[next] \in 1 .. MaxDepth
  BY <1>5, <1>10
<1>12. ~(Len(parsed) + Len(waiting) <= MaxComponents)
  <2>1. ~(Head(pending).depth > MaxDepth)
    BY <1>5, <1>11, LimitsAreNumbers
  <2>2. ~(Len(Append(components, doc.claim[next]))
           + Len(Children(doc, next, level[next] + 1) \o Tail(pending)) <= MaxComponents)
    BY <1>5, <2>1
  <2>3. QED
    BY <1>2, <2>2 DEF Unfolded
<1>13. Len(parsed) \in Nat /\ Len(waiting) \in Nat
  BY <1>5
<1>14. QED
  BY <1>4, <1>6, <1>8, <1>12, <1>13, LimitsAreNumbers

LEMMA AllParsed ==
    ASSUME NEW doc, WellNested(doc), NEW level, NEW done, NEW ofs,
           Parsing(doc, level, done, ofs), ofs = <<>>
    PROVE  Elements(done) = 1 .. Len(doc.parent)
<1> DEFINE S == {m \in 0 .. Len(doc.parent) : \A n \in 1 .. m : n \in Elements(done)}
<1>k. PICK k : k = Len(doc.parent)
  OBVIOUS
<1>1. k \in Nat /\ \A n \in 1 .. k : doc.parent[n] \in Nat /\ doc.parent[n] < n
  BY <1>k, DocumentShape
<1>2. Elements(ofs) = {}
  BY DEF Elements
<1>3. \A n \in 1 .. k : doc.parent[n] = 0 \/ doc.parent[n] \in Elements(done)
                           <=> n \in Elements(done)
  BY <1>k, <1>2 DEF Parsing
<1>4. Elements(done) \subseteq 1 .. k
  BY <1>k DEF Parsing, Elements
<1>5. 0 \in S
  BY <1>k, <1>1
<1>6. ASSUME NEW m \in 0 .. k - 1, m \in S PROVE m + 1 \in S
  <2>1. m + 1 \in 1 .. k /\ doc.parent[m + 1] \in 0 .. m /\ m \in Nat
    BY <1>1
  <2>2. doc.parent[m + 1] = 0 \/ doc.parent[m + 1] \in 1 .. m
    BY <2>1
  <2>3. m + 1 \in Elements(done)
    BY <1>3, <1>6, <2>1, <2>2
  <2>4. \A n \in 1 .. m + 1 : n \in 1 .. m \/ n = m + 1
    BY <2>1
  <2>5. m + 1 \in 0 .. k
    BY <2>1
  <2>6. QED
    BY <1>k, <1>6, <2>3, <2>4, <2>5
<1>7. \A n \in 0 .. k : n \in S
  <2> HIDE DEF S
  <2>1. QED
    BY <1>1, <1>5, <1>6, BoundedInduction
<1>8. 1 .. k \subseteq Elements(done)
  <2>1. k \in S
    BY <1>1, <1>7
  <2>2. QED
    BY <2>1
<1>9. QED
  BY <1>k, <1>4, <1>8

LEMMA ParsingEnds ==
    ASSUME NEW doc, WellNested(doc), NEW level, NEW done, NEW ofs,
           Parsing(doc, level, done, ofs), ofs = <<>>
    PROVE  /\ Len(doc.parent) <= MaxComponents
           /\ \E f \in [DOMAIN doc.parent -> 1 .. MaxDepth] :
                 \A n \in DOMAIN doc.parent :
                     f[n] = IF doc.parent[n] = 0 THEN 1 ELSE f[doc.parent[n]] + 1
           /\ Range(components) = Range(doc.claim)
           /\ Conflicts(components) <=> Conflicts(doc.claim)
<1>k. PICK k : k = Len(doc.parent)
  OBVIOUS
<1>c. PICK claim : claim = doc.claim
  OBVIOUS
<1>1. k \in Nat /\ DOMAIN doc.parent = 1 .. k /\ DOMAIN claim = 1 .. k
  BY <1>k, <1>c, DocumentShape
<1>2. Elements(done) = 1 .. k
  BY <1>k, AllParsed
<1>3. /\ Nested(doc, level) /\ done \in Seq(1 .. k) /\ Distinct(done)
      /\ components = Claims(claim, done)
      /\ \A n \in 1 .. k : level[n] <= MaxDepth
      /\ done = <<>> \/ Len(done) <= MaxComponents
  <2>1. done = <<>> \/ Len(done) + Len(ofs) <= MaxComponents
    BY DEF Parsing
  <2>2. Len(ofs) = 0
    OBVIOUS
  <2>3. done \in Seq(1 .. k)
    BY <1>k DEF Parsing
  <2>4. done = <<>> \/ Len(done) <= MaxComponents
    BY <2>1, <2>2, <2>3
  <2>5. QED
    BY <1>c, <1>2, <2>3, <2>4 DEF Parsing
<1>4. Len(done) = k
  <2>1. Cardinality(1 .. k) = k
    BY <1>1, FS_Interval
  <2>2. PICK D : D = 1 .. k
    OBVIOUS
  <2>3. done \in Seq(D) /\ Distinct(done)
    BY <1>3, <2>2
  <2>4. Cardinality(Elements(done)) = Len(done)
    BY <2>3, DistinctCounts
  <2>5. QED
    BY <1>2, <2>1, <2>4
<1>5. k <= MaxComponents
  <2>1. CASE done = <<>>
    BY <1>4, <2>1, LimitsAreNumbers
  <2>2. CASE done # <<>>
    BY <1>3, <1>4, <2>2
  <2>3. QED
    BY <2>1, <2>2
<1>6. \E f \in [DOMAIN doc.parent -> 1 .. MaxDepth] :
          \A n \in DOMAIN doc.parent :
              f[n] = IF doc.parent[n] = 0 THEN 1 ELSE f[doc.parent[n]] + 1
  <2>1. \A n \in 1 .. k : level[n] \in Nat \ {0}
    BY <1>1, <1>3 DEF Nested
  <2>2. \A n \in 1 .. k : level[n] \in 1 .. MaxDepth
    BY <1>3, <2>1, LimitsAreNumbers
  <2>3. level \in [DOMAIN doc.parent -> 1 .. MaxDepth]
    BY <1>1, <1>3, <2>2 DEF Nested
  <2>4. QED
    BY <1>3, <2>3 DEF Nested
<1>7. /\ DOMAIN components = 1 .. k
      /\ \A i \in 1 .. k : components[i] = claim[done[i]] /\ done[i] \in 1 .. k
  BY <1>3, <1>4 DEF Claims
<1>8. \A n \in 1 .. k : \E i \in 1 .. k : done[i] = n
  BY <1>2, <1>4 DEF Elements
<1>9. Range(components) = Range(claim)
  <2>1. Range(components) \subseteq Range(claim)
    BY <1>1, <1>7 DEF Range
  <2>2. Range(claim) \subseteq Range(components)
    <3>1. SUFFICES ASSUME NEW n \in 1 .. k PROVE claim[n] \in Range(components)
      BY <1>1 DEF Range
    <3>2. PICK i \in 1 .. k : done[i] = n
      BY <1>8
    <3>3. QED
      BY <1>7, <3>2 DEF Range
  <2>3. QED
    BY <2>1, <2>2
<1>10. ASSUME Conflicts(components) PROVE Conflicts(claim)
  <2>1. PICK m \in 1 .. k, n \in 1 .. k :
            components[m].identity = components[n].identity /\ components[m] # components[n]
    BY <1>7, <1>10 DEF Conflicts
  <2>2. PICK i \in 1 .. k, j \in 1 .. k : i = done[m] /\ j = done[n]
    BY <1>7
  <2>3. claim[i].identity = claim[j].identity /\ claim[i] # claim[j]
    BY <1>7, <2>1, <2>2
  <2>4. QED
    BY <1>1, <2>3 DEF Conflicts
<1>11. ASSUME Conflicts(claim) PROVE Conflicts(components)
  <2>1. PICK m \in 1 .. k, n \in 1 .. k :
            claim[m].identity = claim[n].identity /\ claim[m] # claim[n]
    BY <1>1, <1>11 DEF Conflicts
  <2>2. PICK i \in 1 .. k, j \in 1 .. k : done[i] = m /\ done[j] = n
    BY <1>8
  <2>3. QED
    BY <1>7, <2>1, <2>2 DEF Conflicts
<1>12. QED
  BY <1>k, <1>c, <1>5, <1>6, <1>9, <1>10, <1>11

\* The steps of the inspection that do not parse.
LEMMA WholeStays ==
    ASSUME StoredInv, WholeInv,
           step \notin {"components", "aborted"}, step' \notin {"components", "aborted"},
           \/ UNCHANGED <<document, components, stored>>
                /\ (step \in {"seal"} \cup Written \/ step' \notin {"seal"} \cup Written)
           \/ document' = NoDocument /\ stored' = {}
    PROVE  ParsingInv' /\ WholeInv'
BY DEF WholeInv, ParsingInv, Taken, Acceptable, Conflicts

\* A document is opened: nothing is parsed yet.
LEMMA WholeOpens ==
    ASSUME StoredInv, step = "sbom", UNCHANGED storage, NEW doc \in Documents, ParseDocument(doc)
    PROVE  ParsingInv' /\ WholeInv'
<1>1. Parses(document)'
  BY ParsingStarts DEF ParseDocument
<1>2. stored' = {} /\ step' = "components"
  BY DEF StoredInv, storage, Written, ParseDocument
<1>3. QED
  BY <1>1, <1>2 DEF ParsingInv, WholeInv, Written

\* An inspection is given up.
LEMMA WholeAborts ==
    ASSUME StoredInv, step \notin Written \cup {"dead"}, Abort,
           document # NoDocument => ~Acceptable(document),
           job.target = "github" /\ badReplies' = 0 => document # NoDocument
    PROVE  ParsingInv' /\ WholeInv'
<1>1. step' = "aborted" /\ stored' = {} /\ document' = document /\ job' = job
  BY NothingStored DEF Abort, Written, sbom
<1>2. QED
  BY <1>1 DEF ParsingInv, WholeInv, Written

LEMMA ParseStep ==
    ASSUME InspectTypes, StoredInv, DocumentInv, ParsingInv, ParseComponent
    PROVE  ParsingInv' /\ WholeInv'
<1>1. /\ step = "components" /\ document # NoDocument /\ document \in Documents
      /\ pending # <<>>
  BY DEF ParseComponent, DocumentInv, InspectTypes
<1>2. WellNested(document)
  BY <1>1, DocumentsAreNested
<1>3. PICK level, done, ofs : Parsing(document, level, done, ofs)
  BY <1>1 DEF ParsingInv, Parses
<1>4. ofs # <<>>
  <2>1. SUFFICES ASSUME ofs = <<>> PROVE pending = <<>>
    BY <1>1
  <2>2. pending = [i \in 1 .. 0 |-> Description(level, ofs[i])]
    BY <1>3, <2>1 DEF Parsing, Described
  <2>3. QED
    BY <2>2
<1>5. PICK kids : Lists(document, Head(ofs), level, kids)
  BY <1>2, ChildrenAre
<1>6. ParsingMore(document, level, done, ofs, kids)
  BY <1>3, <1>4, <1>5 DEF ParsingMore
<1> DEFINE of == Head(pending).of
           depth == Head(pending).depth
           parsed == Append(components, document.claim[of])
           waiting == Children(document, of, depth + 1) \o Tail(pending)
<1>7. CASE depth > MaxDepth \/ ~(Len(parsed) + Len(waiting) <= MaxComponents)
  <2>1. ~Acceptable(document)
    BY <1>2, <1>6, <1>7, ParsingFails
  <2>2. Abort
    BY <1>7 DEF ParseComponent, WithinLimit
  <2>3. QED
    BY <1>1, <2>1, <2>2, WholeAborts DEF Written
<1>8. CASE ~(depth > MaxDepth) /\ Len(parsed) + Len(waiting) <= MaxComponents
  <2>1. /\ components' = parsed /\ pending' = waiting
        /\ UNCHANGED <<step, document, stored>>
    BY <1>8 DEF ParseComponent, WithinLimit, storage
  <2>2. Unfolded(document, level, done, Head(ofs), Append(done, Head(ofs)), kids \o Tail(ofs))
    BY <1>2, <1>6, ParsingUnfolds
  <2>3. of = Head(ofs) /\ depth = level[Head(ofs)] /\ Head(ofs) \in DOMAIN document.parent
    BY <1>2, <2>2, DocumentShape DEF Unfolded
  <2>4. level[Head(ofs)] \in Nat
    BY <1>3, <2>3 DEF Parsing, Nested
  <2>5. level[Head(ofs)] <= MaxDepth
    BY <1>8, <2>3, <2>4, LimitsAreNumbers
  <2>6. PICK doc : doc = document
    OBVIOUS
  <2>7. Parses(doc)'
    <3>1. ParsingMore(doc, level, done, ofs, kids) /\ WellNested(doc)
      BY <1>2, <1>6, <2>6
    <3>2. /\ components' = Append(components, doc.claim[Head(ofs)])
          /\ pending' = Children(doc, Head(ofs), level[Head(ofs)] + 1) \o Tail(pending)
      BY <2>1, <2>3, <2>6
    <3>3. Len(components') + Len(pending') <= MaxComponents
      BY <1>8, <2>1
    <3>4. QED
      BY <2>5, <3>1, <3>2, <3>3, LimitsAreNumbers, ParsingContinues
  <2>8. Parses(document)'
    BY <2>1, <2>6, <2>7
  <2>9. stored' = {} /\ step' = "components"
    BY <1>1, <2>1 DEF StoredInv, Written
  <2>10. QED
    BY <2>8, <2>9 DEF ParsingInv, WholeInv, Written
<1>9. QED
  BY <1>7, <1>8

LEMMA EndsStep ==
    ASSUME InspectTypes, StoredInv, DocumentInv, ParsingInv, DocumentEnds
    PROVE  ParsingInv' /\ WholeInv'
<1>1. /\ step = "components" /\ document # NoDocument /\ document \in Documents
      /\ pending = <<>> /\ document.format # "other"
  BY DEF DocumentEnds, DocumentInv, InspectTypes
<1>2. WellNested(document)
  BY <1>1, DocumentsAreNested
<1>3. PICK level, done, ofs : Parsing(document, level, done, ofs)
  BY <1>1 DEF ParsingInv, Parses
<1>4. ofs = <<>>
  <2>1. PICK D : D = 1 .. Len(document.parent)
    OBVIOUS
  <2>2. ofs \in Seq(D) /\ Described(level, ofs) = <<>>
    BY <1>1, <1>3, <2>1 DEF Parsing
  <2>3. Len(Described(level, ofs)) = Len(ofs)
    BY <2>2, DescribedIs
  <2>4. Len(ofs) = 0
    BY <2>2, <2>3
  <2>5. QED
    BY <2>2, <2>4
<1>5. /\ Len(document.parent) <= MaxComponents
      /\ \E f \in [DOMAIN document.parent -> 1 .. MaxDepth] :
            \A n \in DOMAIN document.parent :
                f[n] = IF document.parent[n] = 0 THEN 1 ELSE f[document.parent[n]] + 1
      /\ Range(components) = Range(document.claim)
      /\ Conflicts(components) <=> Conflicts(document.claim)
  BY <1>2, <1>3, <1>4, ParsingEnds
<1>6. CASE Conflicts(components)
  <2>1. ~Acceptable(document)
    BY <1>5, <1>6 DEF Acceptable
  <2>2. Abort
    BY <1>6 DEF DocumentEnds
  <2>3. QED
    BY <1>1, <2>1, <2>2, WholeAborts DEF Written
<1>7. CASE ~Conflicts(components)
  <2>1. Taken
    BY <1>1, <1>5, <1>7 DEF Taken, Acceptable
  <2>2. step' = "seal" /\ document' = document /\ components' = components
    BY <1>7 DEF DocumentEnds, sbom
  <2>3. Taken'
    BY <2>1, <2>2 DEF Taken
  <2>4. QED
    BY <2>2, <2>3 DEF ParsingInv, WholeInv
<1>8. QED
  BY <1>6, <1>7

LEMMA WholeStep ==
    InspectTypes /\ StoredInv /\ DocumentInv /\ ParsingInv /\ WholeInv /\ [InspectNext]_inspectVars
        => ParsingInv' /\ WholeInv'
<1> SUFFICES ASSUME InspectTypes, StoredInv, DocumentInv, ParsingInv, WholeInv,
                    [InspectNext]_inspectVars
             PROVE  ParsingInv' /\ WholeInv'
  OBVIOUS
<1>1. CASE ReadRepository
  <2>1. step = "repository" /\ document = NoDocument /\ stored = {}
    BY <1>1 DEF ReadRepository, Asks, DocumentInv, StoredInv, Written
  <2>2. CASE Abort
    <3>1. PICK reply \in Replies :
             /\ Answered(reply)
             /\ Raised(reply, FALSE) # NoError \/ step' = "languages"
      BY <1>1 DEF ReadRepository
    <3>2. Raised(reply, FALSE) # NoError
      BY <2>2, <3>1 DEF Abort
    <3>3. reply.run # "good"
      BY <3>2 DEF Raised
    <3>4. badReplies' # 0
      BY <3>1, <3>3 DEF Answered, InspectTypes
    <3>5. QED
      BY <2>1, <2>2, <3>4, WholeAborts DEF Written
  <2>3. CASE ~Abort
    <3>1. document' = NoDocument /\ stored' = {} /\ step' = "languages"
      BY <1>1, <2>1, <2>3 DEF ReadRepository, sbom, storage
    <3>2. QED
      BY <2>1, <3>1, WholeStays
  <2>4. QED
    BY <2>2, <2>3
<1>2. CASE ReadLanguages \/ ReadCommit
  <2>1. /\ step \in {"languages", "commit"} /\ step' \in {"commit", "sbom"}
        /\ UNCHANGED <<document, stored>>
    BY <1>2 DEF ReadLanguages, ReadCommit, ReadOptional, Asks, sbom, storage
  <2>2. document = NoDocument /\ stored = {}
    BY <2>1 DEF DocumentInv, StoredInv, Written
  <2>3. QED
    BY <2>1, <2>2, WholeStays
<1>3. CASE AskForSbom
  <2>1. step = "sbom" /\ document = NoDocument /\ stored = {} /\ UNCHANGED storage
    BY <1>3 DEF AskForSbom, Asks, DocumentInv, StoredInv, Written
  <2>2. \/ \E doc \in Documents : ParseDocument(doc)
        \/ step' = "seal" /\ document' = document
    BY <1>3 DEF AskForSbom, sbom
  <2>3. CASE \E doc \in Documents : ParseDocument(doc)
    BY <2>1, <2>3, WholeOpens
  <2>4. CASE step' = "seal" /\ document' = document
    BY <2>1, <2>4, WholeStays DEF storage
  <2>5. QED
    BY <2>2, <2>3, <2>4
<1>4. CASE ReadSuppliedSbom
  <2>1. job.supplied \in Documents
    BY <1>4 DEF ReadSuppliedSbom, InspectTypes, Jobs
  <2>2. QED
    BY <1>4, <2>1, WholeOpens DEF ReadSuppliedSbom
<1>a. CASE SuppliedUnreadable
  <2>1. step = "sbom" /\ Abort /\ badReplies' = badReplies + 1
    BY <1>a DEF SuppliedUnreadable
  <2>2. document = NoDocument /\ stored = {} /\ badReplies' # 0
    BY <2>1 DEF DocumentInv, StoredInv, Written, InspectTypes
  <2>3. QED
    BY <2>1, <2>2, WholeAborts DEF Written
<1>5. CASE NoSbomSupplied \/ DirectoryRead \/ WalkEnds
  <2>1. /\ step \in {"walk", "files", "sbom"} /\ step' \in {"walk", "sbom", "seal"}
        /\ UNCHANGED <<document, stored>>
    BY <1>5 DEF NoSbomSupplied, DirectoryRead, WalkEnds, sbom, storage
  <2>2. document = NoDocument /\ stored = {}
    BY <2>1 DEF DocumentInv, StoredInv, Written
  <2>3. QED
    BY <2>1, <2>2, WholeStays
<1>6. CASE VisitDirectory \/ ReadFile
  <2>1. step \in {"walk", "files"}
    BY <1>6 DEF VisitDirectory, ReadFile
  <2>2. document = NoDocument /\ stored = {} /\ job.target = "local"
    BY <2>1 DEF DocumentInv, StoredInv, Written, InspectTypes, JobInv
  <2>3. CASE Abort
    BY <2>1, <2>2, <2>3, WholeAborts DEF Written
  <2>4. CASE ~Abort
    <3>1. UNCHANGED <<document, stored>> /\ step' = "files"
      BY <1>6, <2>4 DEF VisitDirectory, ReadFile, sbom, storage
    <3>2. QED
      BY <2>1, <2>2, <3>1, WholeStays
  <2>5. QED
    BY <2>3, <2>4
<1>7. CASE UnsupportedFormat
  <2>1. step = "components" /\ Abort /\ ~Acceptable(document) /\ document # NoDocument
    BY <1>7 DEF UnsupportedFormat, Acceptable, DocumentInv
  <2>2. QED
    BY <2>1, WholeAborts DEF Written
<1>8. CASE ParseComponent
  BY <1>8, ParseStep
<1>9. CASE DocumentEnds
  BY <1>9, EndsStep
<1>10. CASE StoreSnapshot \/ PointToProject \/ PointToTarget
  <2>1. /\ UNCHANGED <<document, components>>
        /\ step \in {"seal"} \cup Written /\ step' \in Written
    BY <1>10 DEF StoreSnapshot, PointToProject, PointToTarget, Writes, Written, sbom
  <2>2. Taken' <=> Taken
    BY <2>1 DEF Taken
  <2>3. QED
    BY <2>1, <2>2 DEF WholeInv, ParsingInv, Written
<1>11. CASE Dies
  <2>1. UNCHANGED <<document, components, stored>> /\ step' = "dead"
    BY <1>11 DEF Dies, sbom, storage
  <2>2. Taken' <=> Taken
    BY <2>1 DEF Taken
  <2>3. QED
    BY <2>1, <2>2 DEF WholeInv, ParsingInv, Written
<1>12. ASSUME NEW t, EditTree(t) PROVE ParsingInv' /\ WholeInv'
  <2>1. /\ UNCHANGED <<document, components, stored>> /\ step' = step
        /\ step \in {"walk", "files"}
    BY <1>12 DEF EditTree, sbom, storage
  <2>2. QED
    BY <2>1, WholeStays DEF Written
<1>13. CASE FilesChange \/ DirectoryVanishes \/ DirectoryAppears \/ DirectoryMoves
  BY <1>12, <1>13 DEF FilesChange, DirectoryVanishes, DirectoryAppears, DirectoryMoves
<1>14. CASE UNCHANGED inspectVars
  <2>1. UNCHANGED <<document, components, pending, stored, step, job, badReplies>>
    BY <1>14 DEF inspectVars
  <2>2. (Taken' <=> Taken) /\ (Parses(document)' <=> Parses(document))
    BY <2>1 DEF Taken, Parses, Parsing
  <2>3. QED
    BY <2>1, <2>2 DEF WholeInv, ParsingInv
<1>15. QED
  BY <1>1, <1>2, <1>3, <1>4, <1>a, <1>5, <1>6, <1>7, <1>8, <1>9, <1>10, <1>11, <1>13,
     <1>14
  DEF InspectNext

LEMMA WholeInit == InspectInit => ParsingInv /\ WholeInv
BY DEF InspectInit, ParsingInv, WholeInv, Written

-----------------------------------------------------------------------------
(* The theorems.                                                           *)

InspectInv ==
    /\ InspectTypes /\ StoredInv /\ EvidenceInv
    /\ DocumentInv /\ WalkingInv /\ ParsingInv /\ WholeInv

\* What holds all along, for every tree and document and whatever fails: no
\* aspect of the evidence is forgotten or settled twice (EvidenceInv), nothing
\* of the tree gets lost between what is read and what is queued (WalkingInv),
\* and what is parsed and pending of a document is closed under nesting
\* (ParsingInv).
THEOREM InspectInvariant == InspectSpec => []InspectInv
<1>1. InspectInit => InspectInv
  BY InitTypes, EvidenceInit, DocumentInit, WalkingInit, WholeInit DEF InspectInv
<1>2. InspectInv /\ [InspectNext]_inspectVars => InspectInv'
  BY NextTypes, EvidenceStep, DocumentStep, WalkingStep, WholeStep DEF InspectInv
<1>3. QED
  BY <1>1, <1>2, PTL DEF InspectSpec

\* A pointer of the store names a stored snapshot, and one that accounts for
\* every aspect of its target, whatever requests fail and wherever the process
\* dies between its three durable writes.
THEOREM PointersAlwaysNameEvidence == InspectSpec => []PointersNameEvidence
<1>1. InspectInv => PointersNameEvidence
  <2>1. SUFFICES ASSUME InspectInv,
                        NEW snapshot \in {latestProject, latestOfTarget} \ {NoSnapshot}
                 PROVE  snapshot \in stored /\ Accounted(snapshot)
    BY DEF PointersNameEvidence
  <2>2. snapshot \in stored
    BY <2>1 DEF InspectInv, StoredInv
  <2>3. QED
    BY <2>1, <2>2, StoredIsSnapshot DEF InspectInv
<1>2. QED
  BY <1>1, InspectInvariant, PTL

\* However a tree is edited while it is walked, the inventory lists nothing that
\* never was, nothing of a skipped directory and nothing below a path that was
\* never a directory but a link, and every manifest that was there all along
\* below directories; of a tree nobody edits the walk ends with an inventory
\* exactly where the tree is within the limits on depth, files and manifests and
\* no link in a directory it lists leads out.
THEOREM InventoryAlwaysBracketed == InspectSpec => []InventoryIsBracketed
<1>1. InspectInv => InventoryIsBracketed
  <2> SUFFICES ASSUME InspectInv PROVE InventoryIsBracketed
    OBVIOUS
  <2>1. ASSUME NEW snapshot \in stored, snapshot.target = "local"
        PROVE  Bracketed /\ snapshot.manifests = facts
    <3>1. snapshot = Snapshot
      BY StoredIsSnapshot DEF InspectInv
    <3>2. job.target = "local" /\ snapshot.manifests = facts
      BY <2>1, <3>1 DEF Snapshot
    <3>3. QED
      BY <2>1, <3>2 DEF InspectInv, WalkingInv, WalkedInv
  <2>2. QED
    BY <2>1 DEF InventoryIsBracketed, Bracketed, Walked, InspectInv, WalkingInv, WalkedInv
<1>2. QED
  BY <1>1, InspectInvariant, PTL

\* A dependency inventory is taken whole or not at all: every component of the
\* document, where there are not too many, none lies too deep and no two
\* disagree, and an inspection that gives up over a document has found one of
\* these.
THEOREM DependenciesAlwaysWhole == InspectSpec => []DependenciesAreWhole
<1>1. InspectInv => DependenciesAreWhole
  <2> SUFFICES ASSUME InspectInv PROVE DependenciesAreWhole
    OBVIOUS
  <2>1. ASSUME NEW snapshot \in stored, snapshot.receipts["sbom"] = "available"
        PROVE  Acceptable(document) /\ snapshot.components = Range(document.claim)
    <3>1. snapshot = Snapshot
      BY StoredIsSnapshot DEF InspectInv
    <3>2. receipts["sbom"] = "available" /\ snapshot.components = Range(components)
      BY <2>1, <3>1 DEF Snapshot
    <3>3. document # NoDocument
      BY <3>2 DEF InspectInv, DocumentInv
    <3>4. Taken
      BY <2>1, <3>3 DEF InspectInv, WholeInv
    <3>5. QED
      BY <3>2, <3>4 DEF Taken
  <2>2. QED
    BY <2>1 DEF DependenciesAreWhole, InspectInv, WholeInv
<1>2. QED
  BY <1>1, InspectInvariant, PTL
-----------------------------------------------------------------------------
(* Recheck: references and gates.                                          *)

\* A decision is bound to one stored check, or to none.
DecisionsBound ==
    \A decision \in decisions :
        decision.check = {} \/ \E check \in checks : decision.check = {check}

\* What a recheck compares with is stored, and shows the gates of the target.
PriorInv ==
    Revalidating =>
        /\ target \in Targets
        /\ \E check \in checks :
            /\ prior = {check}
            /\ \A origin \in Origin(target) : Gates(check) = Gates(origin)

\* A check that was computed is stored before anything names it.
CurrentInv == phase \in {"checkFiled", "snapshotFiled", "moved"} => current \in checks

RecheckInv ==
    /\ TypeOK
    /\ ReferencesResolve
    /\ GatesSurvive
    /\ DecisionsBound
    /\ PriorInv
    /\ CurrentInv

-----------------------------------------------------------------------------

\* Outcome: a recheck that is not "material" saw the gates of its prior check.
LEMMA OutcomeKeepsGates ==
    ASSUME NEW a, NEW b, Outcome(a, b) # "material"
    PROVE  Gates(a) = Gates(b)
BY DEF Outcome, MaterialDiff

\* resolve_check_for_target: every target resolves to one stored check, which
\* shows the gates of the check the target itself names.
LEMMA TargetsHaveAPrior ==
    ASSUME ReferencesResolve, GatesSurvive, DecisionsBound, NEW t \in Targets
    PROVE  \E check \in checks :
              /\ Resolve(t) = {check}
              /\ \A origin \in Origin(t) : Gates(check) = Gates(origin)
<1>1. CASE t \in DOMAIN baselines
  BY <1>1 DEF ReferencesResolve, GatesSurvive, Resolve
<1>2. CASE t \notin DOMAIN baselines
  <2>1. \E check \in checks : Origin(t) = {check}
    BY DEF Targets, AsTarget, Origin, DecisionsBound
  <2> QED
    BY <1>2, <2>1 DEF Resolve
<1> QED
  BY <1>1, <1>2

\* Stop and Init: no command runs.
LEMMA IdleHoldsNothing ==
    ASSUME phase' = "idle", target' = NoTarget, prior' = {}, current' = NoCheck,
           ReferencesResolve', GatesSurvive', DecisionsBound', TypeOK'
    PROVE  RecheckInv'
BY DEF RecheckInv, PriorInv, CurrentInv, Revalidating

LEMMA StoreUntouched ==
    ASSUME RecheckInv, UNCHANGED <<checks, latestCheck, decisions, baselines>>
    PROVE  /\ Targets' = Targets
           /\ GatesSurvive' /\ DecisionsBound'
           /\ UNCHANGED lastRecheck => ReferencesResolve'
<1>1. Targets' = Targets
  BY DEF Targets, AsTarget
<1>2. GatesSurvive'
  BY DEF RecheckInv, GatesSurvive, Origin
<1>3. DecisionsBound'
  BY DEF RecheckInv, DecisionsBound
<1>4. UNCHANGED lastRecheck => ReferencesResolve'
  BY <1>1 DEF RecheckInv, ReferencesResolve
<1> QED
  BY <1>1, <1>2, <1>3, <1>4

\* Filing a check keeps every promise about the store.
LEMMA FilingIsSafe ==
    ASSUME RecheckInv, NEW check,
           checks' = checks \cup {check},
           UNCHANGED <<latestCheck, decisions, baselines, lastRecheck>>
    PROVE  /\ Targets \subseteq Targets'
           /\ ReferencesResolve' /\ GatesSurvive' /\ DecisionsBound'
<1>1. Targets \subseteq Targets'
  BY DEF Targets, AsTarget
<1>2. ReferencesResolve'
  BY <1>1 DEF RecheckInv, ReferencesResolve
<1>3. GatesSurvive'
  BY DEF RecheckInv, GatesSurvive, Origin
<1>4. DecisionsBound'
  BY DEF RecheckInv, DecisionsBound
<1> QED
  BY <1>1, <1>2, <1>3, <1>4

-----------------------------------------------------------------------------

LEMMA InitRecheckInv == Init => RecheckInv
<1> SUFFICES ASSUME Init PROVE RecheckInv
  OBVIOUS
<1> USE RecheckAssumption
<1>1. TypeOK
  BY DEF Init, TypeOK, Phases, Revalidating
<1>2. ReferencesResolve /\ GatesSurvive /\ DecisionsBound
  BY DEF Init, ReferencesResolve, GatesSurvive, DecisionsBound
<1>3. PriorInv /\ CurrentInv
  BY DEF Init, PriorInv, CurrentInv, Revalidating
<1> QED
  BY <1>1, <1>2, <1>3 DEF RecheckInv

\* Every action preserves the types.
LEMMA NextTypeOK == TypeOK /\ [Next]_vars => TypeOK'
<1> SUFFICES ASSUME TypeOK, [Next]_vars PROVE TypeOK'
  OBVIOUS
<1> USE RecheckAssumption
<1> USE DEF TypeOK, Phases, Revalidating, worldVars, storeVars, localVars
<1>1. ASSUME NEW i \in 1..SourceCount, NEW content \in Batches \cup {Failed},
             SourceChanges(i, content)
      PROVE  TypeOK'
  BY <1>1 DEF SourceChanges
<1>2. CASE DayPasses
  BY <1>2 DEF DayPasses
<1>3. ASSUME NEW s \in Specs, StartCheck(s) PROVE TypeOK'
  BY <1>3 DEF StartCheck, Begin
<1>4. CASE CheckFails
  BY <1>4 DEF CheckFails, Stop
<1>5. CASE WriteCheck
  BY <1>5 DEF WriteCheck
<1>6. CASE WriteLatestCheck
  BY <1>6 DEF WriteLatestCheck, Stop
<1>7. CASE LoadSource
  BY <1>7 DEF LoadSource, LoadedAll, NextSource
<1>8. ASSUME NEW t \in Targets, StartRecheck(t) PROVE TypeOK'
  BY <1>8 DEF StartRecheck, Begin
<1>9. CASE WriteSnapshot
  BY <1>9 DEF WriteSnapshot
<1>10. CASE UpdateBaseline
  BY <1>10 DEF UpdateBaseline
<1>11. CASE WriteRecheck
  BY <1>11 DEF WriteRecheck, Stop
<1>12. ASSUME NEW repository, NEW check, NEW supersedes,
              Remember(repository, check, supersedes)
       PROVE  TypeOK'
  BY <1>12 DEF Remember
<1>13. CASE Crash
  BY <1>13 DEF Crash, Stop
<1>14. CASE UNCHANGED vars
  BY <1>14 DEF vars
<1> QED
  BY <1>1, <1>2, <1>3, <1>4, <1>5, <1>6, <1>7, <1>8, <1>9, <1>10, <1>11, <1>12,
     <1>13, <1>14 DEF Next, World, Check, Revalidate, Decide

LEMMA NextRecheckInv == RecheckInv /\ [Next]_vars => RecheckInv'
<1> SUFFICES ASSUME RecheckInv, [Next]_vars PROVE RecheckInv'
  OBVIOUS
<1>t. TypeOK'
  BY NextTypeOK DEF RecheckInv
<1> USE DEF worldVars, storeVars, localVars
\* Steps that leave the store and what the command compares alone.
<1>q. ASSUME UNCHANGED <<storeVars, target, prior, current>>,
             phase' = phase
      PROVE  RecheckInv'
  <2>1. Targets' = Targets /\ ReferencesResolve' /\ GatesSurvive' /\ DecisionsBound'
    BY <1>q, StoreUntouched
  <2>2. PriorInv' /\ CurrentInv'
    BY <1>q, <2>1 DEF RecheckInv, PriorInv, CurrentInv, Revalidating, Origin
  <2> QED
    BY <1>t, <2>1, <2>2 DEF RecheckInv
\* Steps that end a command without a write.
<1>s. ASSUME Stop, UNCHANGED storeVars PROVE RecheckInv'
  BY <1>s, <1>t, StoreUntouched, IdleHoldsNothing DEF Stop
<1>1. ASSUME NEW i \in 1..SourceCount, NEW content \in Batches \cup {Failed},
             SourceChanges(i, content)
      PROVE  RecheckInv'
  BY <1>1, <1>q DEF SourceChanges
<1>2. CASE DayPasses
  BY <1>2, <1>q DEF DayPasses
<1>3. ASSUME NEW s \in Specs, StartCheck(s) PROVE RecheckInv'
  <2>1. ReferencesResolve' /\ GatesSurvive' /\ DecisionsBound'
    BY <1>3, StoreUntouched DEF StartCheck, Begin
  <2>2. PriorInv' /\ CurrentInv'
    BY <1>3 DEF StartCheck, Begin, PriorInv, CurrentInv, Revalidating
  <2> QED
    BY <1>t, <2>1, <2>2 DEF RecheckInv
<1>4. CASE CheckFails
  BY <1>4, <1>s DEF CheckFails
<1>5. CASE WriteCheck
  <2>1. ReferencesResolve' /\ GatesSurvive' /\ DecisionsBound'
    BY <1>5, FilingIsSafe DEF WriteCheck
  <2>2. PriorInv' /\ CurrentInv'
    BY <1>5 DEF WriteCheck, PriorInv, CurrentInv, Revalidating
  <2> QED
    BY <1>t, <2>1, <2>2 DEF RecheckInv
<1>6. CASE WriteLatestCheck
  <2>1. Targets' = Targets
    BY <1>6 DEF WriteLatestCheck, Targets, AsTarget
  <2>2. ReferencesResolve'
    BY <1>6, <2>1 DEF WriteLatestCheck, RecheckInv, ReferencesResolve, CurrentInv
  <2>3. GatesSurvive' /\ DecisionsBound'
    BY <1>6 DEF WriteLatestCheck, RecheckInv, GatesSurvive, DecisionsBound, Origin
  <2> QED
    BY <1>6, <1>t, <2>2, <2>3, IdleHoldsNothing DEF WriteLatestCheck, Stop
<1>7. CASE LoadSource
  BY <1>7, <1>q DEF LoadSource
<1>8. ASSUME NEW t \in Targets, StartRecheck(t) PROVE RecheckInv'
  <2>1. Targets' = Targets /\ ReferencesResolve' /\ GatesSurvive' /\ DecisionsBound'
    BY <1>8, StoreUntouched DEF StartRecheck, Begin
  <2>2. PICK check \in checks :
           /\ Resolve(t) = {check}
           /\ \A origin \in Origin(t) : Gates(check) = Gates(origin)
    BY TargetsHaveAPrior DEF RecheckInv
  <2>3. PriorInv'
    BY <1>8, <2>1, <2>2 DEF StartRecheck, Begin, PriorInv, Origin
  <2>4. CurrentInv'
    BY <1>8 DEF StartRecheck, Begin, CurrentInv
  <2> QED
    BY <1>t, <2>1, <2>3, <2>4 DEF RecheckInv
<1>9. CASE WriteSnapshot
  <2>1. Targets \subseteq Targets' /\ ReferencesResolve' /\ GatesSurvive' /\ DecisionsBound'
    BY <1>9, FilingIsSafe DEF WriteSnapshot
  <2>2. PriorInv'
    BY <1>9, <2>1 DEF WriteSnapshot, RecheckInv, PriorInv, Revalidating, Origin
  <2>3. CurrentInv'
    BY <1>9 DEF WriteSnapshot, CurrentInv
  <2> QED
    BY <1>t, <2>1, <2>2, <2>3 DEF RecheckInv
<1>10. CASE UpdateBaseline
  <2>1. PICK check \in checks :
           /\ prior = {check}
           /\ \A origin \in Origin(target) : Gates(check) = Gates(origin)
    BY <1>10 DEF UpdateBaseline, RecheckInv, PriorInv, Revalidating
  <2>2. current \in checks /\ target \in Targets
    BY <1>10 DEF UpdateBaseline, RecheckInv, PriorInv, CurrentInv, Revalidating
  <2>3. PriorCheck = check
    BY <2>1 DEF PriorCheck
  <2>4. Gates(check) = Gates(current)
    BY <1>10, <2>3, OutcomeKeepsGates DEF UpdateBaseline
  <2>5. /\ DOMAIN baselines' = DOMAIN baselines \cup {target}
        /\ \A t \in DOMAIN baselines' :
              baselines'[t] = IF t = target THEN current ELSE baselines[t]
    BY <1>10 DEF UpdateBaseline, MoveBaseline
  <2>6. Targets' = Targets
    BY <1>10 DEF UpdateBaseline, Targets, AsTarget
  <2>7. ReferencesResolve'
    BY <1>10, <2>2, <2>5, <2>6 DEF UpdateBaseline, RecheckInv, ReferencesResolve
  <2>8. GatesSurvive'
    BY <2>1, <2>4, <2>5 DEF RecheckInv, GatesSurvive, Origin
  <2>9. DecisionsBound' /\ PriorInv' /\ CurrentInv'
    BY <1>10, <2>1, <2>2, <2>6
    DEF UpdateBaseline, RecheckInv, DecisionsBound, PriorInv, CurrentInv, Origin
  <2> QED
    BY <1>t, <2>7, <2>8, <2>9 DEF RecheckInv
<1>11. CASE WriteRecheck
  <2>1. GatesSurvive' /\ DecisionsBound' /\ Targets' = Targets
    BY <1>11, StoreUntouched DEF WriteRecheck
  <2>2. Revalidating
    BY <1>11 DEF WriteRecheck, Revalidating
  <2>3. PriorCheck \in checks
    BY <2>2 DEF RecheckInv, PriorInv, PriorCheck
  <2>4. SomeSourceFailed \/ current \in checks
    BY <1>11 DEF WriteRecheck, RecheckInv, CurrentInv
  <2>5. ReferencesResolve'
    BY <1>11, <2>1, <2>3, <2>4 DEF WriteRecheck, RecheckInv, ReferencesResolve
  <2> QED
    BY <1>11, <1>t, <2>1, <2>5, IdleHoldsNothing DEF WriteRecheck, Stop
<1>12. ASSUME NEW repository, NEW check \in OneOf(checks),
              NEW supersedes \in OneOf(decisions), Remember(repository, check, supersedes)
       PROVE  RecheckInv'
  <2>1. Targets \subseteq Targets'
    BY <1>12 DEF Remember, Targets, AsTarget
  <2>2. ReferencesResolve'
    BY <1>12, <2>1 DEF Remember, RecheckInv, ReferencesResolve
  <2>3. GatesSurvive'
    BY <1>12 DEF Remember, RecheckInv, GatesSurvive, Origin
  <2>4. DecisionsBound'
    BY <1>12 DEF Remember, RecheckInv, DecisionsBound, OneOf
  <2>5. PriorInv' /\ CurrentInv'
    BY <1>12 DEF Remember, PriorInv, CurrentInv, Revalidating
  <2> QED
    BY <1>t, <2>2, <2>3, <2>4, <2>5 DEF RecheckInv
<1>13. CASE Crash
  BY <1>13, <1>s DEF Crash
<1>14. CASE UNCHANGED vars
  BY <1>14, <1>q DEF vars
<1> QED
  BY <1>1, <1>2, <1>3, <1>4, <1>5, <1>6, <1>7, <1>8, <1>9, <1>10, <1>11, <1>12,
     <1>13, <1>14 DEF Next, World, Check, Revalidate, Decide

\* The inductive invariant of the store of checks and baselines.
THEOREM RecheckInvariant == Spec => []RecheckInv
<1> QED
  BY InitRecheckInv, NextRecheckInv, PTL DEF Spec

\* Every reachable state of the store and of a running command is well typed.
THEOREM RecheckTypeCorrect == Spec => []TypeOK
<1>1. RecheckInv => TypeOK
  BY DEF RecheckInv
<1> QED
  BY <1>1, RecheckInvariant, PTL

\* state.py: pointers, decisions and baselines name stored checks, whichever
\* write a crash follows.
THEOREM ReferencesAlwaysResolve == Spec => []ReferencesResolve
<1>1. RecheckInv => ReferencesResolve
  BY DEF RecheckInv
<1> QED
  BY <1>1, RecheckInvariant, PTL

\* rechecked(): through any chain of rechecks a baseline keeps the gates of the
\* check its target names.
THEOREM GatesAlwaysSurvive == Spec => []GatesSurvive
<1>1. RecheckInv => GatesSurvive
  BY DEF RecheckInv
<1> QED
  BY <1>1, RecheckInvariant, PTL

-----------------------------------------------------------------------------
(* Whole evidence.                                                         *)

\* A check that is still being made has lost no source.
WholeChecks ==
    /\ EvidenceIsWhole
    /\ phase = "checking" => Elements(read) \subseteq Batches

\* What is evaluated when every source has answered.
LEMMA EvaluatesAllRead ==
    ASSUME TypeOK, LoadedAll, Elements(read) \subseteq Batches
    PROVE  Len(Evaluated.observed) = SourceCount
<1>1. read \in Seq(Batches \cup {Failed})
  BY DEF TypeOK
<1>2. Select(read, Batches) = read
  BY <1>1, SelectProperties
<1>3. QED
  BY <1>2 DEF Evaluated, CheckOf, LoadedAll

LEMMA WholeKept ==
    ASSUME RecheckInv, WholeChecks, [Next]_vars
    PROVE  WholeChecks'
<1> USE DEF worldVars, storeVars, localVars, WholeChecks, EvidenceIsWhole
<1>t. TypeOK
  BY DEF RecheckInv
<1>1. ASSUME UNCHANGED <<checks, phase, read>> PROVE WholeChecks'
  BY <1>1
<1>2. ASSUME UNCHANGED checks, phase' # "checking" PROVE WholeChecks'
  BY <1>2
<1>3. ASSUME NEW i \in 1..SourceCount, NEW content \in Batches \cup {Failed},
             SourceChanges(i, content)
      PROVE  WholeChecks'
  BY <1>1, <1>3 DEF SourceChanges
<1>4. CASE DayPasses
  BY <1>1, <1>4 DEF DayPasses
<1>5. ASSUME NEW s \in Specs, StartCheck(s) PROVE WholeChecks'
  <2>1. read' = <<>> /\ UNCHANGED checks
    BY <1>5, <1>t DEF StartCheck, Begin, TypeOK
  <2>2. QED
    BY <2>1 DEF Elements
<1>6. CASE CheckFails
  BY <1>2, <1>6 DEF CheckFails, Stop
<1>7. CASE WriteCheck
  <2>1. Len(Evaluated.observed) = SourceCount
    BY <1>7, <1>t, EvaluatesAllRead DEF WriteCheck
  <2>2. QED
    BY <1>7, <2>1 DEF WriteCheck
<1>8. CASE WriteLatestCheck
  BY <1>2, <1>8 DEF WriteLatestCheck, Stop
<1>9. CASE LoadSource
  <2>1. SUFFICES ASSUME phase = "checking" PROVE Elements(read') \subseteq Batches
    BY <1>9 DEF LoadSource
  <2>2. /\ read' = Append(read, sources[NextSource])
        /\ NextSource \in 1..SourceCount
        /\ sources[NextSource] # Failed
    BY <1>9, <1>t, <2>1, RecheckAssumption DEF LoadSource, LoadedAll, NextSource, TypeOK
  <2>3. sources[NextSource] \in Batches
    BY <1>t, <2>2 DEF TypeOK
  <2>4. QED
    BY <1>t, <2>1, <2>2, <2>3 DEF Elements, TypeOK
<1>10. ASSUME NEW t \in Targets, StartRecheck(t) PROVE WholeChecks'
  BY <1>2, <1>10 DEF StartRecheck, Begin
<1>11. CASE WriteSnapshot
  <2>1. Elements(read) \subseteq Batches
    BY <1>11, <1>t DEF WriteSnapshot, SomeSourceFailed, Elements, TypeOK
  <2>2. Len(Evaluated.observed) = SourceCount
    BY <1>11, <1>t, <2>1, EvaluatesAllRead DEF WriteSnapshot
  <2>3. QED
    BY <1>11, <2>2 DEF WriteSnapshot
<1>12. CASE UpdateBaseline
  BY <1>2, <1>12 DEF UpdateBaseline
<1>13. CASE WriteRecheck
  BY <1>2, <1>13 DEF WriteRecheck, Stop
<1>14. ASSUME NEW repository, NEW check, NEW supersedes,
              Remember(repository, check, supersedes)
       PROVE  WholeChecks'
  BY <1>1, <1>14 DEF Remember
<1>15. CASE Crash
  BY <1>2, <1>15 DEF Crash, Stop
<1>16. CASE UNCHANGED vars
  BY <1>1, <1>16 DEF vars
<1> QED
  BY <1>3, <1>4, <1>5, <1>6, <1>7, <1>8, <1>9, <1>10, <1>11, <1>12, <1>13, <1>14,
     <1>15, <1>16 DEF Next, World, Check, Revalidate, Decide

\* checked() gives up at the first source that fails and rechecked() files no
\* snapshot when one did: every stored check stands on all of its sources.
THEOREM EvidenceAlwaysWhole == Spec => []EvidenceIsWhole
<1>1. Init => WholeChecks
  BY DEF Init, WholeChecks, EvidenceIsWhole
<1>2. RecheckInv /\ WholeChecks /\ [Next]_vars => WholeChecks'
  BY WholeKept
<1>3. WholeChecks => EvidenceIsWhole
  BY DEF WholeChecks
<1> QED
  BY <1>1, <1>2, <1>3, RecheckInvariant, PTL DEF Spec

-----------------------------------------------------------------------------
(* The order of candidates.                                                *)

\* R puts the elements of S in an order.
Orders(R, S) ==
    /\ R \subseteq S \X S
    /\ \A a \in S : <<a, a>> \in R
    /\ \A a, b \in S : <<a, b>> \in R \/ <<b, a>> \in R
    /\ \A a, b \in S : <<a, b>> \in R /\ <<b, a>> \in R => a = b
    /\ \A a, b, c \in S : <<a, b>> \in R /\ <<b, c>> \in R => <<a, c>> \in R

\* v is S in that order.
InThatOrder(v, S, R) ==
    /\ v \in Seq(S) /\ Len(v) = Cardinality(S) /\ Elements(v) = S
    /\ \A i, j \in 1 .. Len(v) : i < j => <<v[i], v[j]>> \in R /\ v[i] # v[j]

\* A place in an order is the number of those that are not after it, and no place
\* is empty.
LEMMA InOrderIsOrdered ==
    ASSUME NEW S, IsFiniteSet(S), NEW R, Orders(R, S)
    PROVE  InThatOrder(InOrder(S, R), S, R)
<1> DEFINE upTo(c) == {d \in S : <<d, c>> \in R}
           rank(c) == Cardinality(upTo(c))
           N == Cardinality(S)
<1>1. N \in Nat
  BY FS_CardinalityType
<1>2. \A c \in S : IsFiniteSet(upTo(c)) /\ rank(c) \in 1 .. N
  <2> SUFFICES ASSUME NEW c \in S PROVE IsFiniteSet(upTo(c)) /\ rank(c) \in 1 .. N
    OBVIOUS
  <2>1. upTo(c) \in SUBSET S /\ c \in upTo(c)
    BY DEF Orders
  <2>2. IsFiniteSet(upTo(c)) /\ rank(c) <= N
    BY <2>1, FS_Subset
  <2>3. rank(c) \in Nat /\ rank(c) # 0
    <3> HIDE DEF upTo
    <3>1. QED
      BY <2>1, <2>2, FS_CardinalityType, FS_EmptySet
  <2>4. QED
    BY <1>1, <2>2, <2>3
<1>3. ASSUME NEW a \in S, NEW b \in S, <<a, b>> \in R, a # b
      PROVE  rank(a) < rank(b)
  <2>1. upTo(a) \in SUBSET upTo(b) /\ b \in upTo(b) /\ b \notin upTo(a)
    BY <1>3 DEF Orders
  <2>2. IsFiniteSet(upTo(b)) /\ rank(a) \in 1 .. N /\ rank(b) \in 1 .. N
    BY <1>2
  <2>3. rank(a) <= rank(b) /\ rank(a) # rank(b)
    <3> HIDE DEF upTo
    <3>1. QED
      BY <2>1, <2>2, FS_Subset
  <2>4. QED
    BY <1>1, <2>2, <2>3
<1>4. \A n \in 1 .. N : \E c \in S : rank(c) = n
  <2> DEFINE f == [c \in S |-> rank(c)]
  <2>1. f \in [S -> 1 .. N]
    BY <1>2
  <2>2. \A a, b \in S : f[a] = f[b] => a = b
    <3> SUFFICES ASSUME NEW a \in S, NEW b \in S, rank(a) = rank(b), a # b PROVE FALSE
      OBVIOUS
    <3>1. rank(a) < rank(b) \/ rank(b) < rank(a)
      <4>1. <<a, b>> \in R \/ <<b, a>> \in R
        BY DEF Orders
      <4>2. QED
        BY <1>3, <4>1
    <3>2. rank(a) \in Nat /\ rank(b) \in Nat
      BY <1>2
    <3>3. QED
      BY <3>1, <3>2
  <2>3. f \in Injection(S, 1 .. N)
    BY <2>1, <2>2 DEF Injection, IsInjective
  <2>4. IsFiniteSet(1 .. N) /\ Cardinality(1 .. N) = N
    BY <1>1, FS_Interval
  <2>5. f \in Surjection(S, 1 .. N)
    <3> HIDE DEF f
    <3>1. QED
      BY <2>3, <2>4, FS_Injection
  <2>6. QED
    BY <2>5 DEF Surjection
<1> DEFINE v == InOrder(S, R)
<1>5. v = [n \in 1 .. N |-> CHOOSE c \in S : rank(c) = n]
  BY DEF InOrder
<1>6. \A n \in 1 .. N : v[n] \in S /\ rank(v[n]) = n
  <2> HIDE DEF rank
  <2>1. QED
    BY <1>4, <1>5
<1>7. v \in Seq(S) /\ Len(v) = N
  <2> HIDE DEF rank
  <2>1. v \in [1 .. N -> S]
    BY <1>5, <1>6
  <2>2. QED
    BY <1>1, <2>1
<1>8. Elements(v) = S
  <2>1. \A c \in S : v[rank(c)] = c
    <3> SUFFICES ASSUME NEW c \in S, v[rank(c)] # c PROVE FALSE
      OBVIOUS
    <3>1. v[rank(c)] \in S /\ rank(v[rank(c)]) = rank(c)
      <4> HIDE DEF rank, v
      <4>1. QED
        BY <1>2, <1>6
    <3>2. rank(c) < rank(c)
      <4> HIDE DEF v
      <4>1. <<c, v[rank(c)]>> \in R \/ <<v[rank(c)], c>> \in R
        BY <3>1 DEF Orders
      <4>2. QED
        BY <1>3, <3>1, <4>1
    <3>3. QED
      BY <1>2, <3>2
  <2> HIDE DEF rank, v
  <2>2. QED
    BY <1>2, <1>6, <1>7, <2>1 DEF Elements
<1>9. ASSUME NEW i \in 1 .. N, NEW j \in 1 .. N, i < j
      PROVE  <<v[i], v[j]>> \in R /\ v[i] # v[j]
  <2> HIDE DEF rank, v
  <2>1. v[i] \in S /\ v[j] \in S /\ rank(v[i]) = i /\ rank(v[j]) = j
    BY <1>6
  <2>2. v[i] # v[j]
    BY <1>9, <2>1
  <2>3. <<v[j], v[i]>> \notin R
    BY <1>3, <1>9, <2>1, <2>2
  <2>4. QED
    BY <2>1, <2>2, <2>3 DEF Orders
<1> HIDE DEF v
<1>10. InThatOrder(v, S, R)
  BY <1>7, <1>8, <1>9 DEF InThatOrder
<1>11. QED
  BY <1>10 DEF v

-----------------------------------------------------------------------------

SortKeys == [fact : Facts, descending : BOOLEAN]

Same(a, b, key) == a.facts[key.fact] = b.facts[key.fact]

\* What is known of a candidate is one number.
LEMMA KnownValue ==
    ASSUME NEW c \in Candidates, NEW key \in SortKeys
    PROVE  \/ c.facts[key.fact] = {}
           \/ Value(c, key) \in Int /\ c.facts[key.fact] = {Value(c, key)}
<1> SUFFICES ASSUME c.facts[key.fact] # {}
             PROVE  Value(c, key) \in Int /\ c.facts[key.fact] = {Value(c, key)}
  OBVIOUS
<1>1. key.fact \in Facts
  BY DEF SortKeys
<1>2. /\ c.facts \in [Facts -> SUBSET Int]
      /\ \A known, other \in c.facts[key.fact] : known = other
  BY <1>1 DEF Candidates
<1>3. Value(c, key) \in c.facts[key.fact]
  BY DEF Value
<1>4. QED
  BY <1>1, <1>2, <1>3

\* A key tells two candidates apart or they agree in its fact, and it does so in
\* one sense.
LEMMA KeysCompare ==
    ASSUME NEW key \in SortKeys, NEW a \in Candidates, NEW b \in Candidates
    PROVE  /\ KeyBefore(a, b, key) \/ KeyBefore(b, a, key) \/ Same(a, b, key)
           /\ KeyBefore(a, b, key) => ~KeyBefore(b, a, key) /\ ~Same(a, b, key)
<1> DEFINE x == Value(a, key)
           y == Value(b, key)
<1>1. a.facts[key.fact] = {} \/ (x \in Int /\ a.facts[key.fact] = {x})
  BY KnownValue
<1>2. b.facts[key.fact] = {} \/ (y \in Int /\ b.facts[key.fact] = {y})
  BY KnownValue
<1>3. /\ Precedes(a, b, key) <=> IF key.descending THEN x > y ELSE x < y
      /\ Precedes(b, a, key) <=> IF key.descending THEN y > x ELSE y < x
  BY DEF Precedes
<1> HIDE DEF x, y
<1>4. {x} = {y} <=> x = y
  OBVIOUS
<1>5. CASE a.facts[key.fact] = {} \/ b.facts[key.fact] = {}
  BY <1>1, <1>2, <1>5 DEF KeyBefore, Same
<1>6. CASE a.facts[key.fact] # {} /\ b.facts[key.fact] # {}
  <2>1. /\ KeyBefore(a, b, key) <=> Precedes(a, b, key)
        /\ KeyBefore(b, a, key) <=> Precedes(b, a, key)
        /\ Same(a, b, key) <=> x = y
    BY <1>1, <1>2, <1>4, <1>6 DEF KeyBefore, Same
  <2>2. x \in Int /\ y \in Int
    BY <1>1, <1>2, <1>6
  <2>3. QED
    BY <1>3, <2>1, <2>2
<1>7. QED
  BY <1>5, <1>6

LEMMA KeysAreTransitive ==
    ASSUME NEW key \in SortKeys,
           NEW a \in Candidates, NEW b \in Candidates, NEW c \in Candidates,
           KeyBefore(a, b, key), KeyBefore(b, c, key)
    PROVE  KeyBefore(a, c, key)
<1> DEFINE x == Value(a, key)
           y == Value(b, key)
           z == Value(c, key)
<1>1. a.facts[key.fact] = {} \/ (x \in Int /\ a.facts[key.fact] = {x})
  BY KnownValue
<1>2. b.facts[key.fact] = {} \/ (y \in Int /\ b.facts[key.fact] = {y})
  BY KnownValue
<1>3. c.facts[key.fact] = {} \/ (z \in Int /\ c.facts[key.fact] = {z})
  BY KnownValue
<1>4. /\ Precedes(a, b, key) <=> IF key.descending THEN x > y ELSE x < y
      /\ Precedes(b, c, key) <=> IF key.descending THEN y > z ELSE y < z
      /\ Precedes(a, c, key) <=> IF key.descending THEN x > z ELSE x < z
  BY DEF Precedes
<1> HIDE DEF x, y, z
<1>5. QED
  BY <1>1, <1>2, <1>3, <1>4 DEF KeyBefore

\* Candidates that agree in a fact are told from others by its key alike.
LEMMA SameKeys ==
    ASSUME NEW key \in SortKeys, NEW a, NEW b, NEW c, Same(b, c, key)
    PROVE  /\ KeyBefore(a, b, key) <=> KeyBefore(a, c, key)
           /\ KeyBefore(b, a, key) <=> KeyBefore(c, a, key)
<1>1. Value(b, key) = Value(c, key)
  BY DEF Value, Same
<1>2. QED
  BY <1>1 DEF KeyBefore, Same, Precedes

-----------------------------------------------------------------------------
\* One stable pass.
LEMMA StablePass ==
    ASSUME NEW S \in SUBSET Candidates, NEW R, Orders(R, S), NEW key \in SortKeys
    PROVE  /\ Orders(StableSortBy(R, key), S)
           /\ \A a, b \in S : <<a, b>> \in StableSortBy(R, key)
                 <=> KeyBefore(a, b, key) \/ (Same(a, b, key) /\ <<a, b>> \in R)
<1> DEFINE P == StableSortBy(R, key)
<1>1. \A a, b \in S : <<a, b>> \in P
          <=> \/ <<b, a>> \in R /\ KeyBefore(a, b, key)
              \/ <<a, b>> \in R /\ ~KeyBefore(b, a, key)
  <2> SUFFICES ASSUME NEW a \in S, NEW b \in S
               PROVE  <<a, b>> \in P
                        <=> \/ <<b, a>> \in R /\ KeyBefore(a, b, key)
                            \/ <<a, b>> \in R /\ ~KeyBefore(b, a, key)
    OBVIOUS
  <2>1. \A pair \in R : pair = <<pair[1], pair[2]>>
    BY DEF Orders
  <2>2. ASSUME NEW pair \in R, <<a, b>> = IF KeyBefore(pair[2], pair[1], key)
                                       THEN <<pair[2], pair[1]>> ELSE pair
        PROVE  \/ <<b, a>> \in R /\ KeyBefore(a, b, key)
               \/ <<a, b>> \in R /\ ~KeyBefore(b, a, key)
    <3>1. CASE KeyBefore(pair[2], pair[1], key)
      <4>1. a = pair[2] /\ b = pair[1]
        BY <2>2, <3>1
      <4>2. QED
        BY <2>1, <3>1, <4>1
    <3>2. CASE ~KeyBefore(pair[2], pair[1], key)
      <4>1. pair = <<a, b>> /\ a = pair[1] /\ b = pair[2]
        BY <2>2, <3>2
      <4>2. QED
        BY <3>2, <4>1
    <3>3. QED
      BY <3>1, <3>2
  <2>3. ASSUME <<b, a>> \in R, KeyBefore(a, b, key) PROVE <<a, b>> \in P
    <3>1. PICK pair \in R : pair = <<b, a>>
      BY <2>3
    <3>2. pair[2] = a /\ pair[1] = b
      BY <3>1
    <3>3. QED
      BY <2>3, <3>2 DEF StableSortBy
  <2>4. ASSUME <<a, b>> \in R, ~KeyBefore(b, a, key) PROVE <<a, b>> \in P
    <3>1. PICK pair \in R : pair = <<a, b>>
      BY <2>4
    <3>2. pair[2] = b /\ pair[1] = a
      BY <3>1
    <3>3. QED
      BY <2>4, <3>1, <3>2 DEF StableSortBy
  <2>5. <<a, b>> \in P => \E pair \in R : <<a, b>> = IF KeyBefore(pair[2], pair[1], key)
                                       THEN <<pair[2], pair[1]>> ELSE pair
    BY DEF StableSortBy
  <2>6. QED
    BY <2>2, <2>3, <2>4, <2>5
<1>2. P \subseteq S \X S
  BY DEF StableSortBy, Orders
<1>3. \A a, b \in S : <<a, b>> \in P
          <=> KeyBefore(a, b, key) \/ (Same(a, b, key) /\ <<a, b>> \in R)
  <2> SUFFICES ASSUME NEW a \in S, NEW b \in S
               PROVE  <<a, b>> \in P
                        <=> KeyBefore(a, b, key) \/ (Same(a, b, key) /\ <<a, b>> \in R)
    OBVIOUS
  <2>1. <<a, b>> \in R \/ <<b, a>> \in R
    BY DEF Orders
  <2>2. /\ KeyBefore(a, b, key) \/ KeyBefore(b, a, key) \/ Same(a, b, key)
        /\ KeyBefore(a, b, key) => ~KeyBefore(b, a, key) /\ ~Same(a, b, key)
    BY KeysCompare
  <2>3. KeyBefore(b, a, key) => ~Same(a, b, key)
    BY KeysCompare DEF Same
  <2> HIDE DEF P
  <2>4. QED
    BY <1>1, <2>1, <2>2, <2>3
<1> HIDE DEF P
<1>4. \A a, b \in S : /\ KeyBefore(a, b, key) \/ KeyBefore(b, a, key) \/ Same(a, b, key)
                      /\ KeyBefore(a, b, key) => ~KeyBefore(b, a, key) /\ ~Same(b, a, key)
  BY KeysCompare DEF Same
<1>5. \A a, b \in S : Same(a, b, key) <=> Same(b, a, key)
  BY DEF Same
<1>6. \A a \in S : Same(a, a, key)
  BY DEF Same
<1>7. ASSUME NEW a \in S, NEW b \in S, NEW c \in S, <<a, b>> \in P, <<b, c>> \in P
      PROVE  <<a, c>> \in P
  <2>1. CASE KeyBefore(a, b, key) /\ KeyBefore(b, c, key)
    BY <1>3, <2>1, KeysAreTransitive
  <2>2. CASE KeyBefore(a, b, key) /\ Same(b, c, key)
    BY <1>3, <2>2, SameKeys
  <2>3. CASE Same(a, b, key) /\ KeyBefore(b, c, key)
    <3>1. KeyBefore(a, c, key)
      BY <1>5, <2>3, SameKeys
    <3>2. QED
      BY <1>3, <3>1
  <2>4. CASE Same(a, b, key) /\ Same(b, c, key) /\ <<a, b>> \in R /\ <<b, c>> \in R
    <3>1. Same(a, c, key)
      BY <2>4 DEF Same
    <3>2. <<a, c>> \in R
      BY <2>4 DEF Orders
    <3>3. QED
      BY <1>3, <3>1, <3>2
  <2>5. QED
    BY <1>3, <1>7, <2>1, <2>2, <2>3, <2>4
<1>8. \A a \in S : <<a, a>> \in P
  BY <1>3, <1>6 DEF Orders
<1>9. \A a, b \in S : <<a, b>> \in P \/ <<b, a>> \in P
  BY <1>3, <1>4, <1>5 DEF Orders
<1>10. \A a, b \in S : <<a, b>> \in P /\ <<b, a>> \in P => a = b
  <2> SUFFICES ASSUME NEW a \in S, NEW b \in S, <<a, b>> \in P, <<b, a>> \in P
               PROVE  a = b
    OBVIOUS
  <2>1. <<a, b>> \in R /\ <<b, a>> \in R
    BY <1>3, <1>4, <1>5
  <2>2. QED
    BY <2>1 DEF Orders
<1>11. Orders(P, S)
  BY <1>2, <1>7, <1>8, <1>9, <1>10 DEF Orders
<1>12. QED
  BY <1>3, <1>11 DEF P

\* The keys from the i-th on and the repository put a before b.
BeforeFrom(a, b, sort, i) ==
    \/ \E n \in i .. Len(sort) :
          KeyBefore(a, b, sort[n]) /\ \A m \in i .. (n - 1) : Same(a, b, sort[m])
    \/ (\A n \in i .. Len(sort) : Same(a, b, sort[n])) /\ a.repository < b.repository

LEMMA OneMoreKey ==
    ASSUME NEW sort \in Seq(SortKeys), NEW i \in 1 .. Len(sort), NEW a, NEW b
    PROVE  BeforeFrom(a, b, sort, i) <=>
              \/ KeyBefore(a, b, sort[i])
              \/ Same(a, b, sort[i]) /\ BeforeFrom(a, b, sort, i + 1)
<1>1. /\ Len(sort) \in Nat /\ i \in Nat
      /\ i .. Len(sort) = {i} \cup (i + 1) .. Len(sort)
      /\ \A n \in (i + 1) .. Len(sort) : i .. (n - 1) = {i} \cup (i + 1) .. (n - 1)
      /\ i .. (i - 1) = {}
  OBVIOUS
<1>2. QED
  BY <1>1 DEF BeforeFrom

LEMMA FromTheFirst ==
    ASSUME NEW sort \in Seq(SortKeys), NEW a, NEW b
    PROVE  BeforeFrom(a, b, sort, 1) <=> Before(a, b, sort)
BY DEF BeforeFrom, Before, Same

LEMMA FromTheLast ==
    ASSUME NEW sort \in Seq(SortKeys), NEW a, NEW b
    PROVE  BeforeFrom(a, b, sort, Len(sort) + 1) <=> a.repository < b.repository
<1>1. (Len(sort) + 1) .. Len(sort) = {}
  OBVIOUS
<1>2. QED
  BY <1>1 DEF BeforeFrom

OneEach(S) == \A a, b \in S : a.repository = b.repository => a = b

\* The passes, from the last key to the first, make the order of the keys.
SortedBy(candidates, sort) ==
    \E R : /\ Orders(R, candidates)
           /\ StableSort(candidates, sort) = InOrder(candidates, R)
           /\ \A a, b \in candidates :
                 <<a, b>> \in R <=> a = b \/ Before(a, b, sort)

Sorting(h, candidates, sort) ==
    /\ h[0] = ByRepository(candidates)
    /\ \A n \in 1 .. Len(sort) :
          h[n] = StableSortBy(h[n - 1], sort[Len(sort) + 1 - n])
    /\ StableSort(candidates, sort) = InOrder(candidates, h[Len(sort)])

LEMMA SortSteps ==
    ASSUME NEW S \in SUBSET Candidates, NEW sort \in Seq(SortKeys)
    PROVE  \E h : Sorting(h, S, sort)
<1> DEFINE k == Len(sort)
           V == SUBSET (S \X S)
           Body(h) == [n \in 0 .. k |->
                          IF n = 0 THEN ByRepository(S)
                          ELSE StableSortBy(h[n - 1], sort[k + 1 - n])]
           f == [n \in 1 .. k |-> [R \in V |-> StableSortBy(R, sort[k + 1 - n])]]
           chosen == CHOOSE h : h = Body(h)
<1>1. k \in Nat
  OBVIOUS
<1>2. ByRepository(S) \in V
  BY DEF ByRepository
<1>3. \A R \in V : \A key : StableSortBy(R, key) \in V
  BY DEF StableSortBy
<1>4. f \in [1 .. k -> [V -> V]]
  <2> HIDE DEF V
  <2>1. QED
    BY <1>3
<1>5. PICK h \in [0 .. k -> V] : Recurs(h, k, ByRepository(S), f)
  <2> HIDE DEF V, k, f
  <2>1. QED
    BY <1>1, <1>2, <1>4, RecursionExists
<1>6. h = Body(h)
  <2>1. \A n \in 1 .. k : n - 1 \in 0 .. k /\ h[n - 1] \in V
    BY <1>1
  <2>2. \A n \in 1 .. k : f[n][h[n - 1]] = StableSortBy(h[n - 1], sort[k + 1 - n])
    <3> HIDE DEF V
    <3>1. QED
      BY <2>1
  <2>3. \A n \in 0 .. k : n # 0 => n \in 1 .. k
    BY <1>1
  <2> HIDE DEF f, V, k
  <2>4. QED
    BY <1>5, <2>2, <2>3 DEF Recurs
<1>7. chosen = Body(chosen)
  <2> HIDE DEF Body
  <2>1. QED
    BY <1>6
<1>8. Sorting(chosen, S, sort)
  <2>1. StableSort(S, sort) = InOrder(S, chosen[k])
    BY DEF StableSort
  <2>2. \A n \in 0 .. k : chosen[n] = IF n = 0 THEN ByRepository(S)
                                    ELSE StableSortBy(chosen[n - 1], sort[k + 1 - n])
    <3> HIDE DEF chosen, k
    <3>1. QED
      BY <1>7
  <2> HIDE DEF chosen
  <2>3. QED
    BY <1>1, <2>1, <2>2 DEF Sorting
<1>9. QED
  BY <1>8

LEMMA StableSorts ==
    ASSUME NEW S \in SUBSET Candidates, OneEach(S), NEW sort \in Seq(SortKeys)
    PROVE  SortedBy(S, sort)
<1> DEFINE k == Len(sort)
<1>1. PICK h : Sorting(h, S, sort)
  BY SortSteps
<1> DEFINE P(n) == /\ Orders(h[n], S)
                   /\ \A a, b \in S :
                         <<a, b>> \in h[n] <=> a = b \/ BeforeFrom(a, b, sort, k + 1 - n)
           T == {n \in 0 .. k : P(n)}
<1>2. k \in Nat
  OBVIOUS
<1>3. P(0)
  <2>1. \A a \in S : a.repository \in Int
    BY DEF Candidates
  <2>2. h[0] = ByRepository(S) /\ k + 1 - 0 = Len(sort) + 1
    BY <1>1, <1>2 DEF Sorting
  <2>3. h[0] \subseteq S \X S /\ \A a, b \in S : <<a, b>> \in h[0] <=> a.repository <= b.repository
    BY <2>2 DEF ByRepository
  <2>4. Orders(h[0], S)
    BY <2>1, <2>3 DEF Orders, OneEach
  <2>5. \A a, b \in S : <<a, b>> \in h[0] <=> a = b \/ BeforeFrom(a, b, sort, k + 1 - 0)
    <3> SUFFICES ASSUME NEW a \in S, NEW b \in S
                 PROVE  <<a, b>> \in h[0] <=> a = b \/ BeforeFrom(a, b, sort, k + 1 - 0)
      OBVIOUS
    <3>1. BeforeFrom(a, b, sort, k + 1 - 0) <=> a.repository < b.repository
      BY <2>2, FromTheLast
    <3>2. a = b <=> a.repository = b.repository
      BY DEF OneEach
    <3>3. QED
      BY <2>1, <2>3, <3>1, <3>2
  <2>6. QED
    BY <2>4, <2>5
<1>4. ASSUME NEW n \in 0 .. k - 1, P(n) PROVE P(n + 1)
  <2> DEFINE i == k - n
             key == sort[i]
  <2>1. /\ n + 1 \in 1 .. k /\ (n + 1) - 1 = n /\ k + 1 - (n + 1) = i /\ k + 1 - n = i + 1
        /\ i \in 1 .. Len(sort) /\ key \in SortKeys
    BY <1>2
  <2>2. h[n + 1] = StableSortBy(h[n], key)
    BY <1>1, <2>1 DEF Sorting
  <2> HIDE DEF i, key, k
  <2>3. /\ Orders(h[n + 1], S)
        /\ \A a, b \in S : <<a, b>> \in h[n + 1]
               <=> KeyBefore(a, b, key) \/ (Same(a, b, key) /\ <<a, b>> \in h[n])
    <3>1. PICK R : R = h[n]
      OBVIOUS
    <3>2. Orders(R, S)
      BY <1>4, <3>1
    <3>3. PICK Q : Q = StableSortBy(R, key)
      OBVIOUS
    <3>4. key \in SortKeys
      BY <2>1
    <3>5. /\ Orders(Q, S)
          /\ \A a, b \in S : <<a, b>> \in Q
                 <=> KeyBefore(a, b, key) \/ (Same(a, b, key) /\ <<a, b>> \in R)
      BY <3>2, <3>3, <3>4, StablePass
    <3>6. h[n + 1] = Q
      BY <2>2, <3>1, <3>3
    <3>7. QED
      BY <3>1, <3>5, <3>6
  <2>4. \A a, b \in S : BeforeFrom(a, b, sort, i) <=>
             KeyBefore(a, b, key) \/ (Same(a, b, key) /\ BeforeFrom(a, b, sort, i + 1))
    BY <2>1, OneMoreKey DEF key
  <2>5. \A a \in S : Same(a, a, key) /\ ~KeyBefore(a, a, key)
    BY <2>1, KeysCompare DEF Same
  <2>6. ASSUME NEW a \in S, NEW b \in S
        PROVE  <<a, b>> \in h[n + 1] <=> a = b \/ BeforeFrom(a, b, sort, i)
    <3>1. <<a, b>> \in h[n] <=> a = b \/ BeforeFrom(a, b, sort, i + 1)
      BY <1>4, <2>1
    <3>2. QED
      BY <2>3, <2>4, <2>5, <3>1
  <2>7. QED
    BY <2>1, <2>3, <2>6
<1>5. \A n \in 0 .. k : n \in T
  <2>1. 0 \in T
    BY <1>2, <1>3
  <2>2. \A n \in 0 .. k - 1 : n \in T => n + 1 \in T
    <3> HIDE DEF P
    <3>1. QED
      BY <1>2, <1>4
  <2> HIDE DEF T, k
  <2>3. QED
    BY <1>2, <2>1, <2>2, BoundedInduction
<1>6. P(k)
  <2>1. k \in 0 .. k
    BY <1>2
  <2> HIDE DEF P
  <2>2. QED
    BY <1>5, <2>1
<1>7. k + 1 - k = 1
  BY <1>2
<1>8. \A a, b \in S : <<a, b>> \in h[k] <=> a = b \/ Before(a, b, sort)
  BY <1>6, <1>7, FromTheFirst
<1>9. StableSort(S, sort) = InOrder(S, h[k])
  BY <1>1 DEF Sorting
<1>10. QED
  BY <1>6, <1>8, <1>9 DEF SortedBy

-----------------------------------------------------------------------------
(* The merge of sources.                                                   *)

\* What candidates about one repository say, and a candidate that knows all of
\* it where it has no conflict.
Says(c, told) ==
    /\ c.platforms = UNION {d.platforms : d \in told}
    /\ \A f \in Facts \ c.conflicts : c.facts[f] = UNION {d.facts[f] : d \in told}

CandidateRecord ==
    [repository : Int, platforms : SUBSET STRING, conflicts : SUBSET Facts,
     facts : [Facts -> SUBSET Int]]

LEMMA MergeParts ==
    ASSUME NEW a \in Candidates, NEW b \in Candidates
    PROVE  /\ Merge(a, b) \in Candidates
           /\ Merge(a, b).repository = a.repository
           /\ Merge(a, b).platforms = a.platforms \cup b.platforms
           /\ \A f \in Facts :
                 /\ Merge(a, b).facts[f] = IF a.facts[f] = {} THEN b.facts[f] ELSE a.facts[f]
                 /\ f \notin Merge(a, b).conflicts =>
                       /\ f \notin a.conflicts
                       /\ a.facts[f] = {} \/ b.facts[f] = {} \/ a.facts[f] = b.facts[f]
<1> DEFINE m == Merge(a, b)
<1>1. a \in CandidateRecord /\ b \in CandidateRecord
  BY DEF Candidates, CandidateRecord
<1>2. /\ m = [a EXCEPT
                !.facts = [f \in Facts |-> IF a.facts[f] = {} THEN b.facts[f] ELSE a.facts[f]],
                !.platforms = a.platforms \cup b.platforms,
                !.conflicts = a.conflicts \cup {f \in Facts : /\ a.facts[f] # {}
                                                              /\ b.facts[f] # {}
                                                              /\ a.facts[f] # b.facts[f]}]
  BY DEF Merge
<1>3. /\ m.repository = a.repository
      /\ m.platforms = a.platforms \cup b.platforms
      /\ m.facts = [f \in Facts |-> IF a.facts[f] = {} THEN b.facts[f] ELSE a.facts[f]]
      /\ m.conflicts = a.conflicts \cup {f \in Facts : /\ a.facts[f] # {}
                                                       /\ b.facts[f] # {}
                                                       /\ a.facts[f] # b.facts[f]}
  BY <1>1, <1>2 DEF CandidateRecord
<1>4. m = [repository |-> m.repository, platforms |-> m.platforms,
           conflicts |-> m.conflicts, facts |-> m.facts]
  BY <1>1, <1>2 DEF CandidateRecord
<1>5. /\ a.repository \in Int
      /\ a.platforms \in SUBSET STRING /\ b.platforms \in SUBSET STRING
      /\ a.conflicts \in SUBSET Facts
      /\ a.facts \in [Facts -> SUBSET Int] /\ b.facts \in [Facts -> SUBSET Int]
  BY <1>1 DEF CandidateRecord
<1> HIDE DEF m
<1>6. m.facts \in [Facts -> SUBSET Int] /\ m.conflicts \in SUBSET Facts
      /\ m.platforms \in SUBSET STRING /\ m.repository \in Int
  BY <1>3, <1>5
<1>7. m \in CandidateRecord
  BY <1>4, <1>6 DEF CandidateRecord
<1>8. \A f \in Facts : \A known, other \in m.facts[f] : known = other
  BY <1>3 DEF Candidates
<1>9. m \in Candidates
  BY <1>7, <1>8 DEF Candidates, CandidateRecord
<1>10. QED
  BY <1>3, <1>9 DEF m

Merging(h, told) ==
    /\ h[1] = told[1]
    /\ \A n \in 2 .. Len(told) : h[n] = Merge(h[n - 1], told[n])
    /\ Merged(told) = h[Len(told)]

LEMMA MergeSteps ==
    ASSUME NEW told \in Seq(Candidates), told # <<>>
    PROVE  \E h : Merging(h, told)
<1> DEFINE k == Len(told)
           Body(h) == [n \in 1 .. k |->
                          IF n = 1 THEN told[1] ELSE Merge(h[n - 1], told[n])]
           f == [n \in 1 .. k - 1 |-> [c \in Candidates |-> Merge(c, told[n + 1])]]
           chosen == CHOOSE h : h = Body(h)
<1>1. k \in Nat /\ k >= 1 /\ \A n \in 1 .. k : told[n] \in Candidates
  OBVIOUS
<1>2. f \in [1 .. k - 1 -> [Candidates -> Candidates]]
  BY <1>1, MergeParts
<1>3. k - 1 \in Nat /\ told[1] \in Candidates
  BY <1>1
<1>4. PICK g \in [0 .. k - 1 -> Candidates] : Recurs(g, k - 1, told[1], f)
  <2> HIDE DEF k, f
  <2>1. QED
    BY <1>2, <1>3, RecursionExists
<1> DEFINE h == [n \in 1 .. k |-> g[n - 1]]
<1>5. h = Body(h)
  <2>1. \A n \in 1 .. k - 1 : f[n][g[n - 1]] = Merge(g[n - 1], told[n + 1])
    <3>1. \A n \in 1 .. k - 1 : n - 1 \in 0 .. k - 1 /\ g[n - 1] \in Candidates
      BY <1>1
    <3>2. QED
      BY <3>1
  <2>2. g[0] = told[1] /\ \A n \in 1 .. k - 1 : g[n] = f[n][g[n - 1]]
    <3>1. \A n \in 1 .. k - 1 : n \in 0 .. k - 1 /\ n # 0
      BY <1>1
    <3> HIDE DEF k, f
    <3>2. QED
      BY <1>3, <1>4, <3>1 DEF Recurs
  <2>3. ASSUME NEW n \in 1 .. k PROVE h[n] = IF n = 1 THEN told[1] ELSE Merge(h[n - 1], told[n])
    <3>1. CASE n = 1
      BY <1>1, <2>2, <3>1
    <3>2. CASE n # 1
      <4>1. n - 1 \in 1 .. k - 1 /\ n - 1 \in 1 .. k /\ (n - 1) + 1 = n
        BY <1>1, <3>2
      <4>2. PICK m \in 1 .. k - 1 : m = n - 1
        BY <4>1
      <4>3. g[m] = Merge(g[m - 1], told[m + 1])
        <5> HIDE DEF f
        <5>1. QED
          BY <2>1, <2>2
      <4>4. h[n] = g[m] /\ h[n - 1] = g[m - 1] /\ m + 1 = n
        BY <4>1, <4>2
      <4>5. QED
        BY <3>2, <4>3, <4>4
    <3>3. QED
      BY <3>1, <3>2
  <2>4. QED
    <3> HIDE DEF k
    <3>1. Body(h) = [n \in 1 .. k |-> h[n]]
      BY <2>3
    <3>2. QED
      BY <3>1
<1>6. chosen = Body(chosen)
  <2> HIDE DEF Body, h
  <2>1. QED
    BY <1>5
<1>7. Merging(chosen, told)
  <2>1. Merged(told) = chosen[k]
    BY DEF Merged
  <2>2. \A n \in 1 .. k :
            chosen[n] = IF n = 1 THEN told[1] ELSE Merge(chosen[n - 1], told[n])
    <3> HIDE DEF chosen, k
    <3>1. QED
      BY <1>6
  <2> HIDE DEF chosen
  <2>3. QED
    BY <1>1, <2>1, <2>2 DEF Merging
<1>8. QED
  BY <1>7

\* merge_batches: the entry of a repository, whatever the order of the sources.
MergedMeans(told) ==
    /\ Merged(told) \in Candidates
    /\ Merged(told).repository = told[1].repository
    /\ Says(Merged(told), Elements(told))

LEMMA MergedSaysAll ==
    ASSUME NEW told \in Seq(Candidates), told # <<>>
    PROVE  MergedMeans(told)
<1> DEFINE k == Len(told)
           first(n) == {told[m] : m \in 1 .. n}
<1>1. k \in Nat /\ k >= 1 /\ \A n \in 1 .. k : told[n] \in Candidates
  OBVIOUS
<1>2. PICK h : Merging(h, told)
  BY MergeSteps
<1> DEFINE P(n) == /\ h[n + 1] \in Candidates
                   /\ h[n + 1].repository = told[1].repository
                   /\ Says(h[n + 1], first(n + 1))
           S == {n \in 0 .. k - 1 : P(n)}
<1>3. P(0)
  <2>1. h[0 + 1] = told[1] /\ first(0 + 1) = {told[1]}
    BY <1>2 DEF Merging
  <2> HIDE DEF first
  <2>2. QED
    BY <1>1, <2>1 DEF Says
<1>4. ASSUME NEW n \in 0 .. (k - 1) - 1, P(n) PROVE P(n + 1)
  <2>1. /\ n + 2 \in 2 .. Len(told) /\ (n + 2) - 1 = n + 1 /\ n + 1 + 1 = n + 2
        /\ told[n + 2] \in Candidates
    BY <1>1
  <2>2. h[n + 2] = Merge(h[n + 1], told[n + 2])
    BY <1>2, <2>1 DEF Merging
  <2>3. first(n + 2) = first(n + 1) \cup {told[n + 2]}
    <3>1. \A m \in 1 .. n + 2 : m \in 1 .. n + 1 \/ m = n + 2
      BY <2>1
    <3>2. \A m \in 1 .. n + 1 : m \in 1 .. n + 2
      BY <2>1
    <3>3. n + 2 \in 1 .. n + 2
      BY <2>1
    <3>4. QED
      BY <3>1, <3>2, <3>3
  <2>4. PICK a \in Candidates : a = h[n + 1]
    BY <1>4
  <2>5. PICK b \in Candidates : b = told[n + 2]
    BY <2>1
  <2>6. PICK A : A = first(n + 1)
    OBVIOUS
  <2>7. Says(a, A) /\ a.repository = told[1].repository
    BY <1>4, <2>4, <2>6
  <2>8. Says(Merge(a, b), A \cup {b})
    <3>1. Merge(a, b).platforms = UNION {d.platforms : d \in A \cup {b}}
      <4>1. Merge(a, b).platforms = a.platforms \cup b.platforms
        BY MergeParts
      <4>2. QED
        BY <2>7, <4>1 DEF Says
    <3>2. ASSUME NEW f \in Facts \ Merge(a, b).conflicts
          PROVE  Merge(a, b).facts[f] = UNION {d.facts[f] : d \in A \cup {b}}
      <4>1. /\ Merge(a, b).facts[f] = IF a.facts[f] = {} THEN b.facts[f] ELSE a.facts[f]
            /\ f \notin a.conflicts
            /\ a.facts[f] = {} \/ b.facts[f] = {} \/ a.facts[f] = b.facts[f]
        BY <3>2, MergeParts
      <4>2. a.facts[f] = UNION {d.facts[f] : d \in A}
        BY <2>7, <3>2, <4>1 DEF Says
      <4>3. Merge(a, b).facts[f] = a.facts[f] \cup b.facts[f]
        BY <4>1
      <4>4. QED
        BY <4>2, <4>3
    <3>3. QED
      BY <3>1, <3>2 DEF Says
  <2>9. Merge(a, b) \in Candidates /\ Merge(a, b).repository = told[1].repository
    BY <2>7, MergeParts
  <2>10. h[n + 2] = Merge(a, b) /\ first(n + 2) = A \cup {b}
    BY <2>2, <2>3, <2>4, <2>5, <2>6
  <2> HIDE DEF first
  <2>11. QED
    BY <2>1, <2>8, <2>9, <2>10
<1>5. \A n \in 0 .. k - 1 : n \in S
  <2>1. 0 \in S
    BY <1>1, <1>3
  <2>2. \A n \in 0 .. (k - 1) - 1 : n \in S => n + 1 \in S
    <3> HIDE DEF P
    <3>1. QED
      BY <1>1, <1>4
  <2>3. k - 1 \in Nat
    BY <1>1
  <2> HIDE DEF S, k
  <2>4. QED
    BY <2>1, <2>2, <2>3, BoundedInduction
<1>6. P(k - 1)
  <2>1. k - 1 \in 0 .. k - 1
    BY <1>1
  <2> HIDE DEF P
  <2>2. QED
    BY <1>5, <2>1
<1>7. (k - 1) + 1 = k /\ first(k) = Elements(told) /\ Merged(told) = h[k]
  BY <1>1, <1>2 DEF Merging, Elements
<1> HIDE DEF first, k
<1>8. QED
  BY <1>6, <1>7 DEF MergedMeans

\* The merge of a sequence of batches.
MergeMeans(batches, M) ==
    /\ M \in SUBSET Candidates /\ IsFiniteSet(M) /\ OneEach(M)
    /\ \A c \in M :
          Says(c, {d \in ToSet(FlattenSeq(batches)) : d.repository = c.repository})

LEMMA ToSetIsElements ==
    ASSUME NEW E, NEW s \in Seq(E)
    PROVE  ToSet(s) = Elements(s) /\ IsFiniteSet(ToSet(s))
<1>1. ToSet(s) = Elements(s)
  BY DEF ToSet, Elements
<1>2. IsFiniteSet(Elements(s))
  <2>1. Len(s) \in Nat /\ s \in [1 .. Len(s) -> E]
    OBVIOUS
  <2> DEFINE f == [n \in 1 .. Len(s) |-> s[n]]
  <2>2. f \in Surjection(1 .. Len(s), Elements(s))
    BY <2>1 DEF Surjection, Elements
  <2>3. IsFiniteSet(1 .. Len(s))
    BY <2>1, FS_Interval
  <2> HIDE DEF f
  <2>4. QED
    BY <2>2, <2>3, FS_Surjection
<1>3. QED
  BY <1>1, <1>2

LEMMA MergeSaysAll ==
    ASSUME NEW batches \in Seq(Seq(Candidates))
    PROVE  MergeMeans(batches, MergeBatches(batches))
<1> DEFINE all == FlattenSeq(batches)
           of(r) == {c \in ToSet(all) : c.repository = r}
           told(r) == Select(all, of(r))
           M == MergeBatches(batches)
           Named == Repositories(ToSet(all))
<1>1. all \in Seq(Candidates)
  BY FlattenProperties
<1>2. M = {Merged(told(r)) : r \in Named}
  BY DEF MergeBatches
<1>3. ToSet(all) = Elements(all) /\ IsFiniteSet(ToSet(all))
  BY <1>1, ToSetIsElements
<1>4. ASSUME NEW r \in Named
      PROVE  /\ Merged(told(r)) \in Candidates
             /\ Merged(told(r)).repository = r
             /\ Says(Merged(told(r)), of(r))
  <2>1. told(r) \in Seq(Candidates) /\ Elements(told(r)) = Elements(all) \cap of(r)
    <3> HIDE DEF all, of
    <3>1. QED
      BY <1>1, SelectProperties
  <2>2. Elements(told(r)) = of(r)
    BY <1>3, <2>1
  <2>3. of(r) # {}
    BY <1>4 DEF Repositories
  <2>4. PICK t \in Seq(Candidates) : t = told(r)
    BY <2>1
  <2>5. t # <<>>
    BY <2>2, <2>3, <2>4 DEF Elements
  <2>6. t[1] \in Elements(t)
    BY <2>5 DEF Elements
  <2>7. t[1].repository = r
    BY <2>2, <2>4, <2>6
  <2>8. MergedMeans(t)
    BY <2>5, MergedSaysAll
  <2> HIDE DEF told, of
  <2>9. QED
    BY <2>2, <2>4, <2>7, <2>8 DEF MergedMeans
<1>5. IsFiniteSet(M)
  <2>1. IsFiniteSet(Named)
    <3> DEFINE f == [c \in ToSet(all) |-> c.repository]
    <3>1. f \in Surjection(ToSet(all), Named)
      BY DEF Surjection, Repositories
    <3> HIDE DEF f, all
    <3>2. QED
      BY <1>3, <3>1, FS_Surjection
  <2> DEFINE f == [r \in Named |-> Merged(told(r))]
  <2>2. f \in Surjection(Named, M)
    <3> HIDE DEF M, told, Named
    <3>1. QED
      BY <1>2 DEF Surjection
  <2> HIDE DEF f, Named, M
  <2>3. QED
    BY <2>1, <2>2, FS_Surjection
<1> HIDE DEF told, M, Named
<1>6. M \in SUBSET Candidates /\ OneEach(M)
  <2>1. \A c \in M : \E r \in Named : c = Merged(told(r))
    BY <1>2
  <2>2. M \in SUBSET Candidates
    BY <1>4, <2>1
  <2>3. \A a, b \in M : a.repository = b.repository => a = b
    BY <1>4, <2>1
  <2>4. QED
    BY <2>2, <2>3 DEF OneEach
<1>7. \A c \in M : Says(c, of(c.repository))
  BY <1>2, <1>4
<1>8. QED
  BY <1>5, <1>6, <1>7 DEF MergeMeans, M

-----------------------------------------------------------------------------
(* What a check shows.                                                     *)

\* v is what the limit leaves of the candidates that pass, in the order of
\* the keys.
Window(v, passing, filter) ==
    /\ v \in Seq(passing) /\ Distinct(v) /\ Len(v) <= filter.limit
    /\ \A i, j \in 1 .. Len(v) : i < j => Before(v[i], v[j], filter.sort)
    /\ \A c \in passing \ Elements(v) :
          /\ Len(v) = filter.limit
          /\ \A d \in Elements(v) : Before(d, c, filter.sort)
    /\ \A a, b \in passing : Before(a, b, filter.sort) => ~Before(b, a, filter.sort)

LEMMA NeverBeforeItself ==
    ASSUME NEW c \in Candidates, NEW sort \in Seq(SortKeys)
    PROVE  ~Before(c, c, sort)
<1>1. c.repository \in Int /\ ~(c.repository < c.repository)
  BY DEF Candidates
<1>2. \A n \in DOMAIN sort : ~KeyBefore(c, c, sort[n])
  BY KeysCompare
<1>3. QED
  BY <1>1, <1>2 DEF Before

LEMMA FirstOnes ==
    ASSUME NEW S, NEW w \in Seq(S), NEW n \in 0 .. Len(w), NEW v, v = SubSeq(w, 1, n)
    PROVE  v \in Seq(S) /\ Len(v) = n /\ \A i \in 1 .. n : v[i] = w[i]
  OBVIOUS

LEMMA WindowOfOrdered ==
    ASSUME NEW S \in SUBSET Candidates, IsFiniteSet(S), OneEach(S),
           NEW filter, WellFormed(filter), NEW v,
           LET ordered == StableSort(S, filter.sort)
           IN  v = SubSeq(ordered, 1, IF Len(ordered) < filter.limit
                                      THEN Len(ordered) ELSE filter.limit)
    PROVE  Window(v, S, filter)
<1>1. filter.sort \in Seq(SortKeys) /\ filter.limit \in Nat \ {0}
  BY DEF WellFormed, SortKeys
<1>2. PICK R : /\ Orders(R, S)
               /\ StableSort(S, filter.sort) = InOrder(S, R)
               /\ \A a, b \in S : <<a, b>> \in R <=> a = b \/ Before(a, b, filter.sort)
  BY <1>1, StableSorts DEF SortedBy
<1>3. PICK w : w = InOrder(S, R)
  OBVIOUS
<1>4. InThatOrder(w, S, R)
  BY <1>2, <1>3, InOrderIsOrdered
<1>5. w \in Seq(S) /\ Len(w) \in Nat /\ Elements(w) = S
  BY <1>4 DEF InThatOrder
<1>6. PICK n \in Nat : n = IF Len(w) < filter.limit THEN Len(w) ELSE filter.limit
  BY <1>1, <1>5
<1>7. v = SubSeq(w, 1, n)
  BY <1>2, <1>3, <1>6
<1>8. n <= Len(w) /\ n <= filter.limit /\ (n < Len(w) => n = filter.limit)
  BY <1>1, <1>5, <1>6
<1>9. v \in Seq(S) /\ Len(v) = n /\ \A i \in 1 .. n : v[i] = w[i]
  <2>1. ASSUME NEW a \in Seq(S), NEW k \in 0 .. Len(a), NEW b, b = SubSeq(a, 1, k)
        PROVE  b \in Seq(S) /\ Len(b) = k /\ \A i \in 1 .. k : b[i] = a[i]
    BY <2>1, FirstOnes
  <2>2. w \in Seq(S) /\ n \in 0 .. Len(w)
    BY <1>5, <1>8
  <2>3. QED
    BY <1>7, <2>1, <2>2
<1>10. \A i, j \in 1 .. Len(w) : i < j => Before(w[i], w[j], filter.sort) /\ w[i] # w[j]
  <2>1. \A i \in 1 .. Len(w) : w[i] \in S
    BY <1>5
  <2>2. QED
    BY <1>2, <1>4, <2>1 DEF InThatOrder
<1>11. \A i, j \in 1 .. Len(v) : i < j => Before(v[i], v[j], filter.sort)
  <2>1. SUFFICES ASSUME NEW i \in 1 .. n, NEW j \in 1 .. n, i < j
                 PROVE  Before(v[i], v[j], filter.sort)
    BY <1>9
  <2>2. i \in 1 .. Len(w) /\ j \in 1 .. Len(w) /\ v[i] = w[i] /\ v[j] = w[j]
    BY <1>5, <1>8, <1>9
  <2>3. QED
    BY <1>10, <2>1, <2>2
<1>12. Distinct(v)
  <2>1. \A i, j \in 1 .. n : i < j => v[i] # v[j]
    BY <1>5, <1>8, <1>9, <1>10
  <2>2. QED
    BY <1>9, <2>1 DEF Distinct
<1>13. ASSUME NEW c \in S \ Elements(v)
       PROVE  Len(v) = filter.limit /\ \A d \in Elements(v) : Before(d, c, filter.sort)
  <2>1. PICK m \in 1 .. Len(w) : w[m] = c
    BY <1>5 DEF Elements
  <2>2. n < m
    <3>1. SUFFICES ASSUME m \in 1 .. n PROVE FALSE
      BY <1>5, <2>1
    <3>2. v[m] = c /\ m \in 1 .. Len(v)
      BY <1>9, <2>1, <3>1
    <3>3. c \in Elements(v)
      BY <3>2 DEF Elements
    <3>4. QED
      BY <3>3
  <2>3. Len(v) = filter.limit
    BY <1>5, <1>8, <1>9, <2>2
  <2>4. ASSUME NEW d \in Elements(v) PROVE Before(d, c, filter.sort)
    <3>1. PICK i \in 1 .. Len(v) : d = v[i]
      BY DEF Elements
    <3>2. i \in 1 .. Len(w) /\ i < m /\ w[i] = d
      BY <1>5, <1>8, <1>9, <2>2, <3>1
    <3>3. QED
      BY <1>10, <2>1, <3>2
  <2>5. QED
    BY <2>3, <2>4
<1>14. ASSUME NEW a \in S, NEW b \in S, Before(a, b, filter.sort), Before(b, a, filter.sort)
       PROVE  FALSE
  <2>1. a = b
    BY <1>2, <1>14 DEF Orders
  <2>2. QED
    BY <1>1, <1>14, <2>1, NeverBeforeItself
<1>15. QED
  BY <1>8, <1>9, <1>11, <1>12, <1>13, <1>14 DEF Window

\* There is one way to put candidates in that order.
LEMMA OneOrder ==
    ASSUME NEW S, NEW filter, NEW v \in Seq(S), NEW w \in Seq(S), Elements(v) = Elements(w),
           Distinct(v), Distinct(w),
           \A i, j \in 1 .. Len(v) : i < j => Before(v[i], v[j], filter.sort),
           \A i, j \in 1 .. Len(w) : i < j => Before(w[i], w[j], filter.sort),
           \A a, b \in Elements(v) : Before(a, b, filter.sort) => ~Before(b, a, filter.sort)
    PROVE  v = w
<1> DEFINE k == Len(v)
<1>1. k \in Nat /\ Len(w) = k
  BY DistinctCounts
<1>2. SUFFICES ASSUME \E i \in 1 .. k : v[i] # w[i] PROVE FALSE
  BY <1>1
<1> DEFINE D == {i \in 1 .. k : v[i] # w[i]}
<1>3. PICK i \in D : \A j \in D : i <= j
  <2>1. D \in SUBSET Nat /\ D # {}
    BY <1>2
  <2> HIDE DEF D
  <2>2. QED
    BY <2>1, SmallestExists
<1>4. i \in 1 .. k /\ v[i] # w[i] /\ \A j \in 1 .. k : j < i => v[j] = w[j]
  BY <1>1, <1>3
<1>5. v[i] \in Elements(v) /\ w[i] \in Elements(v)
  BY <1>1, <1>4 DEF Elements
<1>6. PICK j \in 1 .. k : w[j] = v[i]
  BY <1>1, <1>5 DEF Elements
<1>7. PICK m \in 1 .. k : v[m] = w[i]
  BY <1>1, <1>5 DEF Elements
<1>8. i < j
  BY <1>1, <1>4, <1>6 DEF Distinct
<1>9. i < m
  BY <1>1, <1>4, <1>7 DEF Distinct
<1>10. Before(w[i], v[i], filter.sort)
  BY <1>1, <1>4, <1>6, <1>8
<1>11. Before(v[i], w[i], filter.sort)
  BY <1>1, <1>4, <1>7, <1>9
<1>12. QED
  BY <1>5, <1>10, <1>11

-----------------------------------------------------------------------------

\* A check as evaluate_candidates makes it.
IsCheck(check) ==
    /\ check.spec \in Specs /\ check.day \in Nat /\ check.observed \in Seq(Batches)
    /\ check = CheckOf(check.spec, check.day, check.observed)

CheckMeans(check) ==
    /\ WellFormed(check.spec) /\ check.spec \in Specs /\ check.day \in Nat
    /\ MergeMeans(check.observed, MergeBatches(check.observed))
    /\ Window(check.visible, Passing(MergeBatches(check.observed), check.spec, check.day),
              check.spec)

LEMMA ChecksMean ==
    ASSUME NEW check, IsCheck(check)
    PROVE  CheckMeans(check)
<1>1. PICK s \in Specs, d \in Nat, batches \in Seq(Batches) :
           /\ check.spec = s /\ check.day = d /\ check.observed = batches
           /\ check = CheckOf(s, d, batches)
  BY DEF IsCheck
<1>2. /\ check.spec = s /\ check.day = d /\ check.observed = batches
      /\ check.visible = Visible(MergeBatches(batches), s, d)
  BY <1>1 DEF CheckOf
<1>3. WellFormed(s) /\ batches \in Seq(Seq(Candidates))
  BY RecheckAssumption
<1>4. PICK M : M = MergeBatches(batches)
  OBVIOUS
<1>5. MergeMeans(batches, M)
  BY <1>3, <1>4, MergeSaysAll
<1>6. PICK P : P = Passing(M, s, d)
  OBVIOUS
<1>7. P \in SUBSET M
  BY <1>6 DEF Passing
<1>8. P \in SUBSET Candidates /\ IsFiniteSet(P) /\ OneEach(P)
  BY <1>5, <1>7, FS_Subset DEF MergeMeans, OneEach
<1>9. Window(Visible(M, s, d), P, s)
  BY <1>3, <1>6, <1>8, WindowOfOrdered DEF Visible
<1>10. QED
  BY <1>2, <1>3, <1>4, <1>5, <1>6, <1>9 DEF CheckMeans

\* Two checks of one filter over the same evidence.
Twins(a, b) ==
    CheckMeans(a) /\ CheckMeans(b) /\ a.spec = b.spec /\ a.observed = b.observed

LEMMA ShownMeans ==
    ASSUME NEW check, CheckMeans(check)
    PROVE  /\ Shown(check) = Elements(check.visible)
           /\ Shown(check) \subseteq Passing(MergeBatches(check.observed), check.spec, check.day)
           /\ IsFiniteSet(Shown(check)) /\ Cardinality(Shown(check)) = Len(check.visible)
<1>1. PICK P : P = Passing(MergeBatches(check.observed), check.spec, check.day)
  OBVIOUS
<1>2. check.visible \in Seq(P) /\ Distinct(check.visible)
  BY <1>1 DEF CheckMeans, Window
<1>3. Shown(check) = Elements(check.visible)
  BY <1>2, ToSetIsElements DEF Shown
<1>4. Elements(check.visible) \subseteq P
  BY <1>2 DEF Elements
<1>5. QED
  BY <1>1, <1>2, <1>3, <1>4, DistinctCounts

LEMMA SameShown ==
    ASSUME NEW a, NEW b, Twins(a, b), Shown(a) = Shown(b)
    PROVE  a.visible = b.visible /\ Outcome(a, b) = "noop"
<1>1. PICK M : M = MergeBatches(a.observed)
  OBVIOUS
<1>2. PICK P \in SUBSET M : P = Passing(M, a.spec, a.day)
  BY DEF Passing
<1>3. PICK Q \in SUBSET M : Q = Passing(M, b.spec, b.day)
  BY DEF Passing
<1>4. Window(a.visible, P, a.spec) /\ Window(b.visible, Q, a.spec)
  BY <1>1, <1>2, <1>3 DEF Twins, CheckMeans
<1>5. a.visible \in Seq(P) /\ b.visible \in Seq(Q)
  BY <1>4 DEF Window
<1>6. a.visible \in Seq(M) /\ b.visible \in Seq(M)
  BY <1>5
<1>7. Elements(a.visible) = Elements(b.visible) /\ Elements(a.visible) \subseteq P
  BY <1>1, <1>2, ShownMeans DEF Twins
<1>8. a.visible = b.visible
  BY <1>4, <1>6, <1>7, OneOrder DEF Window
<1>9. Gates(a) = Gates(b) /\ Compared(a) = Compared(b)
  BY DEF Gates, Compared
<1>10. QED
  BY <1>8, <1>9 DEF Outcome, MaterialDiff, Twins

LEMMA ComparedTellsShown ==
    ASSUME NEW a, NEW b, Twins(a, b), Compared(a) = Compared(b)
    PROVE  Shown(a) = Shown(b)
<1>1. PICK M : M = MergeBatches(a.observed)
  OBVIOUS
<1>2. Shown(a) \subseteq M /\ Shown(b) \subseteq M /\ OneEach(M)
  BY <1>1, ShownMeans DEF Twins, Passing, CheckMeans, MergeMeans
<1>3. ASSUME NEW x, NEW y, Compared(x) \subseteq Compared(y),
             Shown(x) \subseteq M, Shown(y) \subseteq M, NEW c \in Shown(x)
      PROVE  c \in Shown(y)
  <2>1. PICK d \in Shown(y) :
           [repository |-> c.repository, platforms |-> c.platforms, facts |-> c.facts]
               = [repository |-> d.repository, platforms |-> d.platforms, facts |-> d.facts]
    BY <1>3 DEF Compared
  <2>2. c.repository = d.repository
    BY <2>1
  <2>3. QED
    BY <1>2, <1>3, <2>2 DEF OneEach
<1>4. QED
  BY <1>2, <1>3

\* Evidence that has only grown older, without anything shown outliving an age
\* limit, shows the same: whatever failed meanwhile was below the window.
LEMMA AgedShowsTheSame ==
    ASSUME NEW a, NEW b, Twins(a, b), a.day <= b.day,
           \A c \in Shown(a) : FreshEnough(c, a.spec, b.day)
    PROVE  Shown(a) = Shown(b)
<1>1. PICK M : M = MergeBatches(a.observed)
  OBVIOUS
<1>2. PICK P \in SUBSET M : P = Passing(M, a.spec, a.day)
  BY DEF Passing
<1>3. PICK Q \in SUBSET M : Q = Passing(M, a.spec, b.day)
  BY DEF Passing
<1>4. Window(a.visible, P, a.spec) /\ Window(b.visible, Q, a.spec)
  BY <1>1, <1>2, <1>3 DEF Twins, CheckMeans
<1>5. PICK A : A = Shown(a)
  OBVIOUS
<1>6. PICK B : B = Shown(b)
  OBVIOUS
<1>7. /\ A = Elements(a.visible) /\ A \subseteq P
      /\ IsFiniteSet(A) /\ Cardinality(A) = Len(a.visible)
  BY <1>1, <1>2, <1>5, ShownMeans DEF Twins
<1>8. /\ B = Elements(b.visible) /\ B \subseteq Q
      /\ IsFiniteSet(B) /\ Cardinality(B) = Len(b.visible)
  <2>1. Passing(MergeBatches(b.observed), b.spec, b.day) = Q
    BY <1>1, <1>3 DEF Twins
  <2>2. QED
    BY <1>6, <2>1, ShownMeans DEF Twins
<1>9. a.day \in Nat /\ b.day \in Nat /\ WellFormed(a.spec) /\ M \subseteq Candidates
  BY <1>1 DEF Twins, CheckMeans, MergeMeans
<1>10. Q \subseteq P
  <2>1. ASSUME NEW c \in Candidates, FreshEnough(c, a.spec, b.day)
        PROVE  FreshEnough(c, a.spec, a.day)
    <3>1. c.facts["pushed"] \subseteq Int /\ a.spec.maxAge \subseteq Nat
      BY <1>9 DEF Candidates, Facts, WellFormed
    <3>2. c.facts.pushed = c.facts["pushed"]
      OBVIOUS
    <3>3. QED
      BY <1>9, <2>1, <3>1, <3>2 DEF FreshEnough
  <2>2. QED
    BY <1>2, <1>3, <1>9, <2>1 DEF Passing, Passes
<1>11. A \subseteq Q
  BY <1>2, <1>3, <1>5, <1>7 DEF Passing, Passes
<1>12. /\ \A c \in P \ A : Len(a.visible) = a.spec.limit /\ \A d \in A : Before(d, c, a.spec.sort)
       /\ \A c \in Q \ B : Len(b.visible) = a.spec.limit /\ \A d \in B : Before(d, c, a.spec.sort)
       /\ \A c, d \in P : Before(c, d, a.spec.sort) => ~Before(d, c, a.spec.sort)
       /\ Len(a.visible) <= a.spec.limit /\ Len(b.visible) <= a.spec.limit
  BY <1>4, <1>7, <1>8 DEF Window
<1>13. Cardinality(A) \in Nat /\ Cardinality(B) \in Nat /\ a.spec.limit \in Nat
  BY <1>7, <1>8, <1>9, FS_CardinalityType DEF WellFormed
<1>14. A \subseteq B
  <2> SUFFICES ASSUME NEW c \in A \ B PROVE FALSE
    OBVIOUS
  <2>1. Len(b.visible) = a.spec.limit /\ \A d \in B : Before(d, c, a.spec.sort)
    BY <1>11, <1>12
  <2>2. B \subseteq A
    BY <1>7, <1>8, <1>10, <1>12, <2>1
  <2>3. Cardinality(B) <= Cardinality(A) /\ Cardinality(B) # Cardinality(A)
    BY <1>7, <2>2, FS_Subset
  <2>4. QED
    BY <1>7, <1>8, <1>12, <1>13, <2>1, <2>3
<1>15. B \subseteq A
  <2> SUFFICES ASSUME NEW c \in B \ A PROVE FALSE
    OBVIOUS
  <2>1. Len(a.visible) = a.spec.limit /\ \A d \in A : Before(d, c, a.spec.sort)
    BY <1>8, <1>10, <1>12
  <2>2. Cardinality(A) <= Cardinality(B) /\ Cardinality(A) # Cardinality(B)
    BY <1>8, <1>14, FS_Subset
  <2>3. QED
    BY <1>7, <1>8, <1>12, <1>13, <2>1, <2>2
<1>16. QED
  BY <1>5, <1>6, <1>14, <1>15

-----------------------------------------------------------------------------
(* What the checks of the store and of a running command are.              *)

StoreComputed == \A c \in checks : IsCheck(c) /\ c.day <= day

CurrentComputed ==
    /\ phase \in {"idle", "checking", "rechecking"} => current = NoCheck
    /\ phase \in {"checkFiled", "snapshotFiled", "moved"} =>
          IsCheck(current) /\ current.day = started

SpecKnown ==
    /\ phase = "checking" => \E s \in Specs : spec = {s}
    /\ phase \in {"snapshotFiled", "moved"} => spec = {current.spec}

PriorComputed ==
    Revalidating =>
        \E c : prior = {c} /\ IsCheck(c) /\ c.day <= started /\ spec = {c.spec}

\* A receipt compares two checks of one filter, the prior one made no later.
Told(receipt) ==
    /\ IsCheck(receipt.prior) /\ IsCheck(receipt.current)
    /\ receipt.prior.spec = receipt.current.spec
    /\ receipt.prior.day <= receipt.current.day
    /\ receipt.outcome = IF receipt.failed THEN "material"
                         ELSE Outcome(receipt.prior, receipt.current)

ReceiptsTold == \A receipt \in lastRecheck : Told(receipt)

ComputedInv ==
    StoreComputed /\ CurrentComputed /\ SpecKnown /\ PriorComputed /\ ReceiptsTold

LEMMA EvaluatedIsCheck ==
    ASSUME TypeOK, NEW s \in Specs, spec = {s}
    PROVE  IsCheck(Evaluated) /\ Evaluated.day = started /\ Evaluated.spec = s
<1>1. (CHOOSE t \in spec : TRUE) = s
  OBVIOUS
<1>2. Select(read, Batches) \in Seq(Batches)
  <2>1. /\ Select(read, Batches) \in Seq(Batches \cup {Failed})
        /\ Elements(Select(read, Batches)) \subseteq Batches
    BY SelectProperties DEF TypeOK
  <2>2. QED
    BY <2>1 DEF Elements
<1>3. started \in Nat
  BY RecheckAssumption DEF TypeOK
<1>4. Evaluated = CheckOf(s, started, Select(read, Batches))
  BY <1>1 DEF Evaluated
<1>5. /\ Evaluated.spec = s /\ Evaluated.day = started
      /\ Evaluated.observed = Select(read, Batches)
  BY <1>4 DEF CheckOf
<1>6. QED
  BY <1>2, <1>3, <1>4, <1>5 DEF IsCheck

\* A command that has ended leaves nothing to prove but the store.
LEMMA IdleComputed ==
    ASSUME phase' = "idle", current' = NoCheck, StoreComputed', ReceiptsTold'
    PROVE  ComputedInv'
  BY DEF ComputedInv, CurrentComputed, SpecKnown, PriorComputed, Revalidating

LEMMA InitComputed == Init => ComputedInv
  BY DEF Init, ComputedInv, StoreComputed, CurrentComputed, SpecKnown, PriorComputed,
         ReceiptsTold, Revalidating

LEMMA ComputedKept ==
    ASSUME RecheckInv, ComputedInv, [Next]_vars
    PROVE  ComputedInv'
<1> USE DEF worldVars, storeVars, localVars
<1>t. TypeOK /\ day \in Nat
  BY RecheckAssumption DEF RecheckInv, TypeOK
<1>d. ASSUME UNCHANGED checks, day' = day \/ day' = day + 1
      PROVE  StoreComputed'
  <2>1. ASSUME NEW c \in checks PROVE IsCheck(c) /\ c.day <= day'
    <3>1. IsCheck(c) /\ c.day <= day /\ c.day \in Nat
      BY <2>1 DEF ComputedInv, StoreComputed, IsCheck
    <3>2. QED
      BY <1>d, <1>t, <3>1
  <2>2. QED
    BY <1>d, <2>1 DEF StoreComputed
<1>r. ASSUME UNCHANGED lastRecheck PROVE ReceiptsTold'
  BY <1>r DEF ComputedInv, ReceiptsTold
\* Steps of the world, and of commands that only read.
<1>q. ASSUME UNCHANGED <<checks, lastRecheck, phase, spec, prior, started, current>>,
             day' = day \/ day' = day + 1
      PROVE  ComputedInv'
  <2>1. StoreComputed' /\ ReceiptsTold'
    BY <1>q, <1>d, <1>r
  <2>2. CurrentComputed' /\ SpecKnown' /\ PriorComputed'
    BY <1>q DEF ComputedInv, CurrentComputed, SpecKnown, PriorComputed, Revalidating
  <2> QED
    BY <2>1, <2>2 DEF ComputedInv
\* Steps that end a command without a receipt.
<1>s. ASSUME Stop, UNCHANGED <<checks, lastRecheck, day>> PROVE ComputedInv'
  <2>1. StoreComputed' /\ ReceiptsTold'
    BY <1>s, <1>d, <1>r
  <2> QED
    BY <1>s, <2>1, IdleComputed DEF Stop
\* Steps that file what they evaluate.
<1>f. ASSUME NEW s \in Specs, spec = {s}, current' = Evaluated,
             checks' = checks \cup {Evaluated}, UNCHANGED <<day, started, lastRecheck>>
      PROVE  /\ StoreComputed' /\ ReceiptsTold'
             /\ IsCheck(current)' /\ current'.day = started' /\ current'.spec = s
  <2>1. IsCheck(Evaluated) /\ Evaluated.day = started /\ Evaluated.spec = s
    BY <1>f, <1>t, EvaluatedIsCheck
  <2>2. started <= day
    BY <1>t DEF TypeOK
  <2>3. StoreComputed'
    BY <1>f, <2>1, <2>2 DEF ComputedInv, StoreComputed
  <2> QED
    BY <1>f, <1>r, <2>1, <2>3
<1>1. ASSUME NEW i \in 1..SourceCount, NEW content \in Batches \cup {Failed},
             SourceChanges(i, content)
      PROVE  ComputedInv'
  BY <1>1, <1>q DEF SourceChanges
<1>2. CASE DayPasses
  BY <1>2, <1>q DEF DayPasses
<1>3. ASSUME NEW s \in Specs, StartCheck(s) PROVE ComputedInv'
  <2>1. /\ phase = "idle" /\ phase' = "checking" /\ spec' = {s}
        /\ UNCHANGED <<checks, day, lastRecheck, current>>
    BY <1>3 DEF StartCheck, Begin
  <2>2. CurrentComputed' /\ SpecKnown' /\ PriorComputed'
    BY <2>1 DEF ComputedInv, CurrentComputed, SpecKnown, PriorComputed, Revalidating
  <2> QED
    BY <1>d, <1>r, <2>1, <2>2 DEF ComputedInv
<1>4. CASE CheckFails
  BY <1>4, <1>s DEF CheckFails
<1>5. CASE WriteCheck
  <2>1. PICK s \in Specs : spec = {s}
    BY <1>5 DEF WriteCheck, ComputedInv, SpecKnown
  <2>2. /\ StoreComputed' /\ ReceiptsTold'
        /\ IsCheck(current)' /\ current'.day = started' /\ current'.spec = s
    BY <1>5, <1>f, <2>1 DEF WriteCheck
  <2>3. phase' = "checkFiled"
    BY <1>5 DEF WriteCheck
  <2> QED
    BY <2>2, <2>3
    DEF ComputedInv, CurrentComputed, SpecKnown, PriorComputed, Revalidating
<1>6. CASE WriteLatestCheck
  BY <1>6, <1>s DEF WriteLatestCheck
<1>7. CASE LoadSource
  BY <1>7, <1>q DEF LoadSource
<1>8. ASSUME NEW t \in Targets, StartRecheck(t) PROVE ComputedInv'
  <2>1. /\ phase = "idle" /\ phase' = "rechecking" /\ started' = day
        /\ prior' = Resolve(t) /\ spec' = {c.spec : c \in Resolve(t)}
        /\ UNCHANGED <<checks, day, lastRecheck, current>>
    BY <1>8 DEF StartRecheck, Begin
  <2>2. PICK c \in checks : Resolve(t) = {c}
    BY TargetsHaveAPrior DEF RecheckInv
  <2>3. IsCheck(c) /\ c.day <= day
    BY <2>2 DEF ComputedInv, StoreComputed
  <2>4. PriorComputed'
    BY <2>1, <2>2, <2>3 DEF PriorComputed
  <2>5. CurrentComputed' /\ SpecKnown'
    BY <2>1 DEF ComputedInv, CurrentComputed, SpecKnown
  <2> QED
    BY <1>d, <1>r, <2>1, <2>4, <2>5 DEF ComputedInv
<1>9. CASE WriteSnapshot
  <2>1. PICK c : prior = {c} /\ IsCheck(c) /\ c.day <= started /\ spec = {c.spec}
    BY <1>9 DEF WriteSnapshot, ComputedInv, PriorComputed, Revalidating
  <2>2. c.spec \in Specs
    BY <2>1 DEF IsCheck
  <2>3. /\ StoreComputed' /\ ReceiptsTold'
        /\ IsCheck(current)' /\ current'.day = started' /\ current'.spec = c.spec
    BY <1>9, <1>f, <2>1, <2>2 DEF WriteSnapshot
  <2>4. phase' = "snapshotFiled" /\ UNCHANGED <<spec, prior, started>>
    BY <1>9 DEF WriteSnapshot
  <2> QED
    BY <2>1, <2>3, <2>4 DEF ComputedInv, CurrentComputed, SpecKnown, PriorComputed
<1>10. CASE UpdateBaseline
  <2>1. /\ phase = "snapshotFiled" /\ phase' = "moved"
        /\ UNCHANGED <<checks, day, lastRecheck, current, spec, prior, started>>
    BY <1>10 DEF UpdateBaseline
  <2>2. CurrentComputed' /\ SpecKnown' /\ PriorComputed'
    BY <2>1 DEF ComputedInv, CurrentComputed, SpecKnown, PriorComputed, Revalidating
  <2> QED
    BY <1>d, <1>r, <2>1, <2>2 DEF ComputedInv
<1>11. CASE WriteRecheck
  <2>1. Stop /\ UNCHANGED <<checks, day>>
    BY <1>11 DEF WriteRecheck
  <2>2. PICK c : prior = {c} /\ IsCheck(c) /\ c.day <= started /\ spec = {c.spec}
    BY <1>11 DEF WriteRecheck, ComputedInv, PriorComputed, Revalidating
  <2>3. PriorCheck = c
    BY <2>2 DEF PriorCheck
  <2>4. ASSUME NEW receipt \in lastRecheck' PROVE Told(receipt)
    <3>1. /\ receipt.prior = c /\ receipt.failed = SomeSourceFailed
          /\ receipt.outcome = IF SomeSourceFailed THEN "material" ELSE Outcome(c, current)
          /\ receipt.current = IF SomeSourceFailed THEN c ELSE current
      BY <1>11, <2>3, <2>4 DEF WriteRecheck
    <3>2. CASE SomeSourceFailed
      <4>1. c.day <= c.day
        BY <2>2 DEF IsCheck
      <4>2. QED
        BY <2>2, <3>1, <3>2, <4>1 DEF Told
    <3>3. CASE ~SomeSourceFailed
      <4>1. phase \in {"snapshotFiled", "moved"}
        BY <1>11, <3>3 DEF WriteRecheck
      <4>2. IsCheck(current) /\ current.day = started /\ spec = {current.spec}
        BY <4>1 DEF ComputedInv, CurrentComputed, SpecKnown
      <4>3. QED
        BY <2>2, <3>1, <3>3, <4>2 DEF Told
    <3>4. QED
      BY <3>2, <3>3
  <2>5. ReceiptsTold'
    BY <2>4 DEF ReceiptsTold
  <2> QED
    BY <1>d, <2>1, <2>5, IdleComputed DEF Stop
<1>12. ASSUME NEW repository, NEW check, NEW supersedes,
              Remember(repository, check, supersedes)
       PROVE  ComputedInv'
  BY <1>12, <1>q DEF Remember
<1>13. CASE Crash
  BY <1>13, <1>s DEF Crash
<1>14. CASE UNCHANGED vars
  BY <1>14, <1>q DEF vars
<1> QED
  BY <1>1, <1>2, <1>3, <1>4, <1>5, <1>6, <1>7, <1>8, <1>9, <1>10, <1>11, <1>12,
     <1>13, <1>14 DEF Next, World, Check, Revalidate, Decide

\* Every check is one evaluation, and every receipt compares two of them.
THEOREM ChecksAreComputed == Spec => []ComputedInv
<1>1. RecheckInv /\ ComputedInv /\ [Next]_vars => ComputedInv'
  BY ComputedKept
<1> QED
  BY <1>1, InitComputed, RecheckInvariant, PTL DEF Spec

LEMMA ComputedMeans ==
    ASSUME ComputedInv, TypeOK, NEW check \in Computed
    PROVE  CheckMeans(check)
<1>1. check = current /\ current # NoCheck
  BY DEF Computed
<1>2. IsCheck(current)
  BY <1>1 DEF ComputedInv, CurrentComputed, TypeOK, Phases
<1>3. QED
  BY <1>1, <1>2, ChecksMean

LEMMA ComputedIsBest == ComputedInv /\ TypeOK => WindowIsBest
<1>1. SUFFICES ASSUME ComputedInv, TypeOK, NEW check \in Computed
               PROVE  LET passing == Passing(MergeBatches(check.observed), check.spec, check.day)
                          visible == check.visible
                      IN  /\ \A i, j \in DOMAIN visible :
                                i < j => Before(visible[i], visible[j], check.spec.sort)
                          /\ \A c \in passing \ Shown(check) :
                                /\ Len(visible) = check.spec.limit
                                /\ \A d \in Shown(check) : Before(d, c, check.spec.sort)
  BY DEF WindowIsBest
<1>2. PICK P : P = Passing(MergeBatches(check.observed), check.spec, check.day)
  OBVIOUS
<1>3. CheckMeans(check)
  BY <1>1, ComputedMeans
<1>4. PICK v : v = check.visible
  OBVIOUS
<1>5. Window(v, P, check.spec) /\ Shown(check) = Elements(v)
  BY <1>2, <1>3, <1>4, ShownMeans DEF CheckMeans
<1>6. v \in Seq(P) /\ DOMAIN v = 1 .. Len(v)
  BY <1>5 DEF Window
<1>7. /\ \A i, j \in DOMAIN v : i < j => Before(v[i], v[j], check.spec.sort)
      /\ \A c \in P \ Shown(check) :
            /\ Len(v) = check.spec.limit
            /\ \A d \in Shown(check) : Before(d, c, check.spec.sort)
  BY <1>5, <1>6 DEF Window
<1>8. QED
  BY <1>2, <1>4, <1>7

LEMMA ComputedIsFair == ComputedInv /\ TypeOK => MergeIsFair
<1>1. SUFFICES ASSUME ComputedInv, TypeOK,
                      NEW check \in Computed, NEW c \in MergeBatches(check.observed)
               PROVE  Says(c, {d \in ToSet(FlattenSeq(check.observed)) :
                                  d.repository = c.repository})
  BY DEF MergeIsFair, Says
<1>2. MergeMeans(check.observed, MergeBatches(check.observed))
  BY <1>1, ComputedMeans DEF CheckMeans
<1>3. QED
  BY <1>1, <1>2 DEF MergeMeans

LEMMA ToldIsTrue ==
    ASSUME NEW receipt, Told(receipt)
    PROVE  /\ receipt.outcome = "noop" => receipt.current.visible = receipt.prior.visible
           /\ /\ ~receipt.failed /\ ~AgedOut(receipt)
              /\ receipt.current.observed = receipt.prior.observed
              => receipt.outcome = "noop"
<1>1. PICK a, b : a = receipt.prior /\ b = receipt.current
  OBVIOUS
<1>2. CheckMeans(a) /\ CheckMeans(b) /\ a.spec = b.spec /\ a.day <= b.day
  BY <1>1, ChecksMean DEF Told
<1>3. ASSUME receipt.outcome = "noop" PROVE b.visible = a.visible
  <2>1. Outcome(a, b) = "noop"
    BY <1>1, <1>3 DEF Told
  <2>2. Compared(a) = Compared(b) /\ a.observed = b.observed
    BY <2>1 DEF Outcome
  <2>3. Twins(a, b)
    BY <1>2, <2>2 DEF Twins
  <2>4. QED
    BY <2>2, <2>3, ComparedTellsShown, SameShown
<1>4. ASSUME ~receipt.failed, ~AgedOut(receipt), b.observed = a.observed
      PROVE  receipt.outcome = "noop"
  <2>1. Twins(a, b)
    BY <1>2, <1>4 DEF Twins
  <2>2. \A c \in Shown(a) : FreshEnough(c, a.spec, b.day)
    BY <1>1, <1>4 DEF AgedOut
  <2>3. Outcome(a, b) = "noop"
    BY <1>2, <2>1, <2>2, AgedShowsTheSame, SameShown
  <2>4. QED
    BY <1>1, <1>4, <2>3 DEF Told
<1>5. QED
  BY <1>1, <1>3, <1>4

\* filters.py: through every merge, gate and stable sort, the limit cuts the
\* order of the sort keys, and nothing it leaves out comes before what it shows.
THEOREM WindowAlwaysBest == Spec => []WindowIsBest
  BY ChecksAreComputed, RecheckTypeCorrect, ComputedIsBest, PTL

\* sources.py: however the sources are ordered, the merge keeps what any of them
\* knows about a repository, unless it records a conflict.
THEOREM MergeAlwaysFair == Spec => []MergeIsFair
  BY ChecksAreComputed, RecheckTypeCorrect, ComputedIsFair, PTL

\* rechecked(): "no semantic change" is said of equal results only, and always of
\* unchanged evidence that has not outlived an age limit.
THEOREM OutcomesAlwaysTrue == Spec => []OutcomesAreTrue
<1>1. ComputedInv => OutcomesAreTrue
  BY ToldIsTrue DEF ComputedInv, ReceiptsTold, OutcomesAreTrue
<1> QED
  BY <1>1, ChecksAreComputed, PTL
=============================================================================
