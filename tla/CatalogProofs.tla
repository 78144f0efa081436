--------------------------- MODULE CatalogProofs ---------------------------
(***************************************************************************)
(* What the store holds after any history of edits, builds, refusals and   *)
(* crashes, for every set of revisions; and what the exported directory    *)
(* holds, whatever fails while it is replaced.                             *)
(*                                                                         *)
(* The properties are not inductive by themselves.  They rest on what a    *)
(* running build knows: that the sources it has read are the sealed ones   *)
(* (ReadInv), that its snapshot is a function of the profile and of what   *)
(* the store held when it began (SnapshotInv, PreviousInv), and that       *)
(* nothing but its own writes changes the store meanwhile.                 *)
(***************************************************************************)
EXTENDS PublicExport, TLAPS

-----------------------------------------------------------------------------
(* Facts about the compiler.                                               *)

\* A compilation is filed under the semantic content of its profile and sources.
LEMMA CompileSemantic ==
    ASSUME NEW profile, NEW documents, NEW earlier
    PROVE  /\ Compile(profile, documents, earlier).semantic
                = Semantic(profile, documents)
           /\ Semantic(profile, documents).profile = profile
<1> DEFINE same == {s \in earlier : s.semantic = Semantic(profile, documents)}
           fresh == [semantic |-> Semantic(profile, documents),
                     diff |-> SemanticDiff(earlier, Semantic(profile, documents))]
<1>1. Compile(profile, documents, earlier)
        = IF same # {} THEN CHOOSE s \in same : TRUE ELSE fresh
  BY Zenon DEF Compile
<1>2. fresh.semantic = Semantic(profile, documents)
  OBVIOUS
<1>3. Compile(profile, documents, earlier).semantic = Semantic(profile, documents)
  <2>1. CASE same # {}
    <3>1. (CHOOSE s \in same : TRUE) \in same
      BY <2>1
    <3>2. QED
      BY <1>1, <2>1, <3>1
  <2>2. CASE same = {}
    BY <1>1, <1>2, <2>2
  <2>3. QED
    BY <2>1, <2>2
<1>4. Semantic(profile, documents).profile = profile
  BY DEF Semantic
<1>5. QED
  BY <1>3, <1>4

\* When the previous snapshot is the same it is returned as it is; otherwise the
\* new one names what it was compared with.
LEMMA CompileAgainst ==
    ASSUME NEW profile, NEW documents, NEW earlier
    PROVE  /\ (\E s \in earlier : s.semantic = Semantic(profile, documents))
                 => Compile(profile, documents, earlier) \in earlier
           /\ \/ Compile(profile, documents, earlier) \in earlier
              \/ Compile(profile, documents, earlier).diff.previous
                    = {s.semantic : s \in earlier}
<1> DEFINE same == {s \in earlier : s.semantic = Semantic(profile, documents)}
           fresh == [semantic |-> Semantic(profile, documents),
                     diff |-> SemanticDiff(earlier, Semantic(profile, documents))]
<1>1. Compile(profile, documents, earlier)
        = IF same # {} THEN CHOOSE s \in same : TRUE ELSE fresh
  BY Zenon DEF Compile
<1>2. SemanticDiff(earlier, Semantic(profile, documents)).previous
        = {s.semantic : s \in earlier}
  BY DEF SemanticDiff
<1>3. CASE same # {}
  <2>1. (CHOOSE s \in same : TRUE) \in same
    BY <1>3
  <2>2. QED
    BY <1>1, <1>3, <2>1
<1>4. CASE same = {}
  <2>1. fresh.diff = SemanticDiff(earlier, Semantic(profile, documents))
    OBVIOUS
  <2>2. ~\E s \in earlier : s.semantic = Semantic(profile, documents)
    BY <1>4
  <2>3. QED
    BY <1>1, <1>2, <1>4, <2>1, <2>2
<1>5. QED
  BY <1>3, <1>4

-----------------------------------------------------------------------------
(* The inductive invariant that needs no assumption about edits.           *)

Compiled == phase \in {"compiled", "profiled", "filed", "pointed"}

SealedSemantic(profile) == Semantic(profile, profile.sources)

ReadInv == \A i \in 1..Len(read) : read[i] = compiling.sources[i]

SnapshotInv ==
    Compiled => snapshot = Compile(compiling, compiling.sources, previous)

FiledInv == phase \in {"filed", "pointed"} => snapshot \in curations

PreviousInv == phase # "idle" => previous = LatestCuration(loaded.id)

SealedInv ==
    \A s \in curations : s.semantic = SealedSemantic(s.semantic.profile)

UniqueInv == \A s, t \in curations : s.semantic = t.semantic => s = t

StoreInv ==
    /\ TypeOK
    /\ ReadInv /\ SnapshotInv /\ FiledInv /\ PreviousInv
    /\ SealedInv /\ UniqueInv
    /\ PointersResolve

\* What the snapshot of a running build is filed under.
LEMMA SnapshotSemantic ==
    ASSUME TypeOK, SnapshotInv, Compiled
    PROVE  /\ compiling \in Revisions
           /\ snapshot.semantic = SealedSemantic(compiling)
           /\ snapshot.semantic.profile = compiling
<1>1. compiling \in Revisions
  BY DEF TypeOK, Compiled
<1>2. QED
  BY <1>1, CompileSemantic DEF SnapshotInv, SealedSemantic

\* The initial state satisfies the invariant.
LEMMA StoreInit == Init => StoreInv
<1> SUFFICES ASSUME Init PROVE StoreInv
  OBVIOUS
<1> USE CatalogAssumption DEF Init
<1>1. sourceFiles \in [1..SourceCount -> Documents]
  OBVIOUS
<1>2. TypeOK
  BY <1>1 DEF TypeOK, Phases, Outcomes
<1>3. ReadInv /\ SnapshotInv /\ FiledInv /\ PreviousInv
  BY DEF ReadInv, SnapshotInv, Compiled, FiledInv, PreviousInv
<1>4. SealedInv /\ UniqueInv /\ PointersResolve
  BY DEF SealedInv, UniqueInv, PointersResolve
<1>5. QED
  BY <1>2, <1>3, <1>4 DEF StoreInv

\* Stop and the steps that leave the store alone keep what is known of it.
LEMMA SameStore ==
    ASSUME StoreInv, UNCHANGED storeVars
    PROVE  /\ SealedInv' /\ UniqueInv' /\ PointersResolve'
           /\ Stored' = Stored
  BY DEF StoreInv, storeVars, SealedInv, UniqueInv, PointersResolve, Stored

\* A build that stops leaves nothing to be known about it.
LEMMA Stopped ==
    ASSUME NEW why, Stop(why)
    PROVE  ReadInv' /\ SnapshotInv' /\ FiledInv' /\ PreviousInv'
  BY DEF Stop, ReadInv, SnapshotInv, Compiled, FiledInv, PreviousInv

\* A step that neither writes the store nor touches the build keeps all but the
\* types of the workspace.
LEMMA OperatorKeeps ==
    ASSUME StoreInv, UNCHANGED <<storeVars, phase, localVars>>
    PROVE  /\ ReadInv' /\ SnapshotInv' /\ FiledInv' /\ PreviousInv'
           /\ SealedInv' /\ UniqueInv' /\ PointersResolve'
<1>1. LatestCuration(loaded.id)' = LatestCuration(loaded.id)
  BY DEF storeVars, localVars, LatestCuration
<1>2. ReadInv' /\ SnapshotInv' /\ FiledInv' /\ PreviousInv'
  BY <1>1 DEF StoreInv, storeVars, localVars, ReadInv, SnapshotInv, Compiled,
              FiledInv, PreviousInv
<1>3. QED
  BY <1>2, SameStore

\* The operator's steps preserve the invariant.
LEMMA OperatorStep == StoreInv /\ Operator => StoreInv'
<1> SUFFICES ASSUME StoreInv, Operator PROVE StoreInv'
  OBVIOUS
<1> USE CatalogAssumption
<1>1. ASSUME NEW revision \in Revisions, CheckOut(revision) PROVE StoreInv'
  <2>1. TypeOK'
    BY <1>1 DEF StoreInv, TypeOK, CheckOut, storeVars, localVars
  <2>2. UNCHANGED <<storeVars, phase, localVars>>
    BY <1>1 DEF CheckOut
  <2>3. QED
    BY <2>1, <2>2, OperatorKeeps DEF StoreInv
<1>2. ASSUME NEW i \in 1..SourceCount, NEW revision \in Revisions,
             EditSource(i, revision.sources[i])
      PROVE  StoreInv'
  <2>1. revision.sources[i] \in Documents
    BY DEF Documents
  <2>2. TypeOK'
    BY <1>2, <2>1 DEF StoreInv, TypeOK, EditSource, storeVars, localVars
  <2>3. UNCHANGED <<storeVars, phase, localVars>>
    BY <1>2 DEF EditSource
  <2>4. QED
    BY <2>2, <2>3, OperatorKeeps DEF StoreInv
<1>3. QED
  BY <1>1, <1>2 DEF Operator

\* A step that ends the build and leaves the store alone preserves it.
LEMMA StopStep ==
    ASSUME StoreInv, NEW why \in Outcomes, Stop(why),
           UNCHANGED <<workspaceVars, storeVars>>, crashes' \in 0..MaxCrashes
    PROVE  StoreInv'
<1>1. TypeOK'
  BY CatalogAssumption DEF StoreInv, TypeOK, Stop, workspaceVars, storeVars, Phases
<1>2. QED
  BY <1>1, Stopped, SameStore DEF StoreInv

\* Beginning a build: nothing has been read yet.
LEMMA BeginStep == StoreInv /\ (Load \/ LoadAgain) => StoreInv'
<1> SUFFICES ASSUME StoreInv, Load \/ LoadAgain PROVE StoreInv'
  OBVIOUS
<1> USE CatalogAssumption
<1>1. CASE Load
  <2>1. TypeOK'
    BY <1>1 DEF StoreInv, TypeOK, Load, workspaceVars, storeVars, Phases, Outcomes
  <2>2. read' = <<>>
    BY <1>1 DEF StoreInv, TypeOK, Load
  <2>3. ReadInv' /\ SnapshotInv' /\ FiledInv'
    BY <1>1, <2>2 DEF Load, ReadInv, SnapshotInv, Compiled, FiledInv
  <2>4. PreviousInv'
    BY <1>1 DEF Load, PreviousInv, LatestCuration, storeVars
  <2>5. QED
    BY <1>1, <2>1, <2>3, <2>4, SameStore DEF StoreInv, Load
<1>2. CASE LoadAgain
  <2>1. TypeOK'
    BY <1>2 DEF StoreInv, TypeOK, LoadAgain, workspaceVars, storeVars, Phases
  <2>2. read' = <<>>
    BY <1>2 DEF StoreInv, TypeOK, LoadAgain
  <2>3. ReadInv' /\ SnapshotInv' /\ FiledInv'
    BY <1>2, <2>2 DEF LoadAgain, ReadInv, SnapshotInv, Compiled, FiledInv
  <2>4. PreviousInv'
    BY <1>2 DEF StoreInv, LoadAgain, PreviousInv, LatestCuration, storeVars
  <2>5. QED
    BY <1>2, <2>1, <2>3, <2>4, SameStore DEF StoreInv, LoadAgain
<1>3. QED
  BY <1>1, <1>2

\* Reading a source: only the sealed content is accepted.
LEMMA ReadStep == StoreInv /\ ReadSource => StoreInv'
<1> SUFFICES ASSUME StoreInv, ReadSource PROVE StoreInv'
  OBVIOUS
<1> USE CatalogAssumption
<1>1. /\ Len(read) \in Nat /\ Len(read) < SourceCount
      /\ read \in Seq(Documents) /\ NextSource \in 1..SourceCount
  BY DEF StoreInv, TypeOK, ReadSource, NextSource
<1>2. sourceFiles[NextSource] \in Documents
  BY <1>1 DEF StoreInv, TypeOK
<1>3. /\ read' \in Seq(Documents) /\ Len(read') = Len(read) + 1
      /\ \A i \in 1..Len(read) : read'[i] = read[i]
      /\ read'[NextSource] = compiling.sources[NextSource]
  BY <1>1, <1>2 DEF ReadSource, NextSource
<1>4. TypeOK'
  BY <1>1, <1>3 DEF StoreInv, TypeOK, ReadSource, workspaceVars, storeVars, Phases
<1>5. ReadInv'
  <2>1. SUFFICES ASSUME NEW i \in 1..Len(read')
                 PROVE  read'[i] = compiling.sources[i]
    BY DEF ReadInv, ReadSource
  <2>2. i \in 1..Len(read) \/ i = NextSource
    BY <1>1, <1>3 DEF NextSource
  <2>3. QED
    BY <1>3, <2>2 DEF StoreInv, ReadInv
<1>6. SnapshotInv' /\ FiledInv' /\ PreviousInv'
  BY DEF StoreInv, ReadSource, SnapshotInv, Compiled, FiledInv, PreviousInv,
         LatestCuration, storeVars
<1>7. QED
  BY <1>4, <1>5, <1>6, SameStore DEF StoreInv, ReadSource

\* Compiling: what was read is what the profile was sealed with.
LEMMA CompileStep == StoreInv /\ CompileProfile => StoreInv'
<1> SUFFICES ASSUME StoreInv, CompileProfile PROVE StoreInv'
  OBVIOUS
<1> USE CatalogAssumption
<1>1. compiling \in Revisions
  BY DEF StoreInv, TypeOK, CompileProfile
<1>2. read = compiling.sources
  <2>1. /\ read \in Seq(Documents) /\ compiling.sources \in Seq(Documents)
        /\ Len(read) = SourceCount /\ Len(compiling.sources) = SourceCount
    BY <1>1 DEF StoreInv, TypeOK, CompileProfile
  <2>2. \A i \in 1..SourceCount : read[i] = compiling.sources[i]
    BY <2>1 DEF StoreInv, ReadInv
  <2>3. QED
    BY <2>1, <2>2
<1>3. TypeOK'
  BY DEF StoreInv, TypeOK, CompileProfile, workspaceVars, storeVars, Phases
<1>4. SnapshotInv'
  BY <1>2 DEF CompileProfile, SnapshotInv
<1>5. ReadInv' /\ FiledInv' /\ PreviousInv'
  BY DEF StoreInv, CompileProfile, ReadInv, FiledInv, PreviousInv,
         LatestCuration, storeVars
<1>6. QED
  BY <1>3, <1>4, <1>5, SameStore DEF StoreInv, CompileProfile

\* Filing the snapshot: its ID was free, or held the same bytes.
LEMMA FileStep == StoreInv /\ WriteReceipt => StoreInv'
<1> SUFFICES ASSUME StoreInv, WriteReceipt PROVE StoreInv'
  OBVIOUS
<1>1. /\ compiling \in Revisions
      /\ snapshot.semantic = SealedSemantic(compiling)
      /\ snapshot.semantic.profile = compiling
  BY SnapshotSemantic DEF StoreInv, Compiled, WriteReceipt
<1>2. /\ curations' = curations \cup {snapshot}
      /\ latest' = latest /\ latestFor' = latestFor
  BY DEF WriteReceipt
<1>3. snapshot \in curations \/ \A s \in curations : s.semantic # snapshot.semantic
  BY DEF WriteReceipt, Stored
<1>4. TypeOK'
  BY <1>1, <1>2 DEF StoreInv, TypeOK, WriteReceipt, workspaceVars, localVars, Phases
<1>5. SealedInv'
  BY <1>1, <1>2 DEF StoreInv, SealedInv
<1>6. UniqueInv'
  BY <1>2, <1>3 DEF StoreInv, UniqueInv
<1>7. PointersResolve'
  BY <1>2 DEF StoreInv, PointersResolve, Stored
<1>8. PreviousInv'
  <2>1. loaded.id \in ProfileIds
    BY DEF StoreInv, TypeOK, WriteReceipt, ProfileIds
  <2>2. snapshot.semantic \in latestFor[loaded.id] => snapshot \in curations
    BY <1>3, <2>1 DEF StoreInv, PointersResolve, Stored
  <2>3. LatestCuration(loaded.id)' = LatestCuration(loaded.id)
    BY <1>2, <2>2 DEF LatestCuration, WriteReceipt, localVars
  <2>4. QED
    BY <2>3 DEF StoreInv, PreviousInv, WriteReceipt, localVars
<1>9. ReadInv' /\ SnapshotInv' /\ FiledInv'
  BY <1>2 DEF StoreInv, WriteReceipt, localVars, ReadInv, SnapshotInv, Compiled, FiledInv
<1>10. QED
  BY <1>4, <1>5, <1>6, <1>7, <1>8, <1>9 DEF StoreInv

\* Writing the profile and the pointers: the snapshot they stand for is filed.
LEMMA PointStep ==
    StoreInv /\ (WriteProfile \/ WriteLatest \/ WriteLatestFor) => StoreInv'
<1> SUFFICES ASSUME StoreInv, WriteProfile \/ WriteLatest \/ WriteLatestFor
             PROVE  StoreInv'
  OBVIOUS
<1>1. CASE WriteProfile
  <2>1. TypeOK'
    BY <1>1 DEF StoreInv, TypeOK, WriteProfile, workspaceVars, localVars, Phases
  <2>2. ReadInv' /\ SnapshotInv' /\ FiledInv' /\ PreviousInv'
    BY <1>1 DEF StoreInv, WriteProfile, localVars, ReadInv, SnapshotInv, Compiled,
                FiledInv, PreviousInv, LatestCuration
  <2>3. SealedInv' /\ UniqueInv' /\ PointersResolve'
    BY <1>1 DEF StoreInv, WriteProfile, SealedInv, UniqueInv, PointersResolve, Stored
  <2>4. QED
    BY <2>1, <2>2, <2>3 DEF StoreInv
<1>2. CASE WriteLatest
  <2>1. snapshot \in curations
    BY <1>2 DEF StoreInv, FiledInv, WriteLatest
  <2>2. TypeOK'
    BY <1>2 DEF StoreInv, TypeOK, WriteLatest, workspaceVars, localVars, Phases
  <2>3. ReadInv' /\ SnapshotInv' /\ FiledInv' /\ PreviousInv'
    BY <1>2, <2>1 DEF StoreInv, WriteLatest, localVars, ReadInv, SnapshotInv,
                      Compiled, FiledInv, PreviousInv, LatestCuration
  <2>4. SealedInv' /\ UniqueInv' /\ PointersResolve'
    BY <1>2, <2>1 DEF StoreInv, WriteLatest, SealedInv, UniqueInv, PointersResolve, Stored
  <2>5. QED
    BY <2>2, <2>3, <2>4 DEF StoreInv
<1>3. CASE WriteLatestFor
  <2>1. /\ snapshot \in curations
        /\ compiling \in Revisions /\ snapshot.semantic.profile = compiling
    BY <1>3, SnapshotSemantic DEF StoreInv, FiledInv, Compiled, WriteLatestFor
  <2>2. TypeOK'
    BY <1>3, CatalogAssumption DEF StoreInv, TypeOK, WriteLatestFor, Stop,
       workspaceVars, Phases, Outcomes
  <2>3. ReadInv' /\ SnapshotInv' /\ FiledInv' /\ PreviousInv'
    BY <1>3, Stopped DEF WriteLatestFor
  <2>4. SealedInv' /\ UniqueInv'
    BY <1>3 DEF StoreInv, WriteLatestFor, SealedInv, UniqueInv
  <2>5. PointersResolve'
    <3>1. Stored' = Stored /\ latest' = latest
      BY <1>3 DEF WriteLatestFor, Stored
    <3>2. ASSUME NEW id \in ProfileIds
          PROVE  latestFor'[id] \subseteq
                    {semantic \in Stored : semantic.profile.id = id}
      BY <1>3, <2>1 DEF StoreInv, TypeOK, PointersResolve, WriteLatestFor, Stored
    <3>3. QED
      BY <3>1, <3>2 DEF StoreInv, PointersResolve
  <2>6. QED
    BY <2>2, <2>3, <2>4, <2>5 DEF StoreInv
<1>4. QED
  BY <1>1, <1>2, <1>3

\* Every step preserves the invariant.
LEMMA StoreStep == StoreInv /\ [Next]_buildVars => StoreInv'
<1> SUFFICES ASSUME StoreInv, [Next]_buildVars PROVE StoreInv'
  OBVIOUS
<1>1. crashes \in 0..MaxCrashes
  BY DEF StoreInv, TypeOK
<1>2. CASE Operator
  BY <1>2, OperatorStep
<1>3. CASE Load \/ LoadAgain
  BY <1>3, BeginStep
<1>4. CASE ReadSource
  BY <1>4, ReadStep
<1>5. CASE SourceDrifted \/ CompileRefuses
  <2>1. /\ Stop("refused") /\ crashes' = crashes
        /\ UNCHANGED <<workspaceVars, storeVars>>
    BY <1>5 DEF SourceDrifted, CompileRefuses
  <2>2. QED
    BY <1>1, <2>1, StopStep DEF Outcomes
<1>6. CASE CompileProfile
  BY <1>6, CompileStep
<1>7. CASE WriteReceipt
  BY <1>7, FileStep
<1>8. CASE ReceiptConflicts
  <2>1. /\ Stop("conflict") /\ crashes' = crashes
        /\ UNCHANGED <<workspaceVars, storeVars>>
    BY <1>8 DEF ReceiptConflicts
  <2>2. QED
    BY <1>1, <2>1, StopStep DEF Outcomes
<1>9. CASE WriteProfile \/ WriteLatest \/ WriteLatestFor
  BY <1>9, PointStep
<1>10. CASE Crash
  <2>1. /\ Stop("crashed") /\ crashes' \in 0..MaxCrashes
        /\ UNCHANGED <<workspaceVars, storeVars>>
    BY <1>1, <1>10, CatalogAssumption DEF Crash
  <2>2. QED
    BY <2>1, StopStep DEF Outcomes
<1>11. CASE UNCHANGED buildVars
  <2>1. TypeOK'
    BY <1>11 DEF StoreInv, TypeOK, buildVars, workspaceVars, storeVars, localVars
  <2>2. UNCHANGED <<storeVars, phase, localVars>>
    BY <1>11 DEF buildVars
  <2>3. QED
    BY <2>1, <2>2, OperatorKeeps DEF StoreInv
<1>12. QED
  BY <1>2, <1>3, <1>4, <1>5, <1>6, <1>7, <1>8, <1>9, <1>10, <1>11 DEF Next, Build

\* The invariant holds in every reachable state.
THEOREM StoreInvariant == Spec => []StoreInv
<1>1. Init => StoreInv
  BY StoreInit
<1>2. StoreInv /\ [Next]_buildVars => StoreInv'
  BY StoreStep
<1>3. QED
  BY <1>1, <1>2, PTL DEF Spec

\* state.py and curated(): every variable keeps its type, and a build that has
\* ended, in whatever way, leaves nothing to the next one.
THEOREM CatalogTypeCorrect == Spec => []TypeOK
<1>1. StoreInv => TypeOK
  BY DEF StoreInv
<1>2. QED
  BY <1>1, StoreInvariant, PTL

\* write_curation: whichever write a crash follows, the pointers name stored
\* snapshots, and a profile's pointer one of that profile.
THEOREM PointersAlwaysResolve == Spec => []PointersResolve
<1>1. StoreInv => PointersResolve
  BY DEF StoreInv
<1>2. QED
  BY <1>1, StoreInvariant, PTL

\* No step takes a snapshot out of the store.
LEMMA OnlyAdded ==
    ASSUME [Next]_buildVars
    PROVE  curations \subseteq curations'
BY DEF Next, Operator, Build, CheckOut, EditSource, Load, LoadAgain, ReadSource,
       SourceDrifted, CompileProfile, CompileRefuses, WriteProfile, WriteReceipt,
       ReceiptConflicts, WriteLatest, WriteLatestFor, Crash, buildVars, storeVars

\* _write_immutable: what an ID names it names for ever.  A stored snapshot stays,
\* and since two contents never share an ID (UniqueInv, which only the comparison
\* with the file already there preserves) it is the only one its ID names.
THEOREM StoredSnapshotsStay == Spec => ReceiptsImmutable
<1>1. ASSUME StoreInv, StoreInv', [Next]_buildVars, NEW s \in curations
      PROVE  {t \in curations' : t.semantic = s.semantic} = {s}
  <2>1. s \in curations'
    BY <1>1, OnlyAdded
  <2>2. \A t \in curations' : t.semantic = s.semantic => t = s
    BY <1>1, <2>1 DEF StoreInv, UniqueInv
  <2>3. QED
    BY <2>1, <2>2
<1>2. StoreInv /\ StoreInv' /\ [Next]_buildVars
        => [\A s \in curations :
              {t \in curations' : t.semantic = s.semantic} = {s}]_buildVars
  BY <1>1
<1>3. QED
  BY <1>2, StoreInvariant, PTL DEF Spec, ReceiptsImmutable

-----------------------------------------------------------------------------
(* What holds when the profile file is left alone during a build: both     *)
(* loads then see the same revision.                                       *)

LoadedInv ==
    /\ phase = "loaded" => loaded = profileFile
    /\ phase \notin {"idle", "loaded"} => loaded = compiling

ProfiledInv == phase \in {"profiled", "filed", "pointed"} => loaded \in profiles

\* A snapshot of a profile that has no pointer yet was compared with nothing.
FirstInv ==
    \A s \in curations :
        latestFor[s.semantic.profile.id] = {} =>
            s = Compile(s.semantic.profile, s.semantic.profile.sources, {})

HistoryInv == LoadedInv /\ ProfiledInv /\ Exportable /\ DiffsResolve /\ FirstInv

\* What a filed or previous snapshot was compared with is of its own profile.
LEMMA SnapshotHistory ==
    ASSUME StoreInv, HistoryInv, phase = "profiled"
    PROVE  /\ snapshot.diff.previous \subseteq
                {semantic \in Stored : semantic.profile.id = compiling.id}
           /\ latestFor[compiling.id] = {} =>
                snapshot = Compile(compiling, compiling.sources, {})
<1>1. /\ compiling \in Revisions /\ loaded = compiling
      /\ snapshot = Compile(compiling, compiling.sources, previous)
      /\ snapshot.semantic.profile = compiling
  BY SnapshotSemantic DEF StoreInv, HistoryInv, LoadedInv, SnapshotInv, Compiled
<1>2. /\ previous = {s \in curations : s.semantic \in latestFor[compiling.id]}
      /\ compiling.id \in ProfileIds
  BY <1>1 DEF StoreInv, PreviousInv, LatestCuration, ProfileIds
<1>3. snapshot.diff.previous \subseteq
        {semantic \in Stored : semantic.profile.id = compiling.id}
  <2>1. CASE snapshot \in previous
    BY <1>1, <1>2, <2>1 DEF HistoryInv, DiffsResolve
  <2>2. CASE snapshot.diff.previous = {s.semantic : s \in previous}
    <3>1. \A s \in previous :
            s.semantic \in Stored /\ s.semantic.profile.id = compiling.id
      BY <1>2 DEF StoreInv, PointersResolve, Stored
    <3>2. QED
      BY <2>2, <3>1
  <2>3. QED
    BY <1>1, <2>1, <2>2, CompileAgainst
<1>4. latestFor[compiling.id] = {} => previous = {}
  BY <1>2
<1>5. QED
  BY <1>1, <1>3, <1>4

\* Every step preserves the history invariant.
LEMMA HistoryStep ==
    ASSUME ~EditWhileBuilding, StoreInv, HistoryInv, [Next]_buildVars
    PROVE  HistoryInv'
<1> USE DEF HistoryInv
<1>1. ASSUME UNCHANGED storeVars
      PROVE  Exportable' /\ DiffsResolve' /\ FirstInv'
  BY <1>1 DEF storeVars, Exportable, DiffsResolve, FirstInv, Stored
<1>2. ASSUME UNCHANGED storeVars, phase' = "idle"
      PROVE  HistoryInv'
  BY <1>1, <1>2 DEF LoadedInv, ProfiledInv
<1>3. ASSUME UNCHANGED <<storeVars, phase, localVars>>,
             phase = "idle" \/ profileFile' = profileFile
      PROVE  HistoryInv'
  BY <1>1, <1>3 DEF LoadedInv, ProfiledInv, storeVars, localVars
<1>4. CASE Operator
  BY <1>3, <1>4 DEF Operator, CheckOut, EditSource
<1>5. CASE Load
  BY <1>1, <1>5 DEF Load, LoadedInv, ProfiledInv, workspaceVars
<1>6. CASE LoadAgain
  BY <1>1, <1>6 DEF LoadAgain, LoadedInv, ProfiledInv, workspaceVars
<1>7. CASE ReadSource \/ CompileProfile
  BY <1>1, <1>7 DEF ReadSource, CompileProfile, LoadedInv, ProfiledInv, workspaceVars
<1>8. CASE SourceDrifted \/ CompileRefuses \/ ReceiptConflicts \/ Crash
  BY <1>2, <1>8 DEF SourceDrifted, CompileRefuses, ReceiptConflicts, Crash, Stop
<1>9. CASE WriteProfile
  BY <1>9 DEF WriteProfile, LoadedInv, ProfiledInv, Exportable, DiffsResolve,
              FirstInv, Stored, localVars, workspaceVars
<1>10. CASE WriteReceipt
  <2>1. /\ phase = "profiled" /\ loaded = compiling /\ loaded \in profiles
        /\ curations' = curations \cup {snapshot} /\ profiles' = profiles
        /\ latestFor' = latestFor
    BY <1>10 DEF WriteReceipt, LoadedInv, ProfiledInv
  <2>2. snapshot.semantic.profile = compiling
    BY <2>1, SnapshotSemantic DEF StoreInv, Compiled
  <2>3. LoadedInv' /\ ProfiledInv'
    BY <1>10, <2>1 DEF WriteReceipt, LoadedInv, ProfiledInv, localVars
  <2>4. Exportable'
    BY <2>1, <2>2 DEF Exportable
  <2>5. DiffsResolve'
    <3>1. Stored \subseteq Stored'
      BY <2>1 DEF Stored
    <3>2. \A s \in curations' :
            s.diff.previous \subseteq
                {semantic \in Stored : semantic.profile.id = s.semantic.profile.id}
      BY <2>1, <2>2, SnapshotHistory DEF DiffsResolve
    <3>3. QED
      BY <3>1, <3>2 DEF DiffsResolve
  <2>6. FirstInv'
    BY <2>1, <2>2, SnapshotHistory DEF FirstInv
  <2>7. QED
    BY <2>3, <2>4, <2>5, <2>6
<1>11. CASE WriteLatest
  BY <1>11 DEF WriteLatest, LoadedInv, ProfiledInv, Exportable, DiffsResolve,
               FirstInv, Stored, localVars, workspaceVars
<1>12. CASE WriteLatestFor
  <2>1. /\ curations' = curations /\ profiles' = profiles /\ phase' = "idle"
        /\ latestFor' = [latestFor EXCEPT ![compiling.id] = {snapshot.semantic}]
    BY <1>12 DEF WriteLatestFor, Stop
  <2>2. FirstInv'
    <3>1. SUFFICES ASSUME NEW s \in curations, latestFor'[s.semantic.profile.id] = {}
                   PROVE  s = Compile(s.semantic.profile,
                                      s.semantic.profile.sources, {})
      BY <2>1 DEF FirstInv
    <3>2. s.semantic.profile.id \in ProfileIds /\ DOMAIN latestFor = ProfileIds
      BY DEF StoreInv, TypeOK, ProfileIds
    <3>3. latestFor[s.semantic.profile.id] = {}
      BY <2>1, <3>1, <3>2
    <3>4. QED
      BY <3>3 DEF FirstInv
  <2>3. QED
    BY <2>1, <2>2 DEF LoadedInv, ProfiledInv, Exportable, DiffsResolve, Stored
<1>13. CASE UNCHANGED buildVars
  BY <1>3, <1>13 DEF buildVars, workspaceVars
<1>14. QED
  BY <1>4, <1>5, <1>6, <1>7, <1>8, <1>9, <1>10, <1>11, <1>12, <1>13 DEF Next, Build

\* Both invariants hold in every reachable state.
THEOREM HistoryInvariant ==
    ASSUME ~EditWhileBuilding
    PROVE  Spec => [](StoreInv /\ HistoryInv)
<1>1. Init => HistoryInv
  BY DEF Init, HistoryInv, LoadedInv, ProfiledInv, Exportable, DiffsResolve, FirstInv
<1>2. StoreInv /\ HistoryInv /\ [Next]_buildVars => HistoryInv'
  BY HistoryStep
<1>3. QED
  BY <1>1, <1>2, StoreInvariant, PTL DEF Spec

\* curated() then exported(): every stored snapshot, pointed at or left behind
\* by a crash, has its profile in the store.
THEOREM SnapshotsAreExportable ==
    ASSUME ~EditWhileBuilding
    PROVE  Spec => []Exportable
<1>1. HistoryInv => Exportable
  BY DEF HistoryInv
<1>2. QED
  BY <1>1, HistoryInvariant, PTL

\* compile_profile: the chain of diffs never leaves the store or the profile.
THEOREM DiffsAlwaysResolve ==
    ASSUME ~EditWhileBuilding
    PROVE  Spec => []DiffsResolve
<1>1. HistoryInv => DiffsResolve
  BY DEF HistoryInv
<1>2. QED
  BY <1>1, HistoryInvariant, PTL

\* write_curation refuses a build only when the operator has returned to a
\* revision that is no longer the latest of its profile: a crash, a rerun and the
\* builds of other profiles never cause the refusal.
THEOREM ConflictsComeFromReverts ==
    ASSUME ~EditWhileBuilding
    PROVE  Spec => ConflictMeansRevert
<1>1. ASSUME StoreInv, HistoryInv, ReceiptConflicts
      PROVE  latestFor[compiling.id] \notin {{}, {snapshot.semantic}}
  <2>1. /\ phase = "profiled" /\ snapshot \notin curations
        /\ snapshot.semantic \in Stored
    BY <1>1 DEF ReceiptConflicts
  <2>2. PICK t \in curations : t.semantic = snapshot.semantic
    BY <2>1 DEF Stored
  <2>3. /\ compiling \in Revisions /\ loaded = compiling
        /\ snapshot = Compile(compiling, compiling.sources, previous)
        /\ snapshot.semantic = Semantic(compiling, compiling.sources)
        /\ snapshot.semantic.profile = compiling
    BY <1>1, <2>1, SnapshotSemantic DEF StoreInv, HistoryInv, LoadedInv,
       SnapshotInv, Compiled, SealedSemantic
  <2>4. previous = {s \in curations : s.semantic \in latestFor[compiling.id]}
    BY <1>1, <2>1, <2>3 DEF StoreInv, PreviousInv, LatestCuration
  <2>5. latestFor[compiling.id] # {}
    BY <1>1, <2>1, <2>2, <2>3, SnapshotHistory DEF HistoryInv, FirstInv
  <2>6. latestFor[compiling.id] # {snapshot.semantic}
    <3>1. SUFFICES ASSUME latestFor[compiling.id] = {snapshot.semantic}
                   PROVE  FALSE
      OBVIOUS
    <3>2. t \in previous
      BY <2>2, <2>4, <3>1
    <3>3. snapshot \in previous
      BY <2>2, <2>3, <3>2, CompileAgainst
    <3>4. QED
      BY <2>1, <2>4, <3>3
  <2>7. QED
    BY <2>5, <2>6
<1>2. ASSUME StoreInv, HistoryInv, Next, outcome' = "conflict", outcome # "conflict"
      PROVE  ReceiptConflicts
  BY <1>2 DEF Next, Operator, Build, CheckOut, EditSource, Load, LoadAgain, ReadSource,
     SourceDrifted, CompileProfile, CompileRefuses, WriteProfile, WriteReceipt,
     WriteLatest, WriteLatestFor, Crash, Stop
<1>3. StoreInv /\ HistoryInv /\ [Next]_buildVars =>
        [ outcome' = "conflict" /\ outcome # "conflict" =>
            latestFor[compiling.id] \notin {{}, {snapshot.semantic}} ]_buildVars
  BY <1>1, <1>2
<1>4. QED
  BY <1>3, HistoryInvariant, PTL DEF Spec, ConflictMeansRevert

-----------------------------------------------------------------------------
(* The export.                                                             *)

\* The export only reads the store: the composed system takes the build's steps
\* and no others, so whatever holds of the build holds beside exports.
THEOREM ExportLeavesTheStoreAlone == CatalogSpec => Spec
<1>1. CatalogInit => Init
  BY DEF CatalogInit
<1>2. [CatalogNext]_allVars => [Next]_buildVars
  BY DEF CatalogNext, allVars
<1>3. QED
  BY <1>1, <1>2, PTL DEF CatalogSpec, Spec

\* What `catalog export` may rely on, with exports and builds in any order:
\* pointers resolve, snapshots have their profile, diffs stay in the store.
THEOREM StoreWithExports ==
    ASSUME ~EditWhileBuilding
    PROVE  CatalogSpec => [](PointersResolve /\ Exportable /\ DiffsResolve)
<1>1. QED
  BY ExportLeavesTheStoreAlone, PointersAlwaysResolve, SnapshotsAreExportable,
     DiffsAlwaysResolve, PTL

\* Where the old tree and the new one are at each step of an export.
StepInv ==
    /\ step \in Steps
    /\ step = "idle" => wanted = NoTree /\ stage = NoTree /\ backup = NoTree
    /\ step = "staging" => target = before /\ stage = NoTree /\ backup = NoTree
    /\ step = "moving" => target = before /\ stage = wanted /\ backup = NoTree
    /\ step = "aside" => target = NoTree /\ stage = wanted /\ backup = before
    /\ step = "placed" => target = wanted /\ stage = NoTree /\ backup = before

\* A running export has a package of its own, and no foreign directory to move.
WantedInv ==
    step # "idle" => wanted \notin {NoTree, Unmanaged} /\ before # Unmanaged

ExportInv == StepInv /\ WantedInv

\* A stored snapshot is a tree: it was compiled from a revision's own sources.
LEMMA StoredIsTree ==
    ASSUME StoreInv
    PROVE  \A s \in curations : s.semantic \notin {NoTree, Unmanaged}
<1>1. SUFFICES ASSUME NEW s \in curations
               PROVE  s.semantic \notin {NoTree, Unmanaged}
  OBVIOUS
<1>2. /\ s.semantic.profile \in Revisions
      /\ s.semantic = Semantic(s.semantic.profile, s.semantic.profile.sources)
  BY DEF StoreInv, TypeOK, SealedInv, SealedSemantic
<1>3. QED
  BY <1>2, TreeAssumption

\* An export that ends, in whatever way, leaves no directory of its own.
LEMMA LeftIdle ==
    ASSUME NEW how, Leave(how)
    PROVE  ExportInv'
  BY DEF Leave, ExportInv, StepInv, WantedInv, Steps

\* Every step preserves the invariant.
LEMMA ExportStep ==
    ASSUME StoreInv, ExportInv, [CatalogNext]_allVars
    PROVE  ExportInv'
<1> USE DEF ExportInv
<1>1. ASSUME UNCHANGED exportVars PROVE ExportInv'
  BY <1>1 DEF exportVars, StepInv, WantedInv
<1>2. ASSUME NEW s \in curations, Begin(s) PROVE ExportInv'
  <2>1. CASE Leave("refused") \/ Leave("unchanged")
    BY <2>1, LeftIdle
  <2>2. CASE ~(Leave("refused") \/ Leave("unchanged"))
    <3>1. /\ step = "idle" /\ target \notin {Unmanaged, s.semantic}
          /\ step' = "staging" /\ wanted' = s.semantic
          /\ before' = target /\ UNCHANGED <<stage, backup, target>>
      BY <1>2, <2>2 DEF Begin
    <3>2. QED
      BY <3>1, StoredIsTree DEF StepInv, WantedInv, Steps
  <2>3. QED
    BY <2>1, <2>2
<1>3. CASE Stage
  BY <1>3 DEF Stage, StepInv, WantedInv, Steps
<1>4. CASE MoveAside
  BY <1>4 DEF MoveAside, StepInv, WantedInv, Steps
<1>5. CASE MoveIn
  BY <1>5 DEF MoveIn, StepInv, WantedInv, Steps
<1>6. CASE \/ StageFails \/ MoveAsideFails \/ MoveInFails \/ RestoreFails
           \/ DropBackup \/ DropBackupFails \/ Interrupt \/ Kill
  BY <1>6, LeftIdle DEF StageFails, MoveAsideFails, MoveInFails, RestoreFails,
     DropBackup, DropBackupFails, Interrupt, Kill
<1>7. QED
  BY <1>1, <1>2, <1>3, <1>4, <1>5, <1>6 DEF CatalogNext, Export, allVars

\* The store and the export invariants hold in every reachable state.
THEOREM ExportInvariant == CatalogSpec => [](StoreInv /\ ExportInv)
<1>1. CatalogInit => ExportInv
  BY DEF CatalogInit, ExportInit, ExportInv, StepInv, WantedInv, Steps
<1>2. StoreInv /\ ExportInv /\ [CatalogNext]_allVars => ExportInv'
  BY ExportStep
<1>3. QED
  BY <1>1, <1>2, ExportLeavesTheStoreAlone, StoreInvariant, PTL DEF CatalogSpec

\* write_public_catalog: an export that ends by itself leaves the whole old tree
\* or the whole new one, whichever rename or deletion failed, unless it ended
\* between the two renames without putting the old tree back.
THEOREM ExportsEndWhole == CatalogSpec => ExportEndsWhole
<1> DEFINE Ends == step # "idle" /\ step' = "idle" /\ result' # "killed" /\ ~InGap
           Whole == /\ target' \in {before, wanted}
                    /\ result' = "changed" => target' = wanted
                    /\ before # Unmanaged
<1>1. ASSUME ExportInv, CatalogNext, Ends PROVE Whole
  <2> USE DEF ExportInv, StepInv
  <2>1. before # Unmanaged
    BY <1>1 DEF WantedInv
  <2>2. CASE StageFails \/ MoveAsideFails
    BY <1>1, <2>1, <2>2 DEF StageFails, MoveAsideFails, Leave
  <2>3. CASE MoveInFails
    BY <1>1, <2>1, <2>3 DEF MoveInFails, Leave
  <2>4. CASE RestoreFails
    BY <1>1, <2>4 DEF RestoreFails, Leave, InGap
  <2>5. CASE DropBackup \/ DropBackupFails
    BY <1>1, <2>1, <2>5 DEF DropBackup, DropBackupFails, Leave
  <2>6. CASE Interrupt
    BY <1>1, <2>1, <2>6 DEF Interrupt, Leave, InGap, Steps
  <2>7. CASE Kill
    BY <1>1, <2>7 DEF Kill, Leave
  <2>8. CASE Stage \/ MoveAside \/ MoveIn
    BY <1>1, <2>8 DEF Stage, MoveAside, MoveIn
  <2>9. CASE \E s \in curations : Begin(s)
    BY <1>1, <2>9 DEF Begin
  <2>10. CASE UNCHANGED exportVars
    BY <1>1, <2>10 DEF exportVars
  <2>11. QED
    BY <1>1, <2>2, <2>3, <2>4, <2>5, <2>6, <2>7, <2>8, <2>9, <2>10
       DEF CatalogNext, Export
<1>2. StoreInv /\ ExportInv /\ [CatalogNext]_allVars
        => [step # "idle" /\ step' = "idle" /\ result' # "killed" /\ ~InGap =>
              /\ target' \in {before, wanted}
              /\ result' = "changed" => target' = wanted
              /\ before # Unmanaged]_allVars
  BY <1>1
<1>3. QED
  BY <1>2, ExportInvariant, PTL DEF CatalogSpec, ExportEndsWhole

\* write_public_catalog: once a whole tree was published, every step leaves one
\* on the disk, a kill at any instant included, with the same exception.
THEOREM CatalogsSurvive == CatalogSpec => CatalogSurvives
<1>1. ASSUME ExportInv, CatalogNext, HasCatalog, ~InGap PROVE HasCatalog'
  <2> USE DEF ExportInv, StepInv, HasCatalog
  <2>1. CASE StageFails \/ MoveAsideFails
    BY <1>1, <2>1 DEF StageFails, MoveAsideFails, Leave
  <2>2. CASE MoveInFails
    BY <1>1, <2>2 DEF MoveInFails, Leave, WantedInv
  <2>3. CASE RestoreFails
    BY <1>1, <2>3 DEF RestoreFails, Leave, InGap
  <2>4. CASE DropBackup \/ DropBackupFails
    BY <1>1, <2>4 DEF DropBackup, DropBackupFails, Leave, WantedInv
  <2>5. CASE Interrupt
    BY <1>1, <2>5 DEF Interrupt, Leave, InGap, Steps, WantedInv
  <2>6. CASE Kill
    BY <1>1, <2>6 DEF Kill, Leave
  <2>7. CASE Stage \/ MoveAside \/ MoveIn
    BY <1>1, <2>7 DEF Stage, MoveAside, MoveIn, WantedInv
  <2>8. CASE \E s \in curations : Begin(s)
    BY <1>1, <2>8 DEF Begin, Leave
  <2>9. CASE UNCHANGED exportVars
    BY <1>1, <2>9 DEF exportVars
  <2>10. QED
    BY <1>1, <2>1, <2>2, <2>3, <2>4, <2>5, <2>6, <2>7, <2>8, <2>9
       DEF CatalogNext, Export
<1>2. StoreInv /\ ExportInv /\ [CatalogNext]_allVars
        => [HasCatalog /\ ~InGap => HasCatalog']_allVars
  BY <1>1
<1>3. QED
  BY <1>2, ExportInvariant, PTL DEF CatalogSpec, CatalogSurvives
=============================================================================
