---------------------------- MODULE CatalogBuild ----------------------------
(***************************************************************************)
(* `shoulda catalog build`: curated() of admin_services.py over the files  *)
(* of the operator's workspace and the curation part of the state store    *)
(* (state.py).  A build reads the profile twice and every source once, one *)
(* file at a time, and then makes four durable writes: the profile, the    *)
(* immutable snapshot, the global pointer and the profile's pointer.  Each *)
(* write is a temporary file renamed into place, so it happens or does not *)
(* and a process may die between any two.  The store has one writer: the   *)
(* project states that it does no cross-process locking.                   *)
(*                                                                         *)
(* A revision is a profile document; its sources are named by the content  *)
(* their digests stand for.  A stored snapshot is filed under what its ID  *)
(* is a digest of, its "semantic" part; a pointer is the set of what it     *)
(* names, empty while the file does not exist.                             *)
(***************************************************************************)
EXTENDS Curation

CONSTANTS Revisions,         \* every profile document the operator may check out
          SourceCount,       \* sources a profile lists
          NoRevision, NoSnapshot, \* nothing loaded, nothing compiled yet
          EditWhileBuilding, \* may the profile file change during a build?
          MaxEdits, MaxCrashes

ProfileIds == {revision.id : revision \in Revisions}
Documents == UNION {{revision.sources[i] : i \in 1..SourceCount} : revision \in Revisions}

ASSUME CatalogAssumption ==
    /\ SourceCount \in Nat \ {0}
    /\ \A revision \in Revisions :
        revision.sources \in Seq(Documents) /\ Len(revision.sources) = SourceCount
    /\ NoRevision \notin Revisions
    /\ EditWhileBuilding \in BOOLEAN
    /\ MaxEdits \in Nat /\ MaxCrashes \in Nat

VARIABLES
    profileFile, sourceFiles,         \* the operator's workspace
    profiles,                         \* curation-profiles/<fingerprint>.json
    curations,                        \* curations/<id>.json
    latest,                           \* latest-curation.json
    latestFor,                        \* curations/latest/<profile>.json
    phase, loaded, previous,          \* the running build
    compiling, read, snapshot,
    outcome,                          \* how the last build ended
    edits, crashes

workspaceVars == <<profileFile, sourceFiles, edits>>
storeVars == <<profiles, curations, latest, latestFor>>
localVars == <<loaded, previous, compiling, read, snapshot>>
buildVars == <<workspaceVars, storeVars, phase, localVars, outcome, crashes>>

Phases == {"idle", "loaded", "reading", "compiled", "profiled", "filed", "pointed"}
Outcomes == {"none", "built", "refused", "conflict", "crashed"}

Stored == {s.semantic : s \in curations}

Init ==
    /\ profileFile \in Revisions
    /\ sourceFiles = profileFile.sources
    /\ profiles = {} /\ curations = {}
    /\ latest = {}
    /\ latestFor = [id \in ProfileIds |-> {}]
    /\ phase = "idle"
    /\ loaded = NoRevision /\ compiling = NoRevision
    /\ previous = {} /\ snapshot = NoSnapshot
    /\ read = <<>>
    /\ outcome = "none"
    /\ edits = 0 /\ crashes = 0

-----------------------------------------------------------------------------
(* The operator                                                            *)

CheckOut(revision) ==
    /\ edits < MaxEdits
    /\ phase = "idle" \/ EditWhileBuilding
    /\ revision # profileFile
    /\ profileFile' = revision
    /\ sourceFiles' = revision.sources
    /\ edits' = edits + 1
    /\ UNCHANGED <<storeVars, phase, localVars, outcome, crashes>>

\* A source saved without resealing the profile, at any instant.
EditSource(i, document) ==
    /\ edits < MaxEdits
    /\ document # sourceFiles[i]
    /\ sourceFiles' = [sourceFiles EXCEPT ![i] = document]
    /\ edits' = edits + 1
    /\ UNCHANGED <<profileFile, storeVars, phase, localVars, outcome, crashes>>

-----------------------------------------------------------------------------
(* The build                                                               *)

\* Mutant: the global pointer decides what a profile is compared with.
LatestOfAny(profileId) ==
    {s \in curations : s.semantic \in latest}

\* latest_curation(profile_id): the pointer, then the receipt it names.
LatestCuration(profileId) ==
    {s \in curations : s.semantic \in latestFor[profileId]}

Load ==
    /\ phase = "idle"
    /\ latestFor[profileFile.id] \subseteq Stored     \* else state_not_found
    /\ phase' = "loaded"
    /\ loaded' = profileFile
    /\ previous' = LatestCuration(profileFile.id)
    /\ outcome' = "none"
    /\ UNCHANGED <<workspaceVars, storeVars, compiling, read, snapshot, crashes>>

\* compile_profile loads the profile file again.
LoadAgain ==
    /\ phase = "loaded"
    /\ phase' = "reading"
    /\ compiling' = profileFile
    /\ UNCHANGED <<workspaceVars, storeVars, loaded, previous, read, snapshot,
                   outcome, crashes>>

Stop(why) ==
    /\ phase' = "idle"
    /\ outcome' = why
    /\ loaded' = NoRevision /\ compiling' = NoRevision
    /\ previous' = {} /\ snapshot' = NoSnapshot
    /\ read' = <<>>

NextSource == Len(read) + 1

ReadSource ==
    /\ phase = "reading" /\ Len(read) < SourceCount
    /\ sourceFiles[NextSource] = compiling.sources[NextSource]
    /\ read' = Append(read, sourceFiles[NextSource])
    /\ UNCHANGED <<workspaceVars, storeVars, phase, loaded, previous, compiling,
                   snapshot, outcome, crashes>>

SourceDrifted ==
    /\ phase = "reading" /\ Len(read) < SourceCount
    /\ sourceFiles[NextSource] # compiling.sources[NextSource]
    /\ Stop("refused")
    /\ UNCHANGED <<workspaceVars, storeVars, crashes>>

CompileProfile ==
    /\ phase = "reading" /\ Len(read) = SourceCount
    /\ Compilable(compiling, read)
    /\ phase' = "compiled"
    /\ snapshot' = Compile(compiling, read, previous)
    /\ UNCHANGED <<workspaceVars, storeVars, loaded, previous, compiling, read,
                   outcome, crashes>>

CompileRefuses ==
    /\ phase = "reading" /\ Len(read) = SourceCount
    /\ ~Compilable(compiling, read)
    /\ Stop("refused")
    /\ UNCHANGED <<workspaceVars, storeVars, crashes>>

\* Mutant: the profile is not kept beside its snapshot.
WriteNoProfile ==
    /\ phase = "compiled"
    /\ phase' = "profiled"
    /\ UNCHANGED <<workspaceVars, storeVars, localVars, outcome, crashes>>

\* Mutant: the pointer is moved before the receipt is written.
PointFirst ==
    /\ phase = "compiled"
    /\ phase' = "profiled"
    /\ profiles' = profiles \cup {loaded}
    /\ latest' = {snapshot.semantic}
    /\ UNCHANGED <<workspaceVars, curations, latestFor, localVars, outcome, crashes>>

WriteProfile ==
    /\ phase = "compiled"
    /\ phase' = "profiled"
    /\ profiles' = profiles \cup {loaded}
    /\ UNCHANGED <<workspaceVars, curations, latest, latestFor, localVars,
                   outcome, crashes>>

\* Mutant: no comparison with what is there; a newer receipt of the same ID
\* replaces it.
WriteReceiptOver ==
    /\ phase = "profiled"
    /\ phase' = "filed"
    /\ curations' = {s \in curations : s.semantic # snapshot.semantic} \cup {snapshot}
    /\ UNCHANGED <<workspaceVars, profiles, latest, latestFor, localVars,
                   outcome, crashes>>

\* _write_immutable: the same bytes again are accepted.
WriteReceipt ==
    /\ phase = "profiled"
    /\ snapshot.semantic \in Stored => snapshot \in curations
    /\ phase' = "filed"
    /\ curations' = curations \cup {snapshot}
    /\ UNCHANGED <<workspaceVars, profiles, latest, latestFor, localVars,
                   outcome, crashes>>

ReceiptConflicts ==
    /\ phase = "profiled"
    /\ snapshot.semantic \in Stored /\ snapshot \notin curations
    /\ Stop("conflict")
    /\ UNCHANGED <<workspaceVars, storeVars, crashes>>

WriteLatest ==
    /\ phase = "filed"
    /\ phase' = "pointed"
    /\ latest' = {snapshot.semantic}
    /\ UNCHANGED <<workspaceVars, profiles, curations, latestFor, localVars,
                   outcome, crashes>>

WriteLatestFor ==
    /\ phase = "pointed"
    /\ latestFor' = [latestFor EXCEPT ![compiling.id] = {snapshot.semantic}]
    /\ Stop("built")
    /\ UNCHANGED <<workspaceVars, profiles, curations, latest, crashes>>

\* The process dies between two steps; what was renamed into place stays.
Crash ==
    /\ phase # "idle" /\ crashes < MaxCrashes
    /\ crashes' = crashes + 1
    /\ Stop("crashed")
    /\ UNCHANGED <<workspaceVars, storeVars>>

Operator ==
    \/ \E revision \in Revisions : CheckOut(revision)
    \/ \E i \in 1..SourceCount, revision \in Revisions :
        EditSource(i, revision.sources[i])

Build ==
    \/ Load \/ LoadAgain
    \/ ReadSource \/ SourceDrifted
    \/ CompileProfile \/ CompileRefuses
    \/ WriteProfile
    \/ WriteReceipt \/ ReceiptConflicts
    \/ WriteLatest \/ WriteLatestFor

Next == Operator \/ Build \/ Crash

Spec == Init /\ [][Next]_buildVars

-----------------------------------------------------------------------------
(* Properties                                                              *)

\* The type invariant: what the workspace, the store and a build may hold; a
\* build that has ended leaves nothing to the next one.
TypeOK ==
    /\ profileFile \in Revisions
    /\ sourceFiles \in [1..SourceCount -> Documents]
    /\ profiles \subseteq Revisions
    /\ \A s \in curations : s.semantic.profile \in Revisions
    /\ DOMAIN latestFor = ProfileIds
    /\ phase \in Phases /\ outcome \in Outcomes
    /\ loaded \in Revisions \cup {NoRevision}
    /\ compiling \in Revisions \cup {NoRevision}
    /\ phase = "idle" <=> loaded = NoRevision
    /\ phase \in {"idle", "loaded"} <=> compiling = NoRevision
    /\ phase = "idle" => previous = {} /\ snapshot = NoSnapshot
    /\ read \in Seq(Documents) /\ Len(read) <= SourceCount
    /\ compiling = NoRevision => read = <<>>
    /\ edits \in 0..MaxEdits /\ crashes \in 0..MaxCrashes

\* state.py: no pointer names a receipt that is missing, and a profile's
\* pointer names a snapshot of that profile, whichever write a crash follows.
PointersResolve ==
    /\ latest \subseteq Stored
    /\ \A id \in ProfileIds :
        latestFor[id] \subseteq {semantic \in Stored : semantic.profile.id = id}

\* exported() needs the profile of the snapshot it is given: it is stored for
\* every snapshot, those a crash left without a pointer included.
Exportable == \A s \in curations : s.semantic.profile \in profiles

\* A snapshot was compared with one that is still there to be read, of the same
\* profile, whatever other profiles were built in between.
DiffsResolve ==
    \A s \in curations :
        s.diff.previous \subseteq
            {semantic \in Stored : semantic.profile.id = s.semantic.profile.id}

\* A build is refused for a conflicting receipt only when another snapshot of
\* the profile is the latest: never for a crash, a rerun or another profile.
ConflictMeansRevert ==
    [][ outcome' = "conflict" /\ outcome # "conflict" =>
        latestFor[compiling.id] \notin {{}, {snapshot.semantic}} ]_buildVars

\* _write_immutable: what an ID names it names for ever.  A stored snapshot is
\* neither lost nor replaced, and no other content is filed beside it under its
\* ID, however often a revision is compiled again against another predecessor.
ReceiptsImmutable ==
    [][ \A s \in curations : {t \in curations' : t.semantic = s.semantic} = {s} ]_buildVars

\* What "deterministic CurationSnapshot" asks: a profile that compiles can be
\* built, however often the operator returned to it.
RebuildSucceeds == outcome # "conflict"
=============================================================================
