---------------------------- MODULE PublicExport ----------------------------
(***************************************************************************)
(* `shoulda catalog export` over the store that `shoulda catalog build`    *)
(* fills: exported() and write_public_catalog of public_export.py.  The    *)
(* package is staged beside the target, the old target is renamed away,    *)
(* the stage is renamed into its place and the old tree is deleted; an     *)
(* OSError of a rename is answered by renaming the old tree back, and the  *)
(* finally clause deletes whatever stage and backup are left.              *)
(*                                                                         *)
(* A tree is the semantic part of the snapshot it was rendered from, all   *)
(* of it (a stage is validated before the swap).  Stages and backups have  *)
(* fresh names, so those a crash leaves are never met again; "left" keeps  *)
(* the whole backups among them.  A deletion that fails, also when the     *)
(* finally clause repeats it, may leave part of a tree; no reader is sent  *)
(* there, and the model counts it as done.  Commands run one at a time.    *)
(***************************************************************************)
EXTENDS CatalogBuild

CONSTANTS NoTree,          \* no such directory
          Unmanaged,       \* a non-empty directory without an export manifest
          MaxFailures,     \* renames and deletions that raise OSError
          MaxKills,        \* exports killed without any clean-up
          Interruptible    \* may Ctrl-C arrive during an export?

\* A snapshot is a tree of its own: neither an absent directory nor a foreign one.
ASSUME TreeAssumption ==
    /\ NoTree # Unmanaged
    /\ \A revision \in Revisions :
        Semantic(revision, revision.sources) \notin {NoTree, Unmanaged}

VARIABLES target,          \* the destination directory
          wanted,          \* the package being exported
          stage, backup,   \* the running export's directories
          left,            \* backups that outlived their process
          step, result, before, failures, kills

exportVars == <<target, wanted, stage, backup, left, step, result, before,
                failures, kills>>
allVars == <<buildVars, exportVars>>

Steps == {"idle", "staging", "moving", "aside", "placed"}
Results == {"none", "changed", "unchanged", "refused", "failed",
            "interrupted", "killed"}

ExportInit ==
    /\ target \in {NoTree, Unmanaged}
    /\ wanted = NoTree /\ stage = NoTree /\ backup = NoTree
    /\ left = {}
    /\ step = "idle" /\ result = "none"
    /\ before = target
    /\ failures = 0 /\ kills = 0

\* What every way out of the try statement does: the finally clause.
Leave(how) ==
    /\ step' = "idle"
    /\ result' = how
    /\ wanted' = NoTree /\ stage' = NoTree /\ backup' = NoTree

Fails == failures < MaxFailures /\ failures' = failures + 1

-----------------------------------------------------------------------------
(* One export                                                              *)

\* Render the snapshot and look at the target.
Begin(s) ==
    /\ step = "idle" /\ phase = "idle"
    /\ s.semantic.profile \in profiles
    /\ before' = target
    /\ \/ /\ target = Unmanaged
          /\ Leave("refused")
       \/ /\ target = s.semantic
          /\ Leave("unchanged")
       \/ /\ target \notin {Unmanaged, s.semantic}
          /\ step' = "staging" /\ result' = "none"
          /\ wanted' = s.semantic
          /\ UNCHANGED <<stage, backup>>
    /\ UNCHANGED <<target, left, failures, kills>>

Stage ==
    /\ step = "staging"
    /\ stage' = wanted
    /\ step' = "moving"
    /\ UNCHANGED <<target, wanted, backup, left, result, before, failures, kills>>

StageFails ==
    /\ step = "staging" /\ Fails
    /\ Leave("failed")
    /\ UNCHANGED <<target, left, before, kills>>

\* Mutant: the old tree is deleted instead of kept until the new one is there.
MoveAsideDeletes ==
    /\ step = "moving"
    /\ step' = "aside"
    /\ target' = NoTree
    /\ UNCHANGED <<wanted, stage, backup, left, result, before, failures, kills>>

MoveAside ==
    /\ step = "moving"
    /\ step' = "aside"
    /\ backup' = target
    /\ target' = NoTree
    /\ UNCHANGED <<wanted, stage, left, result, before, failures, kills>>

MoveAsideFails ==
    /\ step = "moving" /\ target # NoTree /\ Fails
    /\ Leave("failed")
    /\ UNCHANGED <<target, left, before, kills>>

MoveIn ==
    /\ step = "aside"
    /\ step' = "placed"
    /\ target' = stage
    /\ stage' = NoTree
    /\ UNCHANGED <<wanted, backup, left, result, before, failures, kills>>

\* Mutant: a failed rename is reported, and nothing is put back.
FailWithoutRestore ==
    /\ step = "aside" /\ Fails
    /\ Leave("failed")
    /\ UNCHANGED <<target, left, before, kills>>

MoveInFails ==
    /\ step = "aside" /\ Fails
    /\ target' = backup
    /\ Leave("failed")
    /\ UNCHANGED <<left, before, kills>>

\* The rename back fails as well: the finally clause deletes the backup.
RestoreFails ==
    /\ step = "aside"
    /\ backup # NoTree
    /\ failures + 2 <= MaxFailures /\ failures' = failures + 2
    /\ Leave("failed")
    /\ UNCHANGED <<target, left, before, kills>>

DropBackup ==
    /\ step = "placed"
    /\ Leave("changed")
    /\ UNCHANGED <<target, left, before, failures, kills>>

\* The old tree cannot be deleted: the export reports failure, having replaced
\* the target.
DropBackupFails ==
    /\ step = "placed" /\ backup # NoTree /\ Fails
    /\ Leave("failed")
    /\ UNCHANGED <<target, left, before, kills>>

\* KeyboardInterrupt is no OSError: only the finally clause runs.
Interrupt ==
    /\ Interruptible /\ step # "idle"
    /\ Leave("interrupted")
    /\ UNCHANGED <<target, left, before, failures, kills>>

\* The process is killed: nothing runs, its directories stay.
Kill ==
    /\ step # "idle" /\ kills < MaxKills
    /\ kills' = kills + 1
    /\ left' = left \cup ({backup} \ {NoTree})
    /\ Leave("killed")
    /\ UNCHANGED <<target, before, failures>>

Export ==
    \/ \E s \in curations : Begin(s)
    \/ Stage \/ StageFails
    \/ MoveAside \/ MoveAsideFails
    \/ MoveIn \/ MoveInFails \/ RestoreFails
    \/ DropBackup \/ DropBackupFails
    \/ Interrupt

CatalogInit == Init /\ ExportInit

CatalogNext ==
    \/ step = "idle" /\ Next /\ UNCHANGED exportVars
    \/ (Export \/ Kill) /\ UNCHANGED buildVars

CatalogSpec == CatalogInit /\ [][CatalogNext]_allVars

-----------------------------------------------------------------------------
(* Properties                                                              *)

\* The step that ends an export between its two renames without putting the
\* old tree back: Ctrl-C there, or a rename back that fails too.
InGap ==
    /\ step = "aside" /\ step' = "idle"
    /\ result' = "interrupted" \/ failures' = failures + 2

\* write_public_catalog: an export that ends by itself, outside that gap, ends
\* with the whole old tree or the whole new one in place, the new one whenever
\* it reports a change, and never touches an unmanaged directory.
ExportEndsWhole ==
    [][ step # "idle" /\ step' = "idle" /\ result' # "killed" /\ ~InGap =>
          /\ target' \in {before, wanted}
          /\ result' = "changed" => target' = wanted
          /\ before # Unmanaged ]_allVars

HasCatalog ==
    target \notin {NoTree, Unmanaged} \/ backup # NoTree \/ left # {}

\* Outside that gap no step, a kill included, leaves the disk without a whole
\* published tree once there was one.
CatalogSurvives == [][HasCatalog /\ ~InGap => HasCatalog']_allVars

\* What "transactionally replace" promises of every step.
ExportKeepsACatalog == [][HasCatalog => HasCatalog']_allVars
=============================================================================
