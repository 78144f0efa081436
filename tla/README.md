# TLA+ model of `shoulda-used-that`

`shoulda-used-that` is a single-user, synchronous command-line program that checks
open-source candidates for a project, remembers decisions, compiles a curation
snapshot and, on request, projects it to GitHub Lists. This directory models its
core in TLA+, model-checks it with TLC and proves theorems about it with TLAPS.
Source paths below are relative to `src/src/shoulda_used_that/`.

## The system

| Part | State it keeps | Operations | What is hard |
|---|---|---|---|
| Projection planner `projection.py` | none; output is a sealed plan in the store | `build_projection_plan`: additive operations for an observed account | ordering, agreement with the executor and the verifier, caps |
| Plan progress `github_apply.py` | none | `assert_allowed_progress`, `operation_satisfied`, `requested_membership_union`, `verify_postconditions` | four descriptions of one target that must agree |
| Apply executor `admin_services.py` | apply and operation receipts, latest pointer (`state.py`) | `applied`: sessions that can fail anywhere and be resumed | remote writes whose outcome is unknown, stale reads, crashes, the owner's own edits |
| Verifier `admin_services.py` | verify receipts | `verified`: independent reread | four ways to end, two enumerations of the same promises; mismatch against unavailable |
| GitHub mutations `github_mutations.py` | none | three additive mutations | lost answers, a mutation that replaces a whole set |
| GitHub readers `github_lists.py` | none | `read_curation_state`: stars, Lists and items, page after page | the account is edited between two pages |
| gh transport `github.py` | none | runs `gh`, maps exits and answers to exceptions | one class per cause, a report asked for and then fetched |
| State store `state.py` | immutable receipts, mutable pointers | write-once receipts, atomic pointer replacement | crash between receipt and pointer, conflicting content under one ID; one writer, no locking |
| Curation compiler `curation.py` | none | merge the sources of a profile, check them, diff with the previous snapshot | independence of the order of sources, ageing of evidence, identity of a snapshot against what it contains |
| Catalog build `admin_services.py` | profiles, snapshots, two pointers (`state.py`) | `curated`: load, read sources, compile, four durable writes | files edited while they are read, crash between two writes, returning to an earlier revision |
| Research `services.py` | checks, decisions, rechecks, baselines | `checked`, `remembered`, `rechecked` | a chain of small changes to a baseline, sources that fail, an interrupted recheck |
| Filters `filters.py`, sources `sources.py` | none | predicates, ranking, limit; merging imported batches | unknown values, age limits, several sort keys, contradicting sources |
| Public export `public_export.py` | a directory tree | validate, render a package of pages, check it, stage, swap | failure, Ctrl-C or a kill in the middle of the swap; hidden collections; links between pages |
| Project context `project_context.py`, `services.py` | project snapshots, two pointers | `inspected`: a GitHub repository, a local tree, an SBOM | requests that fail one by one, a tree edited during the walk, limits reached while unfolding |
| CLI, rendering, models, canonical JSON, legacy | none | parsing, formatting, data types | not concurrent, no protocol |

The parts meet in the store: a curation snapshot feeds the planner, the planner
seals a plan against a GitHub state it read, a human approves the plan's
fingerprint, the executor applies it in one or more sessions, the verifier reads
everything again. Nothing runs concurrently inside the program; the concurrency is
between the program, GitHub (whose Lists query lags and which may execute a request
after the client gave up on it), the account's owner, and the operator who reruns
commands after failures and crashes.

What makes each part correct:

* planner: exactly the missing additions, in an order in which each is executable,
  and every prefix of the plan is a state that can be resumed from;
* executor: adds only what was sealed, loses nothing that existed at sealing, never
  creates a List twice, keeps its evidence, declares completion only when
  verification would agree, and eventually settles;
* verifier: `verified` exactly when the projection is there;
* store: a pointer never names a missing receipt, a receipt never changes;
* compiler: a snapshot holds everything its sources say, in whatever order they are
  listed, and its diff says exactly what changed, the passing of time included;
* build: whatever a crash leaves can be read, exported and built again; a profile
  can be built after any history;
* check: the merge forgets nothing a source knows, the limit cuts the documented order;
* recheck: a material change never becomes the last known good without a new check,
  a failed source never replaces evidence, every target can be rechecked after a crash;
* export: the target is the old or the new tree, and one of them always survives; a
  package has no dead link, says nothing of a hidden collection, and whatever the
  compiler accepts can be published;
* account reader: nothing is reported that never was, one edit leaves each List a snapshot,
  an account left alone is read whole;
* inspection: what could not be had is a gap or the end, never silently missing; an
  inventory is bracketed by what was there, and of directories; dependencies are taken whole
  or not at all.

## Modules

| Module | Models |
|---|---|
| `ApplyPlan` | the pure functions of `github_apply.py`, over account states reduced to stars and Lists (name, conformity, members) |
| `Projection` | `_projection_operations`, conflicts and caps of `projection.py` |
| `Verifier` | `verified`: what a verification lists and concludes |
| `GitHubApply` | `applied` and its helpers as a state machine, GitHub, the owner, crashes |
| `AdditiveApply` | the abstract specification: the sealed additions, one after another, each once |
| `MCGitHubApply`, `MCProjection` | instances for TLC; the second follows every plan operation by operation |
| `ListRead` | `read_curation_state` as many requests over an account its owner edits |
| `GhTransport` | the exceptions of a read by what `gh` left behind, the two requests of an SBOM report |
| `Inspection` | `inspected`: a project read from GitHub or walked on disk, its SBOM, its three writes |
| `MCReaders` | small accounts, trees and documents for TLC |
| `Curation` | `compile_profile` as pure operators: merge, checks, identity, diff |
| `PublicPackage` | the stored snapshot's validation, the allowlisted export, its pages and links |
| `CurationReview` | a profile compiled at successive review times, and what each snapshot publishes |
| `MCCuration` | small documents, profiles and names for TLC |
| `CatalogBuild` | `curated` over the workspace's files and the curation part of the store |
| `PublicExport` | `exported` and `write_public_catalog` over the store `CatalogBuild` fills |
| `MCCatalog` | small profiles and their sources for TLC |
| `Research` | merge of sources, gates, order and limit, differences of two checks |
| `Recheck` | `checked`, `remembered`, `rechecked` over sources that change and fail, and their part of the store |
| `MCRecheck` | small sources and filters for TLC |
| `Selection` | the comprehension `[x for x in s if x in T]` as a recursive function |

| Module | Proves |
|---|---|
| `GitHubApplyProofs` | types, what the executor can do to the account, what a verdict means and lists |
| `GitHubApplyAccountProofs` | what apply receipts mean, what the account is at every instant, the refinement of `AdditiveApply` |
| `ProjectionProofs` | that the planner seals what the executor assumes, and that the plan leads to the projection |
| `CurationReviewProofs` | what a snapshot holds, what its diff reports, what its package shows |
| `CatalogProofs` | the store under builds, the target tree under exports |
| `EvidenceProofs` | inspections, then checks, rechecks and baselines |
| `ListReadProofs` | what a read of a changing account may report |
| `DataInduction` | the induction the others need: extremes, recursive functions, `Select`, `FlattenSeq` |

### The executor

`GitHubApply` composes `ApplyPlan` (its decisions) and `Verifier` with the external
account. State and code:

* `gh` is what GitHub has committed, `view` what the Lists query shows (it lags when
  `Lag`; `docs/decisions/membership-apply-scaling.json` observed stale List reads),
  `late` the requests a timed-out client left behind;
* `latest` is the apply receipt named by the plan's latest pointer
  (`StateStore.write_apply`), reduced to status, resume cursor, readback and, per
  operation, the set of outcomes recorded;
* `pc`, `phase`, `idx`, `current`, `receipts`, `outcome` are the local variables of
  `applied`: `current` is the code's `current`, `phase` its loop, `receipts` its
  `operation_receipts`.

Each action is a stretch of `applied` between two points where something else can
happen: the start (`StartSession`, `StartSatisfied`: every check up to the first
write, including `assert_allowed_progress` and the refusal of an uncertain create),
an attempt (`AttemptSucceeds`, `AttemptLosesResponse`, `AttemptHasNoEffect`,
`AttemptIsDelayed`), its progress receipt (`RecordSuccess`, with the local
materialisation of an acknowledged membership, and `RecordFailure`), the end of a session
whose union finds its target List gone (`TargetMissing`), the readback
after a failure (`FinishWithReadback`, `FinishWithoutReadback`), the readback that
ends each loop (`ReadbackFails`, `ReadbackMismatch`, `ReadbackAdvances`,
`FinalReadback`) and the complete receipt (`RecordComplete`). `Crash` may happen at
any point of a session. A refused start leaves everything as it was and is a
stuttering step.

Abstractions: a collection's slug stands for its casefolded List name (profile
validation keeps titles unique); visibility and description are one flag,
"conforming"; identity, capability and repository-safety checks, and errors of a
read, are failed reads; receipts' timestamps and digests are left out; an operation
receipt is not a separate record, because `applied` never looks one up. A failed attempt
whose error message is too long for its receipt raises a validation error and ends the
process: it is `Crash`.

A read of the account is one step, although it is many requests (`ListRead`). With `Lag` each
List of a read may be of an instant of its own, which covers what a lagging replica or an
edit of several Lists can mix; a List newer than the stars of the same read is not covered.
An edit of the owner in this module changes one List; `ListRead` has those that change
several.

`AdditiveApply` says what all of this amounts to when reads are consistent: an account
that takes the sealed additions in the sealed order, each once, and a report that comes
after the last. `ImplementsAdditive` (in `GitHubApply`) maps the account to GitHub's, the
position to the number of sealed operations that are in place (`InPlace`), the report to
a complete latest receipt; sessions, receipts, readbacks and crashes are stutters.

### The verifier

`Verifier` states `verified` as an operator from what a probe and a readback answered to
the postconditions of the receipt: `ProbeUnusable`, `ProbeElsewhere`, `ReadbackFailed`,
`ReadBack` are its four ends, `VerifyPostconditions` and `UnavailablePostconditions` the
two functions of `github_apply.py` that enumerate a plan's promises, `Status` is
`_verify_status`. `ApplyPlan!VerifyStatus` is its conclusion on a read account, in the form
the proofs use. A target List that became ambiguous or private is raised out of
`verify_postconditions`, so the code reports the plan as unavailable (`partial`) although
it had seen a mismatch; the model follows it.

### Readers: account and project

`ListRead` is one logical read: `ReadStars` page by page, `ReadListPage`, for every List of
a page `ReadItemPage` until `AcceptList`, `EndListPage`, `ReadMetadata`. A request sees the
account of its own instant; the owner acts between any two, and one edit may take an item out
of several Lists and put it into others, as `updateUserListsForItem` does (`Placed`). `queue` holds the raw Lists of
the page that are still to be parsed, in the order of their IDs; `InHand` is the first. A
cursor means "after this element" or "after this many" (the code treats it as opaque); totals are compared as the
code compares them, `PagesExhausted` is the `else` of its loops. `first`, `ever` and
`always` are history: the account when the read began, and what was true at some or at
every instant of it. GraphQL's rate limits, the order of Lists, and attributes other than
a List's name are left out.

`GhTransport` maps a reply of `gh` to the class of exception `_raise_api_failure` and
`_api_json` make of it, and both requests of `dependency_sbom` to one answer. `Inspection`
uses it: `ReadRepository` (without which the inspection ends), `ReadLanguages`, `ReadCommit` and
`AskForSbom`, each with a receipt and, when it fails, a gap; or `VisitDirectory`, `ReadFile`,
`DirectoryRead`, `WalkEnds` over a tree that `FilesChange`, `DirectoryVanishes`,
`DirectoryAppears` and `DirectoryMoves` edit; then `ParseComponent` one by one under the limits of nesting and
number, `DocumentEnds` (conflicting duplicates), and the three writes of the store, with a
crash between any two. The limits are counts; an SBOM is the nesting of its components
and what each claims. A format the code does not know is an error of its own
(`UnsupportedFormat`), as is a supplied file that cannot be read or holds no JSON object
(`SuppliedUnreadable`).

Directories are paths, so that "below" is a fact about prefixes. `links` are the paths that
are symbolic links to directories, `outer` those of them that lead out of the root. A visit
lists a directory, ends the inspection when a link in it leads out, passes over the other
links and the skipped names (`kept`); `DirectoryRead` hands what is kept to `os.walk`, which
(from Python 3.12, the oldest the project supports) looks once more for links when it queues
a directory and not when it lists it. A directory that `DirectoryMoves` swaps for a link
between those two is therefore walked through the link, and so is it in the model. The root
stays, a name does not turn from a file into a directory, and a listing with its look
at links is one step, as is the queueing.

### The compiler, its builds, its packages

`Curation` translates the compiler. A document is a list of records per kind; a record
carries its merge key and the fields some rule looks at. `MergeRecord` is the
dictionary of the code: one record per key, a conflict when a second one differs.
`Compilable` collects every refusal after the digests matched, `Semantic` is what the
ID is a digest of, `Compile` returns the previous snapshot when nothing changed. Legacy
documents are taken after their migration; the wording rules of a brief (covers, a watch item
or an unknown, the word budget, repeated copy) are one flag of its assessments, and that a
problem's question is no bare domain label is left out; counts and the lists of stale, partial and blocked entries are
functions of the corpus and left out.

`CatalogBuild` uses it inside a build, whose points of interruption are its `phase`:
`Load` (the profile and the snapshot its pointer names), `LoadAgain` (the code loads
the profile file a second time inside `compile_profile`), one `ReadSource` or
`SourceDrifted` per source, `CompileProfile` or `CompileRefuses`, and the durable
writes `WriteProfile`, `WriteReceipt` (or `ReceiptConflicts`: the file exists with other
bytes), `WriteLatest`, `WriteLatestFor`. Each of them is a temporary file renamed into
place. `profiles`, `curations`, `latest`, `latestFor` are the store's files, `loaded`,
`previous`, `compiling`, `read`, `snapshot` the local variables. The operator checks out a
revision (`CheckOut`: profile and sources together) or saves a source (`EditSource`),
the latter at any instant of a build. Content digests are equality of content.

`PublicPackage` follows a stored snapshot to its pages: `ValidSnapshot` (the validation every
reader of the store repeats), `Export` (records, problems, relations and the count of what
was withheld), `Coherent` (the rules of the export model), `RenderFiles` (per page the anchors
it offers, the links into the package, the repositories it is about, the collections it is
tagged with) and `Package` with its manifest. A page is filed under a slug; names of owner and
repository are sequences split at "--", which is the only thing that could make two
slugs equal. `CurationReview` compiles one profile at successive review times.

`PublicExport` composes the build with the export of any stored snapshot: one command
runs at a time. `Begin` renders and looks at the target, `Stage`, `MoveAside`, `MoveIn`,
`DropBackup` are the four changes of the disk, each with its failure (`StageFails`,
`MoveAsideFails`, `MoveInFails` with the rename back, `RestoreFails`,
`DropBackupFails`), and `Leave` is the `finally` clause. `Interrupt` is Ctrl-C, which is no
`OSError`; `Kill` runs nothing. `left` keeps the backups a kill leaves behind. A deletion that
fails again in the `finally` clause may leave part of a backup under a name no reader is
sent to; the model counts it as done.

### Research

`Research` keeps facts that stand for the fields treated in the same way: `license` (gate by
membership, material), `pushed` (gate by age), `stars` (gate by threshold, sort key) and
`platforms` (a united set, gate, material). `MergeBatches`, `Passes`, `StableSort`,
`Visible`, `Outcome` follow `merge_batches`, `_evaluate_typed`, `_stable_sort`,
`evaluate_candidates` and the classification in `rechecked`. A list of candidates is the
order of its elements, a set of pairs, so that one stable pass turns a pair round where its
key says so and keeps every other (`StableSortBy`); `InOrder` makes a sequence of it again.
`Merged` folds all that is told about one repository. `Candidates` and `WellFormed` say what
the schemas of `models.py` guarantee. JMESPath expressions, project
snapshots, provenance and explanations are left out; of the merge, the evidence state (the
stronger wins), source ranks (the smaller wins) and metadata, where the first source wins and
no conflict is recorded, so that `MergeIsFair` speaks of the modelled facts only. Set
fields are compared as sets, where the code compares the sorted lists a candidate holds.

`Recheck` runs the commands over it. `phase` is the point the running command has
reached: "checking" and "rechecking" load the bound sources one at a time (`LoadSource`,
`CheckFails`), "checkFiled" and "snapshotFiled" are after the check was written
(`WriteCheck`, `WriteSnapshot`), "moved" after `UpdateBaseline`; `WriteLatestCheck` and
`WriteRecheck` end the command. `checks`, `latestCheck`, `decisions`, `baselines` are files
of the store, `target`, `spec`, `prior`, `started`, `read`, `current` local variables. A check is
its content (its ID is a digest of what determines it), a baseline the check a target was
last found unchanged in. No command reads a recheck receipt, so only the last is kept.
`SourceChanges` and `DayPasses` are the world, also between two loads of one command;
`Crash` may come between any two steps. The tool's version, part of an observation's
identity, does not change between commands.

## Runs

Bounds are the constants of each `.cfg`. The plan of `MCPlanOneRepo` has every kind
of operation, two memberships of one repository (so that one union must carry the
other), an unrelated List to preserve and an existing target; that of
`MCPlanTwoRepos` two repositories of which one is starred.

| Run | Question | Bounds |
|---|---|---|
| `apply_faults` | does the account stay within the plan, do receipts tell the truth, and does rerunning settle the plan, with lost, failed, delayed and late calls over a lagging query? | 2 faults, lag, delays, any number of sessions, fairness |
| `apply_owner` | do the promises hold while the owner stars, renames, creates, deletes and moves at any instant, and does a verification say what it saw? | 1 owner edit, 1 fault, lag |
| `apply_consistent` | does the executor implement the additive plan when reads are consistent? | 2 faults, 2 crashes, no lag |
| `projection` | is every plan exactly right, at each of its prefixes? | 2 repositories, 2 collections, 2 owner Lists, all states |
| `readers` | what is a read of an account, a tree or a document worth that changes or fails meanwhile? | accounts of 2 repositories, an item of another type, up to 3 Lists, pages of 1, 2 pages, 2 edits, 1 failing request; trees to depth 2 with links, 3 files, 2 manifests, 2 edits; documents of up to 3 components with a limit of 2, 2 bad replies |
| `curation` | is anything lost, order-dependent, unpublishable, a link dead, a hidden collection named, or a change unreported? | 3 documents (two corpora over 4 repositories, a context), their six orders, 2 collections, budgets 1 and 2, review times 2 to 4 with a limit of 1 day |
| `catalog` | does the store stay consistent, and a published tree whole, over builds and exports? | 4 revisions of 2 profiles, 2 sources, 2 edits, 1 crash of a build, 1 kill of an export, 2 failing renames, Ctrl-C |
| `recheck` | does a baseline, an outcome or a shortlist ever claim what is not so? | 2 sources of 3 contents, 2 filters, 2 changes or days, 3 commands, 1 crash |
| `apply_stale_resume` | (violated) is the tool really unable to remove a membership? | 1 fault, lag |
| `apply_duplicate` | (violated) is a List never created twice? | 1 crash, lag |
| `catalog_revert` | (violated) can a profile be built after any history? | 2 revisions, 2 edits |
| `export_interrupt` | (violated) does an export always keep one of the two trees? | 2 revisions, 1 edit, Ctrl-C |

One fault already reaches each error path; two let a resumed session fail again,
which is where evidence of the first could be lost. More sessions than faults and
crashes add nothing: a session without either ends in completion, a mismatch of a
lagging readback, or a refusal, and those are covered without a bound on sessions.
Two crashes are enough for a crash of the session that recovers from a crash.
The `apply` runs say `CHECK_DEADLOCK FALSE` because a plan that is applied, or refused
for good, leaves nothing to do; so do `curation`, whose review time reaches its bound,
`projection`, whose plans end, and `readers`, where one command runs to its end.

In `readers` a page of one element puts a point of interruption between any two elements,
two pages make the limit reachable and exceedable, and two edits are what it takes to
remove an element and put another in its place, so that totals agree; that is why
`EachListIsASnapshot` is about one edit. It cannot say that the Lists together are a
snapshot: one edit that moves an item from a List already read to one still to be read leaves
every total as it was, and TLC finds that mixture, with each List as before or after it. The
trees reach the limits of depth, files and manifests, exceed each, hold a skipped directory,
links to files and to directories, inside and leading out, also one under a link; three components against a limit of two
reach the limit at the top level, in a nesting, and while both are pending. Two bad
replies fail two of the optional requests, or one of them and the report.

In `curation` evidence of one repository ranges over both sides of the age limit at
each review time, two corpora may repeat, contradict or complement each other, and the
brief names the repository that may be missing, unassessed or assessed incompletely.
In `catalog` the revisions of the first profile include one whose two sources
contradict each other. Two edits reach A, B and A again; one crash
suffices because a build restarted after it begins from nothing, and
is free to be interrupted by an edit; two failures are what a rename and the rename
back need. `EditWhileBuilding` is FALSE: `curated` loads the profile twice, and a
profile saved between the two loads is compiled while the earlier one is stored. With
TRUE, TLC finds a snapshot without its profile (`Exportable`), which building again
repairs. Sources need no such assumption, their digests protect them.

In `recheck` the three contents of a source contradict, complete and outdate each other,
and loading may fail. Three commands are a check and two rechecks of one target (the
second from the moved baseline), or a check, a decision and a recheck of it. Two events
put a change or a day between any two steps, and two changes in a row are what a baseline
needs to drift. One crash suffices: a command starts from the store alone. All bounds are
counters that run out, hence `CHECK_DEADLOCK FALSE`. An age limit makes a recheck of
unchanged sources material, the only exception `OutcomesAreTrue` admits. A crash between
`UpdateBaseline` and `WriteRecheck` leaves a moved baseline that no receipt reports; the
rerun compares with it and says "no change". `GatesSurvive` bounds what can be lost that
way to fields that cannot invalidate a gate.

The verifier's two properties are checked in every state of `apply_owner`, so on accounts
with duplicate, private, renamed and deleted Lists, for each of the eight answers of probe
and readback.

Fairness (`FairSpec`, in `apply_faults`, for `EventuallySettled`): a session's own next step is taken (the
program waits for nobody: every call has a timeout), the Lists query catches up with
each List, and the operator reruns a command that would start, within the plan's
validity. Faults, crashes, late executions and owner edits are never required.

### What the violated runs show

* `apply_stale_resume`: `docs/operations/github-curation.md` rules out membership
  removal and says that memberships are read immediately before a write. The code
  computes every union from the readback that ended the star loop, plus its own
  acknowledged writes. When a session ends early and the next one starts while
  the Lists query does not show the first one's membership yet, the
  second union omits it, and the mutation, which replaces the set, removes it. The
  operation is pending again and a later session repairs it. Memberships that
  existed at sealing are never lost (`BaselineMembershipsKept`, proved).
* `apply_duplicate`: the same runbook says an uncertain duplicate create is refused.
  The refusal looks only at the receipt the latest pointer names. A process that
  dies between GitHub's create and that receipt leaves no evidence there; over a
  stale query the rerun creates the List again, after which every start is refused
  as ambiguous.

* `catalog_revert`: building revision A, then B, then A again compiles A with a diff
  against B. The ID is a digest of everything but the diff, so the snapshot meets the
  first A's immutable file with other bytes: `immutable_receipt_conflict`, and A cannot be
  the latest again until the profile changes. `ConflictMeansRevert` (proved) says that
  this is the only way to meet a conflict.
* `export_interrupt`: Ctrl-C between the two renames skips the rename back (only
  `OSError` is caught) and the `finally` clause deletes the stage and the backup, so that
  neither tree is left. `docs/architecture/curation-v0.2.md` calls the replacement
  atomic. A kill at the same point leaves both directories on disk; a rename back that
  fails too also loses the old tree. `ExportEndsWhole` and `CatalogSurvives` hold
  everywhere else.

## Proofs

Each theorem is for every value of the constants: any plan, set of repositories,
documents, trees or accounts, any number of sessions, faults, crashes, edits and days,
with or without lag. A premise a theorem has beyond the modules' assumptions is named here.

### Induction over data

The code merges, sorts by key and concatenates in loops. `DataInduction` states the
induction those loops need for sets instead of predicates: the set of numbers for which
something holds. From the well-foundedness of the naturals come the extremes of a finite
set of numbers, the existence of recursive functions on an initial segment, and that a
fold over a sequence agrees with any function that satisfies its two equations
(`FoldsAgree`). Each fold of the model is then replaced by a closed form over sets
(`MergedFacts`, `WithheldCounts`, `DescribedIs`, `ConcatElements`), and only the closed form
enters an invariant.

### The executor

* `TypeCorrect`: `TypeOK` is invariant. It is not inductive: the resume cursor is
  the attempted position or the plan's last one, so `Control` says there is one.
* `SealedMembershipsSurvive`, `AdditionsArePlanned`: `BaselineMembershipsKept`,
  `OnlyPlannedAdditions`.
* `CompleteReceiptsVerify`, `EvidenceIsKept`: `CompleteVerifies`, `EvidenceKept`.

The inductive invariant behind the second line is `SafetyInv`: outside "idle"
the session's `current` is an allowed progress of the plan (`StateSound`), every
request ever given up on is sound (`RequestSound`), and a sealed List's ID was
handed out (`SealedListsBorn`). It is needed because an effect is computed from
`current`, which may be arbitrarily stale: the argument never compares `current` with
the account, only with the sealed baseline. `MaterializeAllowed` shows that the one
step in which the session changes `current` by itself keeps it allowed,
`UnionIsSound` that a union computed from an allowed state is sound, `EffectIsGood`
that a sound request cannot break the promises whenever GitHub executes it.
`ReceiptInv` adds that `current` is done when a complete receipt is about to be
written; `DoneVerifies` shows that done implies every postcondition.

Three theorems speak of the account itself:

* `StarsComeFirst`: `MembersAreStarred`. The membership loop is entered only after a readback
  that found every star, and stars are read from GitHub, not through the lagging query
  (`StarredInv`); while the owner stays away they stay, and so does what a late request adds.
* `FailedReceiptsAreTrue`: `FailedMeansUntouched`. As long as no process died between an
  attempt and its receipt, an account that differs from the sealed one has an outcome
  recorded that says so (`UntouchedInv`), and a failed receipt has none.
* `AccountAlwaysAllowed`: `AccountStaysAllowed`, when no session dies (`MaxCrashes = 0`). The
  run `apply_duplicate` shows that the premise is needed. `OrderlyInv` says that the
  session's `current` knows no name the account lacks (`Older`), that every
  request on its way fits the account (`Fits`), and that a create is sent at most once
  (`Once`, `Fresh`): whoever sends it has no evidence of an earlier one, and without crashes
  every earlier one left evidence.

`ExecutorIsAdditive` proves the refinement `ImplementsAdditive`, for any number of faults,
crashes and sessions, when reads are consistent (`~Lag`), no request is executed late
(`~Delays`) and the owner stays away; `apply_duplicate` and `apply_stale_resume` show what
lag alone does, and an owner's edit is no step of the abstract account. The invariant,
`InStep`, says that the operations in place are the first so many of the plan (`Upto`), that
a session knows of its own kind of operation exactly which ones are (`Knows`) and knows the
members of every List, or the whole set a mutation sends would take some away.
`NextIsDue` follows: what is attempted is the next operation of the plan or one already
in place, so that its effect is one step of `AdditiveApply` (`AttemptTakes`) or none.

### The verifier

* `VerdictsAreHonest`: `VerdictIsHonest`, for every plan, account and answer. It needs no
  induction: each of the four ends of `verified` is reduced to the set of states its
  conditions are in (`EndStates`, `ReadBackStates`).
* `VerificationsListAll`: `VerifierListsAll`. Whichever function enumerates the promises of a
  plan, it lists each exactly once (`PromisesOfEveryPlan`), although one walks the plan's
  operations and the other what was read.

### The planner

The theorems of the executor assume a plan that is `WellSealed`; `SealedWell` proves
`PlanIsWellSealed`, so every plan `build_projection_plan` seals is one: creates before stars
before memberships (`KindsInOrder`, on which the refinement rests), no operation twice, each
missing from the baseline. `LeadsThere` and `OperationsAreDue` prove `PlanLeadsThere` and
`EveryOperationIsDue` from `IInv`: the account after `next - 1` operations is the
baseline plus what those add, whatever Lists the owner has of other names.

### Snapshots and their publication

`ReviewInv` says that a snapshot is what its profile makes of the documents, compared with
the one before. Everything else follows from what one compilation returns:

* `NothingIsDropped`, `OrderNeverMatters`: `NothingDropped`, `OrderIrrelevant`. `MergedFacts` is
  the fold as a set: without a conflict the merged records are those of all documents,
  and there is a conflict exactly when two of them share a key and differ, neither of
  which mentions an order.
* `CompiledCanBePublished`: `CompiledIsPublishable`. What `Compilable` checks is what the
  export's rules ask for, and the count of withheld memberships is the number of
  pairs of a record and a hidden collection (`WithheldCounts`).
* `PublishedLinksResolve`, `HiddenAlwaysHidden`: `LinksLeadThere`, `HiddenStaysHidden`, the first
  under `NamePartsAssumption`: slugs tell the names of repositories apart. `REPOSITORY_PATTERN`
  alone does not say so (`a/b--c` and `a--b/c` share a slug); GitHub's rules for owner
  names do.
* `AgeingAlwaysReported`: `AgeingIsReported`. `AgedFacts`: a later review changes the
  freshness of aged evidence and nothing else.

### The catalog's store and the exported tree

* `CatalogTypeCorrect`: `TypeOK`;
* `StoredSnapshotsStay`: `ReceiptsImmutable`, what an ID names it names for ever. That
  snapshots are only added is not enough: it is `UniqueInv`, which only the comparison with the
  file already there preserves, that keeps a second content from being filed under the ID;
* `PointersAlwaysResolve`: `PointersResolve`, whatever is edited while a build runs;
* `SnapshotsAreExportable`, `DiffsAlwaysResolve`, `ConflictsComeFromReverts`:
  `Exportable`, `DiffsResolve` and `ConflictMeansRevert`, under `~EditWhileBuilding`;
* `ExportsEndWhole`, `CatalogsSurvive`: `ExportEndsWhole`, `CatalogSurvives`, whatever fails or
  interrupts an export outside the gap between its two renames;
* `ExportLeavesTheStoreAlone`: composed with exports, a build's store behaves as alone, so
  the theorems above hold of `CatalogSpec`.

`StoreInv` carries the first group: what was read is a prefix of the sealed sources
(`ReadInv`), a compiled snapshot is what `Compile` returns for them (`SnapshotInv`) and is
filed before a pointer moves (`FiledInv`), the build compares with the snapshot its
profile's pointer names (`PreviousInv`), a stored snapshot's content is that of its
profile's sealed sources (`SealedInv`), and no two share an ID (`UniqueInv`). `HistoryInv`
carries the second: the profile loaded is the one compiled (`LoadedInv`), it is stored
before its snapshot (`ProfiledInv`), and while a profile has no pointer each of its
stored snapshots was compared with nothing (`FirstInv`). The last is why a crash
between `WriteReceipt` and `WriteLatestFor` is harmless: the rerun compiles the same
bytes. `ExportInv` says, per step of an export, which of target, stage and backup holds
the old tree and which the new one. The compiler's operators stay opaque here but for what
`Compile` returns.

### Inspections

* `PointersAlwaysNameEvidence`: `PointersNameEvidence`. What is stored is what the job
  collected (`EvidenceInv`, `StoredInv`), receipt before pointer.
* `InventoryAlwaysBracketed`: `InventoryIsBracketed`. `WalkInv`: every manifest that was there
  all the time, below directories, is in the inventory or in a directory still ahead, and the
  walk goes to nothing that was not a directory at some instant (`treeDirs`). `ExactInv`, of
  a tree nobody edits: no directory ahead is above another (`ListingIsAntichain`), so that
  none is visited twice, and the limits of depth, files and manifests and the links that lead
  out are met by the tree and not by the walk.
* `DependenciesAlwaysWhole`: `DependenciesAreWhole`. `ParsingInv`: the components
  parsed and those pending are different nodes of the document, and together the roots and
  the children of the parsed ones (`ParsingUnfolds`); a limit ends the inspection
  (`WholeInv`) and never cuts a document.

### Checks, rechecks and baselines

* `RecheckTypeCorrect`: `TypeOK`; `ReferencesAlwaysResolve`: `ReferencesResolve`;
* `GatesAlwaysSurvive`: `GatesSurvive`, however long the chain of rechecks;
* `EvidenceAlwaysWhole`: `EvidenceIsWhole`: a check that was filed evaluated every source.

`RecheckInv` adds that the check a recheck compares with is stored and shows the gates of
its target's own check (`PriorInv`), that what was filed is in the store when a pointer
moves (`CurrentInv`), and that a bound decision names a stored check (`DecisionsBound`).
`OutcomeKeepsGates` is the one fact about the operators: an outcome other than "material"
means equal gates.

Three theorems open the evaluation, for any sources, filter, sort keys and limit:

* `MergeAlwaysFair`: `MergeIsFair`. The merge has a closed form: of all that is told about a
  repository, the merged candidate has the union of the platforms and, where it records no
  conflict, of each fact (`MergedSaysAll`, by induction over what is told; `MergeSaysAll`).
* `WindowAlwaysBest`: `WindowIsBest`. A stable pass over an order is an order, by the key and
  then by the one before (`StablePass`); so the passes, last key first, leave the order of the
  keys with the repository last (`StableSorts`), `Before` is that order on any set with one
  candidate per repository (`KeysAreTransitive`, `SameKeys`), and what the limit leaves is its
  beginning (`WindowOfOrdered`).
* `OutcomesAlwaysTrue`: `OutcomesAreTrue`. There is one way to put candidates in that order
  (`OneOrder`), so equal sets mean equal results (`SameShown`). Over the same evidence a later
  day only takes candidates away; when none of those shown is taken, what was taken was cut
  by the limit before, and what remains is the same window (`AgedShowsTheSame`).

`ComputedInv` carries them through the commands: every stored check, and the one a command
holds, is an evaluation of some sources at a day not in the future (`IsCheck`); the filter of a
recheck is that of its prior check, which is no younger (`PriorComputed`, `SpecKnown`); and the
last receipt compares two such checks (`Told`).

### Reads of an account

The first lemmas are about connections, whatever a cursor means: a page continues where
the last one ended (`NextPage`), and totals that agree with the pages mean that nothing
is missing (`ConnectionMeans`, `SegmentCounts`).

* `ReadBracketed`: `ReadIsBracketed`, for any number of edits. `BracketInv`: what was
  collected was true once (`OnceTrue`); what was true all along is collected or still
  ahead of a cursor that names an element (`StillTrue`); a star that was not taken back is
  collected or on a page still to come (`StarsKept`).
* `EachListIsRead`: `EachListIsASnapshot`. With one edit there are two accounts. They have the
  same Lists or differ in one, which the total tells apart; and a List they both have holds
  the same items in both or another number of them (`OneApart`), since an edit moves one
  item. `Snapshots` says that the Lists of the pages, each raw List and each List accepted are
  of one of the two; nothing says that they are all of the same one.
* `QuietReadsSucceed`: `QuietReadSucceeds`. `Quiet`: on an account left alone each page
  is full until the last one, so the totals agree and the limit is met only by an account
  that has more pages.

### Assumptions

`PlanAssumption` (a well-typed plan with `WellSealed`; `SealedWell` discharges it for the
planner's), `ListIdsAssumption` (IDs are numbers), `NoStateAssumption`,
`OtherNameAssumption`, `BoundsAssumption`, `OrdersAssumption`, `CatalogAssumption`,
`TreeAssumption`, `NamePartsAssumption`, `SourcesAssumption` (what the schemas of a document
guarantee), `RecheckAssumption` (with the schemas of candidates and filters),
`InspectionAssumption` (documents are trees), `TreesAssumption` (so are directories),
`ReadAssumption`, `AccountsAssumption` (finitely many elements). TLC evaluates all of them.
`CatalogTypeCorrect`, `RecheckTypeCorrect`, `ChecksAreComputed`, `SealedPlansAreWellSealed`
and `ExportLeavesTheStoreAlone` are proved and not checked by a run.

### Only model-checked

Liveness (`EventuallySettled`): fairness and ENABLED are beyond the prover. Every invariant
and every action property of a passing run has a theorem.

## Not modelled, and the plan

Proofs left: none for a property of a passing run but liveness. `CatalogProofs` still treats
the curation compiler as opaque; the closed forms of `CurationReviewProofs` could be used
there.

Left out of modules that exist:

* `ListRead`: what two edits can do beyond `ReadIsBracketed`, and which mixtures of Lists one
  edit of several can leave beyond `EachListIsASnapshot`; a repository unstarred and
  starred anew between two pages has two times of starring, which the code refuses, and
  takes more edits than the bound;
* `Inspection`: byte limits, topics and license, the table of manifest names, the checks of the
  root before the walk, a link swapped within one listing, digests of receipts, applicability evidence and the choice of a stored context for a check;
* `GitHubApply`: a read that shows a List newer than its stars, and an owner's edit of several
  Lists at once;
* `Research`, `Recheck`: evidence states, ranks, metadata and tool versions;
* `CatalogBuild`: that a stored snapshot holds what its profile's sealed sources say is proved
  (`SealedInv`) and is no property of a run;
* `GhTransport`: versions, the environment of the process, GraphQL's own errors; writes are
  the faults of `GitHubApply`;
* `PublicPackage`: names of repositories that share a slug (`NamePartsAssumption`), prose, styles,
  the search for local paths and credentials; that the
  profile is public and its locators portable is a precondition;
* plan expiry, which is checked once at the start of a session (no clock);
* the parsing of mutation responses, of fixtures and of GitHub records: each is one outcome.

Not modelled at all: the command line and rendering, data models, canonical JSON and
the legacy report, which have no protocol of their own. Identities are digests of
canonical JSON and are modelled as equality of content.
