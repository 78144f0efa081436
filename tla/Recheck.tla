------------------------------ MODULE Recheck -------------------------------
(***************************************************************************)
(* `shoulda check`, `shoulda remember` and `shoulda recheck` over sources  *)
(* that change, age and fail: checked(), remembered() and rechecked() of   *)
(* services.py and their part of the store (state.py).  Sources are read   *)
(* one after another; each durable write happens or does not, and the      *)
(* process may die between any two.  Commands run one at a time.           *)
(*                                                                         *)
(* A check is its content: what its ID is a digest of determines the rest. *)
(* A target is a check or a decision bound to one; its baseline is the     *)
(* check it was last found unchanged in ("last known good").  No command   *)
(* reads a recheck receipt, so that of these only the last is kept here.   *)
(* Tool versions, which are part of an observation's identity, are left    *)
(* out: all commands are of one version.                                   *)
(* Optional values are sets of at most one element.                        *)
(***************************************************************************)
EXTENDS Research

CONSTANTS Specs,               \* filter specifications
          Batches,             \* what a source may contain
          SourceCount,
          Failed,              \* what loading a source that fails yields
          NoTarget, NoCheck,   \* no recheck, no evaluated sources
          MaxEvents,           \* changes of a source and days that pass
          MaxCommands, MaxCrashes

ASSUME RecheckAssumption ==
    /\ SourceCount \in Nat \ {0}
    /\ Failed \notin Batches
    /\ MaxEvents \in Nat /\ MaxCommands \in Nat /\ MaxCrashes \in Nat
    /\ \A batch \in Batches : batch \in Seq(Candidates)
    /\ \A s \in Specs : WellFormed(s)

VARIABLES
    sources, day,                     \* the world
    checks, latestCheck,              \* checks/<id>.json, latest-check.json
    decisions,                        \* decisions/<id>.json
    baselines,                        \* baselines/<target>.json
    lastRecheck,                      \* rechecks/<id>.json, the newest one
    phase, target, spec, prior,       \* the running command
    started, read, current,
    events, commands, crashes

worldVars == <<sources, day, events>>
storeVars == <<checks, latestCheck, decisions, baselines, lastRecheck>>
localVars == <<target, spec, prior, started, read, current>>
vars == <<worldVars, storeVars, phase, localVars, commands, crashes>>

Phases == {"idle", "checking", "checkFiled", "rechecking", "snapshotFiled", "moved"}

AsTarget(kind, of) == [kind |-> kind, of |-> of]

Targets ==
    {AsTarget("chk", check) : check \in checks}
        \cup {AsTarget("dec", decision) :
                  decision \in {d \in decisions : d.check # {}}}

\* The check a target names itself, before any baseline.
Origin(t) == IF t.kind = "chk" THEN {t.of} ELSE t.of.check

\* resolve_check_for_target: the baseline, if there is one.
Resolve(t) == IF t \in DOMAIN baselines THEN {baselines[t]} ELSE Origin(t)

Init ==
    /\ sources \in [1..SourceCount -> Batches]
    /\ day = 0
    /\ checks = {} /\ latestCheck = {} /\ decisions = {} /\ lastRecheck = {}
    /\ baselines = [t \in {} |-> NoCheck]
    /\ phase = "idle"
    /\ target = NoTarget /\ spec = {} /\ prior = {}
    /\ started = 0 /\ read = <<>> /\ current = NoCheck
    /\ events = 0 /\ commands = 0 /\ crashes = 0

-----------------------------------------------------------------------------
(* The world                                                               *)

SourceChanges(i, content) ==
    /\ events < MaxEvents
    /\ content # sources[i]
    /\ sources' = [sources EXCEPT ![i] = content]
    /\ events' = events + 1
    /\ UNCHANGED <<day, storeVars, phase, localVars, commands, crashes>>

DayPasses ==
    /\ events < MaxEvents
    /\ day' = day + 1
    /\ events' = events + 1
    /\ UNCHANGED <<sources, storeVars, phase, localVars, commands, crashes>>

-----------------------------------------------------------------------------
(* Commands                                                                *)

Stop ==
    /\ phase' = "idle"
    /\ target' = NoTarget /\ spec' = {} /\ prior' = {}
    /\ started' = 0 /\ read' = <<>> /\ current' = NoCheck

\* Day 0 stands for "no command" in "started": nothing reads it then.
Begin(as) ==
    /\ phase = "idle" /\ commands < MaxCommands
    /\ phase' = as
    /\ started' = day
    /\ commands' = commands + 1
    /\ UNCHANGED <<worldVars, storeVars, read, current, crashes>>

StartCheck(s) ==
    /\ Begin("checking")
    /\ spec' = {s}
    /\ UNCHANGED <<target, prior>>

StartRecheck(t) ==
    /\ Begin("rechecking")
    /\ target' = t
    /\ prior' = Resolve(t)
    /\ spec' = {check.spec : check \in Resolve(t)}

LoadedAll == Len(read) = SourceCount
NextSource == Len(read) + 1

\* A check gives up at the first source that fails; a recheck goes on.
LoadSource ==
    /\ phase \in {"checking", "rechecking"} /\ ~LoadedAll
    /\ phase = "checking" => sources[NextSource] # Failed
    /\ read' = Append(read, sources[NextSource])
    /\ UNCHANGED <<worldVars, storeVars, phase, target, spec, prior, started,
                   current, commands, crashes>>

CheckFails ==
    /\ phase = "checking" /\ ~LoadedAll
    /\ sources[NextSource] = Failed
    /\ Stop
    /\ UNCHANGED <<worldVars, storeVars, commands, crashes>>

\* Mutant: only a recheck without any source fails.
EverySourceFailed == \A i \in DOMAIN read : read[i] = Failed

SomeSourceFailed == \E i \in DOMAIN read : read[i] = Failed

Evaluated ==
    CheckOf(CHOOSE s \in spec : TRUE, started, Select(read, Batches))

WriteCheck ==
    /\ phase = "checking" /\ LoadedAll
    /\ phase' = "checkFiled"
    /\ current' = Evaluated
    /\ checks' = checks \cup {Evaluated}
    /\ UNCHANGED <<worldVars, latestCheck, decisions, baselines, lastRecheck,
                   target, spec, prior, started, read, commands, crashes>>

WriteLatestCheck ==
    /\ phase = "checkFiled"
    /\ latestCheck' = {current}
    /\ Stop
    /\ UNCHANGED <<worldVars, checks, decisions, baselines, lastRecheck,
                   commands, crashes>>

PriorCheck == CHOOSE check \in prior : TRUE

\* Mutant: the snapshot of a recheck is compared and not kept.
WriteNoSnapshot ==
    /\ phase = "rechecking" /\ LoadedAll /\ ~SomeSourceFailed
    /\ phase' = "snapshotFiled"
    /\ current' = Evaluated
    /\ UNCHANGED <<worldVars, storeVars, target, spec, prior, started, read,
                   commands, crashes>>

\* write_check_snapshot does not move the latest-check pointer.
WriteSnapshot ==
    /\ phase = "rechecking" /\ LoadedAll /\ ~SomeSourceFailed
    /\ phase' = "snapshotFiled"
    /\ current' = Evaluated
    /\ checks' = checks \cup {Evaluated}
    /\ UNCHANGED <<worldVars, latestCheck, decisions, baselines, lastRecheck,
                   target, spec, prior, started, read, commands, crashes>>

MoveBaseline(check) ==
    baselines' = [t \in DOMAIN baselines \cup {target} |->
                     IF t = target THEN check ELSE baselines[t]]

UpdateBaseline ==
    /\ phase = "snapshotFiled"
    /\ Outcome(PriorCheck, current) # "material"
    /\ phase' = "moved"
    /\ MoveBaseline(current)
    /\ UNCHANGED <<worldVars, checks, latestCheck, decisions, lastRecheck,
                   localVars, commands, crashes>>

\* A recheck that ends in a receipt: the evidence it names is what was seen, or
\* the last known good when a source failed.
WriteRecheck ==
    /\ \/ phase = "moved"
       \/ phase = "snapshotFiled" /\ Outcome(PriorCheck, current) = "material"
       \/ phase = "rechecking" /\ LoadedAll /\ SomeSourceFailed
    /\ lastRecheck' =
        {[target |-> target, prior |-> PriorCheck, failed |-> SomeSourceFailed,
          outcome |-> IF SomeSourceFailed THEN "material"
                      ELSE Outcome(PriorCheck, current),
          current |-> IF SomeSourceFailed THEN PriorCheck ELSE current]}
    /\ Stop
    /\ UNCHANGED <<worldVars, checks, latestCheck, decisions, baselines,
                   commands, crashes>>

\* remembered(): one write, of a candidate its check observed, that supersedes
\* at most one decision about the same repository.
Remember(repository, check, supersedes) ==
    /\ phase = "idle" /\ commands < MaxCommands
    /\ check \subseteq checks /\ supersedes \subseteq decisions
    /\ \A c \in check : repository \in Repositories(ToSet(FlattenSeq(c.observed)))
    /\ \A d \in supersedes : d.repository = repository
    /\ decisions' = decisions \cup
        {[repository |-> repository, check |-> check, supersedes |-> supersedes]}
    /\ commands' = commands + 1
    /\ UNCHANGED <<worldVars, checks, latestCheck, baselines, lastRecheck, phase,
                   localVars, crashes>>

\* The process dies between two steps.
Crash ==
    /\ phase # "idle" /\ crashes < MaxCrashes
    /\ crashes' = crashes + 1
    /\ Stop
    /\ UNCHANGED <<worldVars, storeVars, commands>>

World ==
    \/ \E i \in 1..SourceCount, content \in Batches \cup {Failed} :
        SourceChanges(i, content)
    \/ DayPasses

Check ==
    \/ \E s \in Specs : StartCheck(s)
    \/ CheckFails
    \/ WriteCheck \/ WriteLatestCheck

Revalidate ==
    \/ \E t \in Targets : StartRecheck(t)
    \/ WriteSnapshot \/ UpdateBaseline \/ WriteRecheck

OneOf(set) == {{}} \cup {{element} : element \in set}

Decide ==
    \E check \in OneOf(checks), supersedes \in OneOf(decisions),
       repository \in UNION {Repositories(ToSet(batch)) : batch \in Batches} :
        Remember(repository, check, supersedes)

Next == World \/ Check \/ LoadSource \/ Revalidate \/ Decide \/ Crash

Spec == Init /\ [][Next]_vars

-----------------------------------------------------------------------------
(* Properties                                                              *)

Revalidating == phase \in {"rechecking", "snapshotFiled", "moved"}

\* The type invariant; a command that has ended leaves nothing to the next.
TypeOK ==
    /\ sources \in [1..SourceCount -> Batches \cup {Failed}]
    /\ day \in 0..events /\ started \in 0..day
    /\ phase \in Phases
    /\ read \in Seq(Batches \cup {Failed}) /\ Len(read) <= SourceCount
    /\ phase = "idle" => read = <<>> /\ prior = {} /\ current = NoCheck
    /\ ~Revalidating => target = NoTarget
    /\ events \in 0..MaxEvents /\ commands \in 0..MaxCommands
    /\ crashes \in 0..MaxCrashes

\* state.py: whatever a crash interrupts, every receipt and pointer names checks
\* that are stored, so that each target can still be rechecked.
ReferencesResolve ==
    /\ latestCheck \subseteq checks
    /\ \A decision \in decisions : decision.check \subseteq checks
    /\ DOMAIN baselines \subseteq Targets
    /\ \A t \in DOMAIN baselines : baselines[t] \in checks
    /\ \A receipt \in lastRecheck : {receipt.prior, receipt.current} \subseteq checks

\* However many rechecks moved a baseline in small steps, it still shows what the
\* target itself showed in every field that can invalidate a hard gate: material
\* change never becomes "last known good" without a new check.
GatesSurvive ==
    \A t \in DOMAIN baselines : \A check \in Origin(t) :
        Gates(baselines[t]) = Gates(check)

\* No check and no baseline stands on part of its sources.
EvidenceIsWhole == \A check \in checks : Len(check.observed) = SourceCount

AgedOut(receipt) ==
    \E c \in Shown(receipt.prior) :
        ~FreshEnough(c, receipt.prior.spec, receipt.current.day)

\* "No semantic change": a recheck that says so found the very same result, and
\* one over unchanged sources says so unless a candidate outlived an age limit.
OutcomesAreTrue ==
    \A receipt \in lastRecheck :
        /\ receipt.outcome = "noop" => receipt.current.visible = receipt.prior.visible
        /\ /\ ~receipt.failed /\ ~AgedOut(receipt)
           /\ receipt.current.observed = receipt.prior.observed
           => receipt.outcome = "noop"

\* Every check is the one a command has just computed at some point.
Computed == {current} \ {NoCheck}

\* The reference order: the first key that tells two candidates apart decides,
\* what is unknown comes last, the repository breaks ties.
Before(a, b, sort) ==
    \/ \E n \in DOMAIN sort :
        /\ KeyBefore(a, b, sort[n])
        /\ \A m \in 1..(n - 1) : a.facts[sort[m].fact] = b.facts[sort[m].fact]
    \/ /\ \A n \in DOMAIN sort : a.facts[sort[n].fact] = b.facts[sort[n].fact]
       /\ a.repository < b.repository

\* The limit cuts the reference order: the visible candidates are in it, and no
\* candidate left out for the limit comes before one of them.
WindowIsBest ==
    \A check \in Computed :
        LET passing == Passing(MergeBatches(check.observed), check.spec, check.day)
            visible == check.visible
        IN  /\ \A i, j \in DOMAIN visible : i < j => Before(visible[i], visible[j], check.spec.sort)
            /\ \A c \in passing \ Shown(check) :
                /\ Len(visible) = check.spec.limit
                /\ \A d \in Shown(check) : Before(d, c, check.spec.sort)

\* What any source knows about a repository is known after the merge, whatever
\* the order of the sources, unless a conflict is recorded.
MergeIsFair ==
    \A check \in Computed : \A c \in MergeBatches(check.observed) :
        LET told == {d \in ToSet(FlattenSeq(check.observed)) : d.repository = c.repository}
        IN  /\ c.platforms = UNION {d.platforms : d \in told}
            /\ \A f \in Facts \ c.conflicts : c.facts[f] = UNION {d.facts[f] : d \in told}
=============================================================================
