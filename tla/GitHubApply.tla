----------------------------- MODULE GitHubApply -----------------------------
(***************************************************************************)
(* `shoulda github apply` of one sealed plan (admin_services.applied and   *)
(* its helpers), run again and again by an operator, against a GitHub      *)
(* account that is also edited by its owner.                               *)
(*                                                                         *)
(* GitHub is external.  gh is what it has committed; view is what its      *)
(* Lists query shows, which may lag (docs/decisions/membership-apply-      *)
(* scaling.json observed stale immediate List reads); stars are read from  *)
(* gh itself.  A read (read_curation_state) is one step; its errors,       *)
(* account and repository identity drift included, are failed reads.  Its  *)
(* requests are ListRead's subject: here, where Lag, each List it shows    *)
(* may be of an instant of its own, but none is newer than the stars.      *)
(*                                                                         *)
(* One attempt of an operation (request, effect, response, operation       *)
(* receipt) is one step: nothing but the process's own memory tells apart  *)
(* a crash between the effect and the operation receipt from one after it, *)
(* because a later session only ever reads the receipt chain through the   *)
(* plan's latest-apply pointer.  The apply receipt with that pointer       *)
(* (StateStore.write_apply) is the durable record, written in steps of its *)
(* own.  Receipts are reduced to the set of outcomes recorded per          *)
(* operation: the code asks nothing else of them.                          *)
(*                                                                         *)
(* A start that is refused (expired, identity, capability, failed read,    *)
(* disallowed progress, uncertain create) and a start that finds a         *)
(* complete receipt and nothing pending change nothing: they are           *)
(* stuttering steps, and their conditions are guards of the other starts.  *)
(* A failed attempt whose message is too long for its receipt ends the     *)
(* process with an exception: like any other death it is Crash.            *)
(***************************************************************************)
EXTENDS Verifier, FiniteSets

CONSTANTS
    Plan,           \* the sealed plan
    NoState,        \* "no readback" in an apply receipt
    MaxFaults,      \* bound: lost, failed or delayed calls and failed reads
    MaxCrashes,     \* bound: process deaths (Ctrl-C, kill, power loss)
    MaxOwnerEdits,  \* bound: edits of the account by its owner
    Lag,            \* may the Lists query lag behind committed writes?
    Delays          \* may GitHub execute a request after the client timed out?

ASSUME PlanAssumption ==
    /\ Plan \in [baseline : AccountState,
                 desired  : [Repos -> SUBSET Slugs],
                 ops      : Seq(Operation)]
    /\ WellSealed(Plan)
ASSUME NoStateAssumption == NoState \notin AccountState
ASSUME BoundsAssumption ==
    /\ MaxFaults \in Nat /\ MaxCrashes \in Nat /\ MaxOwnerEdits \in Nat
    /\ Lag \in BOOLEAN /\ Delays \in BOOLEAN

VARIABLES
    gh,          \* the account GitHub has committed
    view,        \* the Lists its query shows
    late,        \* requests given up on that GitHub may still execute
    latest,      \* the apply receipt the plan's latest pointer names
    pc,          \* control state of the running session
    phase,       \* the operation kind being worked on
    idx,         \* next (pc "attempt") or last attempted position in Plan.ops
    current,     \* the session's idea of the account state
    receipts,    \* outcomes per operation: prior sessions' and this one's
    outcome,     \* outcome of the last attempt
    faults, crashes, ownerEdits

remote  == <<gh, view, late>>
session == <<pc, phase, idx, current, receipts, outcome>>
budget  == <<faults, crashes, ownerEdits>>
vars    == <<gh, view, late, latest, pc, phase, idx, current, receipts,
             outcome, faults, crashes, ownerEdits>>

-----------------------------------------------------------------------------
Outcomes == {"succeeded", "failed", "indeterminate"}
PossibleEffect == {"succeeded", "indeterminate"}

Ops == Plan.ops
Ids == OpIds(Plan)

NoReceipts == [n \in Ids |-> {}]
NoLatest == [status |-> "none", receipts |-> NoReceipts,
             cursor |-> 0, readback |-> NoState]

Request == [op : Operation, lists : SUBSET ListIds]

Least(S) == CHOOSE n \in S : \A m \in S : n <= m

\* What read_curation_state returns: stars are current, Lists as shown.
Observed == [starred |-> gh.starred, lists |-> view]

-----------------------------------------------------------------------------
(* The external account. *)

Commit(account) ==
    /\ gh' = account
    /\ view' = IF Lag THEN view ELSE account.lists

UnbornIds(lists) == {l \in ListIds : lists[l].status = "unborn"}

CreateList(account, name, conforming) ==
    [account EXCEPT !.lists[Least(UnbornIds(account.lists))] =
        [status |-> "live", name |-> name,
         conforming |-> conforming, members |-> {}]]

\* The mutation replaces the set of Lists a repository is a member of.
ReplaceMemberships(account, repo, lists) ==
    [account EXCEPT !.lists =
        [l \in ListIds |->
            IF l \notin Live(account.lists) THEN account.lists[l]
            ELSE IF l \in lists
            THEN [account.lists[l] EXCEPT !.members = @ \cup {repo}]
            ELSE [account.lists[l] EXCEPT !.members = @ \ {repo}]]]

\* GitHub rejects a membership request that names a List that is gone; a
\* create needs a fresh node ID (ListIds bounds how many there can be).
Executable(req) ==
    /\ req.op.kind = "create-list" => UnbornIds(gh.lists) # {}
    /\ req.op.kind = "add-membership" => req.lists \subseteq Live(gh.lists)

AfterEffect(req) ==
    CASE req.op.kind = "create-list" -> CreateList(gh, req.op.slug, TRUE)
      [] req.op.kind = "star-repository" ->
            [gh EXCEPT !.starred = @ \cup {req.op.repo}]
      [] OTHER -> ReplaceMemberships(gh, req.op.repo, req.lists)

CatchUp(l) ==
    /\ view[l] # gh.lists[l]
    /\ view' = [view EXCEPT ![l] = gh.lists[l]]
    /\ UNCHANGED <<gh, late, latest, session, budget>>

LateEffect ==
    /\ \E req \in late :
        /\ Executable(req)
        /\ Commit(AfterEffect(req))
        /\ late' = late \ {req}
    /\ UNCHANGED <<latest, session, budget>>

OwnerCommits(account) ==
    /\ ownerEdits < MaxOwnerEdits
    /\ account # gh
    /\ Commit(account)
    /\ ownerEdits' = ownerEdits + 1
    /\ UNCHANGED <<late, latest, session, faults, crashes>>

OwnerTogglesStar ==
    \E repo \in Repos :
        \/ OwnerCommits([gh EXCEPT !.starred = @ \cup {repo}])
        \/ OwnerCommits([gh EXCEPT !.starred = @ \ {repo}])

OwnerTogglesMembership ==
    \E l \in Live(gh.lists), repo \in Repos :
        \/ OwnerCommits([gh EXCEPT !.lists[l].members = @ \cup {repo}])
        \/ OwnerCommits([gh EXCEPT !.lists[l].members = @ \ {repo}])

OwnerEditsList ==
    \E name \in Names, conforming \in BOOLEAN :
        \/ /\ UnbornIds(gh.lists) # {}
           /\ OwnerCommits(CreateList(gh, name, conforming))
        \/ \E l \in Live(gh.lists) :
               OwnerCommits([gh EXCEPT !.lists[l] =
                   [@ EXCEPT !.name = name, !.conforming = conforming]])

OwnerDeletesList ==
    \E l \in Live(gh.lists) :
        OwnerCommits([gh EXCEPT !.lists[l] =
            [@ EXCEPT !.status = "gone", !.members = {}]])

-----------------------------------------------------------------------------
(* Helpers of the session. *)

\* The session's process ends: its memory is gone.
Exit ==
    /\ pc' = "idle" /\ phase' = "create-list" /\ idx' = 1
    /\ current' = Plan.baseline /\ receipts' = NoReceipts /\ outcome' = "none"

\* Mutant: an indeterminate attempt does not count as a possible effect.
ProgressWithoutDoubt(cursor, readback) ==
    [status   |-> IF \E n \in Ids : "succeeded" \in receipts[n]
                  THEN "partial" ELSE "failed",
     receipts |-> receipts, cursor |-> cursor, readback |-> readback]

\* _write_apply_progress
Progress(cursor, readback) ==
    [status   |-> IF \E n \in Ids : receipts[n] \cap PossibleEffect # {}
                  THEN "partial" ELSE "failed",
     receipts |-> receipts,
     cursor   |-> cursor,
     readback |-> readback]

\* Operations of the running loop that are still ahead of it.
Todo == {n \in Ids : /\ n >= idx
                     /\ Ops[n].kind = phase
                     /\ ~Satisfied(Ops[n], current)}

RequestFor(n) ==
    [op    |-> Ops[n],
     lists |-> IF Ops[n].kind = "add-membership"
               THEN RequestedUnion(Ops[n], current) ELSE {}]

\* Mutant: the acknowledged memberships are not carried forward.
MaterializeNothing(state, repo, lists) == state

\* _materialize_membership_response
Materialize(state, repo, lists) ==
    [state EXCEPT !.lists =
        [l \in ListIds |->
            IF l \in lists
            THEN [state.lists[l] EXCEPT !.members = @ \cup {repo}]
            ELSE state.lists[l]]]

\* _first_pending_id, and its mutant that points past the last operation.
FirstPendingPastEnd(state) ==
    IF Pending(Plan, state) = {} THEN Len(Ops) + 1
    ELSE Least(Pending(Plan, state))

FirstPending(state) ==
    IF Pending(Plan, state) = {} THEN Len(Ops) ELSE Least(Pending(Plan, state))

\* Mutants: only timeouts count as uncertain; a create that became visible
\* since still counts as uncertain.
UncertainTimeoutOnly(state) ==
    \E n \in Pending(Plan, state) :
        Ops[n].kind = "create-list" /\ "indeterminate" \in latest.receipts[n]

UncertainForever(state) ==
    \E n \in Ids : /\ Ops[n].kind = "create-list"
                   /\ latest.receipts[n] \cap PossibleEffect # {}

\* _refuse_uncertain_create_retry
UncertainCreate(state) ==
    \E n \in Pending(Plan, state) :
        /\ Ops[n].kind = "create-list"
        /\ latest.receipts[n] \cap PossibleEffect # {}

\* Mutant: the star loop is skipped.
NextPhaseSkipsStars == "add-membership"

NextPhase == IF phase = "create-list" THEN "star-repository"
             ELSE "add-membership"

\* What a readback must find done before the session goes on.
Remaining(state) ==
    {n \in Pending(Plan, state) :
        phase = "add-membership" \/ Ops[n].kind = phase}

LoopDone == pc = "attempt" /\ Todo = {}

\* requested_membership_union finds the List the union is for.
TargetThere(n) ==
    Ops[n].kind = "add-membership" => Named(current.lists, Ops[n].slug) # {}

-----------------------------------------------------------------------------
(* applied(): the start of a session. *)

\* Mutant: a resumed session forgets the receipts of earlier ones.
StartSessionAfresh ==
    /\ pc = "idle"
    /\ AllowedProgress(Plan, Observed)
    /\ Pending(Plan, Observed) # {}
    /\ ~UncertainCreate(Observed)
    /\ pc' = "attempt" /\ phase' = "create-list" /\ idx' = 1
    /\ current' = Observed /\ receipts' = NoReceipts /\ outcome' = "none"
    /\ UNCHANGED <<remote, latest, budget>>

StartSession ==
    /\ pc = "idle"
    /\ AllowedProgress(Plan, Observed)
    /\ Pending(Plan, Observed) # {}
    /\ ~UncertainCreate(Observed)
    /\ pc' = "attempt" /\ phase' = "create-list" /\ idx' = 1
    /\ current' = Observed /\ receipts' = latest.receipts /\ outcome' = "none"
    /\ UNCHANGED <<remote, latest, budget>>

\* Nothing left to do, and no complete receipt says so yet.
StartSatisfied ==
    /\ pc = "idle"
    /\ AllowedProgress(Plan, Observed)
    /\ Pending(Plan, Observed) = {}
    /\ latest.status # "complete"
    /\ pc' = "complete"
    /\ current' = Observed /\ receipts' = latest.receipts
    /\ UNCHANGED <<remote, latest, phase, idx, outcome, budget>>

-----------------------------------------------------------------------------
(* _attempt_operation *)

Attempted(n, result) ==
    /\ pc' = "record" /\ idx' = n /\ outcome' = result
    /\ receipts' = [receipts EXCEPT ![n] = @ \cup {result}]
    /\ UNCHANGED <<latest, phase, current, crashes, ownerEdits>>

Attempting(n) ==
    /\ pc = "attempt" /\ Todo # {} /\ n = Least(Todo)
    /\ TargetThere(n)

\* github_apply_list_missing is no GitHubError: it leaves the session, which
\* records nothing more.
TargetMissing ==
    /\ pc = "attempt" /\ Todo # {}
    /\ ~TargetThere(Least(Todo))
    /\ Exit
    /\ UNCHANGED <<remote, latest, budget>>

AttemptSucceeds ==
    \E n \in Ids :
        /\ Attempting(n)
        /\ Executable(RequestFor(n))
        /\ Commit(AfterEffect(RequestFor(n)))
        /\ Attempted(n, "succeeded")
        /\ UNCHANGED <<late, faults>>

\* A timeout or an unusable response after GitHub executed the request.
AttemptLosesResponse ==
    \E n \in Ids :
        /\ Attempting(n)
        /\ faults < MaxFaults
        /\ Executable(RequestFor(n))
        /\ Commit(AfterEffect(RequestFor(n)))
        /\ Attempted(n, "indeterminate")
        /\ faults' = faults + 1
        /\ UNCHANGED late

\* Rejected by GitHub, or never delivered to it.
AttemptHasNoEffect ==
    \E n \in Ids, result \in {"failed", "indeterminate"} :
        /\ Attempting(n)
        /\ \/ faults < MaxFaults /\ faults' = faults + 1
           \/ ~Executable(RequestFor(n)) /\ UNCHANGED faults
        /\ Attempted(n, result)
        /\ UNCHANGED remote

\* The client times out, the request stays on its way.
AttemptIsDelayed ==
    \E n \in Ids :
        /\ Delays
        /\ Attempting(n)
        /\ faults < MaxFaults
        /\ late' = late \cup {RequestFor(n)}
        /\ Attempted(n, "indeterminate")
        /\ faults' = faults + 1
        /\ UNCHANGED <<gh, view>>

\* The progress receipt after each attempt, then the next operation.  (The
\* code's check that a materialised membership is now satisfied cannot fail:
\* the union it sent contains the operation's target.)
RecordSuccess ==
    /\ pc = "record" /\ outcome = "succeeded"
    /\ latest' = Progress(idx, current)
    /\ current' = IF phase = "add-membership"
                  THEN Materialize(current, Ops[idx].repo,
                                   RequestedUnion(Ops[idx], current))
                  ELSE current
    /\ pc' = "attempt" /\ idx' = idx + 1 /\ outcome' = "none"
    /\ UNCHANGED <<remote, phase, receipts, budget>>

RecordFailure ==
    /\ pc = "record" /\ outcome # "succeeded"
    /\ latest' = Progress(idx, current)
    /\ pc' = "finish"
    /\ UNCHANGED <<remote, phase, idx, current, receipts, outcome, budget>>

-----------------------------------------------------------------------------
(* _finish_failed_attempt *)

FinishWithReadback ==
    /\ pc = "finish"
    /\ AllowedProgress(Plan, Observed)
    /\ latest' = Progress(IF Pending(Plan, Observed) = {} THEN idx
                          ELSE Least(Pending(Plan, Observed)), Observed)
    /\ Exit
    /\ UNCHANGED <<remote, budget>>

FinishWithoutReadback ==
    /\ pc = "finish"
    /\ \/ ~AllowedProgress(Plan, Observed) /\ UNCHANGED faults
       \/ faults < MaxFaults /\ faults' = faults + 1
    /\ latest' = Progress(idx, NoState)
    /\ Exit
    /\ UNCHANGED <<remote, crashes, ownerEdits>>

-----------------------------------------------------------------------------
(* The readback that ends each loop. *)

ReadbackFails ==
    /\ LoopDone
    /\ \/ ~AllowedProgress(Plan, Observed) /\ UNCHANGED faults
       \/ faults < MaxFaults /\ faults' = faults + 1
    /\ latest' = Progress(FirstPending(current), NoState)
    /\ Exit
    /\ UNCHANGED <<remote, crashes, ownerEdits>>

ReadbackMismatch ==
    /\ LoopDone
    /\ AllowedProgress(Plan, Observed)
    /\ Remaining(Observed) # {}
    /\ latest' = Progress(Least(Remaining(Observed)), Observed)
    /\ Exit
    /\ UNCHANGED <<remote, budget>>

ReadbackAdvances ==
    /\ LoopDone /\ phase # "add-membership"
    /\ AllowedProgress(Plan, Observed)
    /\ Remaining(Observed) = {}
    /\ current' = Observed /\ phase' = NextPhase /\ idx' = 1
    /\ UNCHANGED <<remote, latest, pc, receipts, outcome, budget>>

FinalReadback ==
    /\ LoopDone /\ phase = "add-membership"
    /\ AllowedProgress(Plan, Observed)
    /\ Remaining(Observed) = {}
    /\ current' = Observed /\ pc' = "complete"
    /\ UNCHANGED <<remote, latest, phase, idx, receipts, outcome, budget>>

RecordComplete ==
    /\ pc = "complete"
    /\ latest' = [status |-> "complete", receipts |-> receipts,
                  cursor |-> 0, readback |-> current]
    /\ Exit
    /\ UNCHANGED <<remote, budget>>

-----------------------------------------------------------------------------
Crash ==
    /\ pc # "idle"
    /\ crashes < MaxCrashes
    /\ crashes' = crashes + 1
    /\ Exit
    /\ UNCHANGED <<remote, latest, faults, ownerEdits>>

Init ==
    /\ gh = Plan.baseline /\ view = Plan.baseline.lists /\ late = {}
    /\ latest = NoLatest
    /\ pc = "idle" /\ phase = "create-list" /\ idx = 1
    /\ current = Plan.baseline /\ receipts = NoReceipts /\ outcome = "none"
    /\ faults = 0 /\ crashes = 0 /\ ownerEdits = 0

Attempt == \/ AttemptSucceeds \/ AttemptLosesResponse
           \/ AttemptHasNoEffect \/ AttemptIsDelayed

Session == \/ StartSession \/ StartSatisfied
           \/ Attempt \/ TargetMissing
           \/ RecordSuccess \/ RecordFailure
           \/ FinishWithReadback \/ FinishWithoutReadback
           \/ ReadbackFails \/ ReadbackMismatch \/ ReadbackAdvances
           \/ FinalReadback \/ RecordComplete

OwnerEdit == \/ OwnerTogglesStar \/ OwnerTogglesMembership
             \/ OwnerEditsList \/ OwnerDeletesList

Next == \/ Session
        \/ Crash
        \/ OwnerEdit
        \/ LateEffect
        \/ \E l \in ListIds : CatchUp(l)

Spec == Init /\ [][Next]_vars

(* Fairness: the session's own steps need nobody else, a GitHub query       *)
(* eventually shows what was committed, and the operator reruns a command   *)
(* that exited nonzero (the runbook's resume), as long as it would start.   *)
(* Faults, crashes and owner edits are never required to happen.            *)
FairSpec ==
    /\ Spec
    /\ WF_vars(Session)
    /\ \A l \in ListIds : WF_vars(CatchUp(l))

-----------------------------------------------------------------------------
(* Properties. *)

\* Every variable keeps its type.
TypeOK ==
    /\ gh \in AccountState /\ view \in ListTable /\ late \subseteq Request
    /\ latest \in [status   : {"none", "partial", "failed", "complete"},
                   receipts : [Ids -> SUBSET Outcomes],
                   cursor   : Ids \cup {0},
                   readback : AccountState \cup {NoState}]
    /\ pc \in {"idle", "attempt", "record", "finish", "complete"}
    /\ phase \in Kinds /\ idx \in Nat \ {0}
    /\ current \in AccountState
    /\ receipts \in [Ids -> SUBSET Outcomes]
    /\ outcome \in Outcomes \cup {"none"}
    /\ faults \in Nat /\ crashes \in Nat /\ ownerEdits \in Nat

\* The account reads that back a complete apply receipt would pass an
\* independent `verify` of the same state: pending_operations and
\* assert_allowed_progress, which applied() uses, together imply every
\* postcondition verify_postconditions enumerates.
CompleteVerifies ==
    latest.status = "complete" =>
        /\ latest.readback # NoState
        /\ VerifyStatus(Plan, latest.readback) = "verified"

\* Whatever the view shows, whoever else edits the account, and however many
\* sessions crash: no request of the tool ever removes a membership that was
\* there when the plan was sealed and still is.
BaselineMembershipsKept ==
    [][ownerEdits' = ownerEdits =>
          \A l \in Live(Plan.baseline.lists) :
              Plan.baseline.lists[l].members \cap gh.lists[l].members
                  \subseteq gh'.lists[l].members]_vars

\* On a List that existed when the plan was sealed, the tool adds only members
\* the List had then or that the plan puts into it; it stars and creates only
\* what a sealed operation names.
OnlyPlannedAdditions ==
    [][ownerEdits' = ownerEdits =>
          /\ gh'.starred \ gh.starred \subseteq StarOperations(Plan)
          /\ \A l \in Live(Plan.baseline.lists) :
                gh'.lists[l].members \ gh.lists[l].members
                    \subseteq Plan.baseline.lists[l].members
                        \cup {repo \in Repos :
                               Plan.baseline.lists[l].name \in Plan.desired[repo]}
          /\ \A l \in Live(gh'.lists) \ Live(gh.lists) :
                \E n \in Ids : /\ Ops[n].kind = "create-list"
                               /\ Ops[n].slug = gh'.lists[l].name]_vars

\* While the owner stays away, the account itself (not what a read shows of
\* it) is at every instant an allowed progress from the sealed baseline: no
\* duplicate List, nothing lost, nothing unplanned.
AccountStaysAllowed == ownerEdits = 0 => AllowedProgress(Plan, gh)

\* While the owner stays away, a repository only becomes a member of a List
\* once it is starred: the runbook adds "that starred repository".
MembersAreStarred ==
    ownerEdits = 0 =>
        \A l \in Live(gh.lists) :
            gh.lists[l].members \ BaselineMembers(Plan, l) \subseteq gh.starred

\* The receipt chain is append-only: what an earlier latest receipt recorded
\* for an operation every later one records too, across resumes and crashes.
EvidenceKept ==
    [][\A n \in Ids : latest.receipts[n] \subseteq latest'.receipts[n]]_vars

\* A "failed" receipt says that no operation had a possible effect.  Between
\* sessions, if none of them died, the account is then as it was sealed.
FailedMeansUntouched ==
    (latest.status \in {"none", "failed"} /\ pc = "idle"
        /\ crashes = 0 /\ ownerEdits = 0)
    => gh = Plan.baseline /\ late = {}

\* Whenever the account is verified, in whatever state the sessions, their
\* faults and the owner have left it, the receipt lists every promise.
VerifierListsAll == SamePromises(Plan, Observed)

\* Whenever the account is verified, the verdict says what was seen, whatever
\* of it could be read.
VerdictIsHonest == HonestVerdict(Plan, Observed)

\* The runbook: "There is no command path for unstar, membership removal,
\* List deletion, rename, privacy change".
NothingRemoved ==
    [][ownerEdits' = ownerEdits =>
          /\ gh.starred \subseteq gh'.starred
          /\ \A l \in Live(gh.lists) :
                /\ gh'.lists[l].status = "live"
                /\ gh'.lists[l].name = gh.lists[l].name
                /\ gh'.lists[l].conforming = gh.lists[l].conforming
                /\ gh.lists[l].members \subseteq gh'.lists[l].members]_vars

\* The runbook: "the executor refuses an uncertain duplicate create".
NoDuplicateList ==
    \A slug \in Slugs : \A l, m \in Named(gh.lists, slug) : l = m

\* A plan resumed as often as it takes, with finitely many faults and crashes
\* and no owner edits, ends with a complete receipt, or with the one refusal
\* the code never lifts: a create recorded as possibly effective that GitHub
\* really did not execute, which automatic retries must not repeat.
CreateNeverHappened ==
    \E n \in Ids : /\ Ops[n].kind = "create-list"
                   /\ latest.receipts[n] \cap PossibleEffect # {}
                   /\ Named(gh.lists, Ops[n].slug) = {}

EventuallySettled ==
    \/ <>(latest.status = "complete")
    \/ <>[]CreateNeverHappened

-----------------------------------------------------------------------------
(* The refinement: the account is GitHub's, the position counts the sealed *)
(* operations that are in place, the report is the latest receipt.         *)

InPlace == {n \in Ids : Satisfied(Ops[n], gh)}

Additive == INSTANCE AdditiveApply
    WITH account  <- gh,
         position <- Cardinality(InPlace),
         reported <- (latest.status = "complete")

\* However sessions fail, die and are run again, the account only ever takes
\* the next sealed addition, and a complete receipt is only written when the
\* last one is in place: the executor, which sends whole sets of Lists and
\* resumes from what it reads, implements the additive plan.
ImplementsAdditive == Additive!Spec
=============================================================================
