---------------------- MODULE GitHubApplyAccountProofs -----------------------
(***************************************************************************)
(* What the apply receipts of the executor mean, for every plan the        *)
(* constants allow: a complete one names a readback that an independent    *)
(* verification of the same state accepts, and the evidence recorded by    *)
(* earlier sessions is never dropped.                                      *)
(*                                                                         *)
(* The executor decides with pending_operations and                        *)
(* assert_allowed_progress; the verifier enumerates the projection.  That  *)
(* the first two imply the third is a fact about sealed plans              *)
(* (DoneVerifies), which needs the planner's half of the contract          *)
(* (WellSealed).                                                           *)
(*                                                                         *)
(* Then what the account is at every instant: an allowed progress, however *)
(* stale the reads (AccountAlwaysAllowed); and, when reads are consistent, *)
(* the abstract account of AdditiveApply (ExecutorIsAdditive).             *)
(***************************************************************************)
EXTENDS GitHubApplyProofs, FiniteSetTheorems

Done(state) ==
    /\ state \in AccountState
    /\ AllowedProgress(Plan, state)
    /\ Pending(Plan, state) = {}

ReceiptInv ==
    /\ SafetyInv
    /\ pc = "complete" => Done(current)
    /\ latest.status = "complete" => Done(latest.readback)
    /\ pc # "idle" => \A n \in Ids : latest.receipts[n] \subseteq receipts[n]
    /\ pc = "attempt" => latest.receipts = receipts

-----------------------------------------------------------------------------
(* From nothing pending to every postcondition. *)

\* An operation of the plan that is not pending is satisfied.
LEMMA NothingPending ==
    ASSUME NEW state, Pending(Plan, state) = {}, NEW op, Plans(Plan, op)
    PROVE  Satisfied(op, state)
  BY DEF Pending, Plans

\* A sealed List is still found under its name.
LEMMA SealedListsFound ==
    ASSUME NEW state, AllowedProgress(Plan, state), NEW slug \in Slugs
    PROVE  Named(Sealed, slug) \subseteq Named(state.lists, slug)
  BY DEF AllowedProgress, BaselineListsKept, Named, Sealed

\* A sealed membership is still there.
LEMMA SealedMembersFound ==
    ASSUME NEW state, AllowedProgress(Plan, state), NEW repo \in Repos
    PROVE  MembershipsOf(repo, Sealed) \subseteq MembershipsOf(repo, state.lists)
<1>1. SUFFICES ASSUME NEW l \in MembershipsOf(repo, Sealed)
               PROVE  l \in MembershipsOf(repo, state.lists)
  OBVIOUS
<1>2. l \in Live(Sealed) /\ repo \in Sealed[l].members
  BY DEF MembershipsOf
<1>3. l \in Live(state.lists)
  BY <1>2 DEF AllowedProgress, BaselineListsKept, Sealed
<1>4. Sealed[l].members \subseteq state.lists[l].members
  BY <1>2, <1>3 DEF AllowedProgress, MembersProgress, BaselineMembers, Sealed
<1>5. QED
  BY <1>2, <1>3, <1>4 DEF MembershipsOf

\* A state the executor calls done passes every postcondition of verify.
LEMMA DoneVerifies ==
    ASSUME NEW state, Done(state)
    PROVE  Postconditions(Plan, state) /\ VerifyStatus(Plan, state) = "verified"
<1> USE DEF Done
<1>1. WellSealed(Plan)
  BY PlanAssumption
<1>2. ASSUME NEW slug \in Slugs
      PROVE  Named(state.lists, slug) # {}
  <2>1. CASE Plans(Plan, CreateOp(slug))
    <3>1. Satisfied(CreateOp(slug), state)
      BY <2>1, NothingPending
    <3>2. QED
      BY <3>1 DEF Satisfied, CreateOp
  <2>2. CASE ~Plans(Plan, CreateOp(slug))
    <3>1. Named(Sealed, slug) # {}
      BY <1>1, <2>2 DEF WellSealed, Sealed
    <3>2. QED
      BY <3>1, SealedListsFound
  <2>3. QED
    BY <2>1, <2>2
<1>3. ASSUME NEW repo \in Repos
      PROVE  repo \in state.starred
  <2>1. CASE Plans(Plan, StarOp(repo))
    <3>1. Satisfied(StarOp(repo), state)
      BY <2>1, NothingPending
    <3>2. QED
      BY <3>1 DEF Satisfied, StarOp
  <2>2. CASE ~Plans(Plan, StarOp(repo))
    <3>1. repo \in Plan.baseline.starred
      BY <1>1, <2>2 DEF WellSealed
    <3>2. QED
      BY <3>1 DEF AllowedProgress, StarsProgress
  <2>3. QED
    BY <2>1, <2>2
<1>4. ASSUME NEW repo \in Repos, NEW slug \in Plan.desired[repo]
      PROVE  IsMember(repo, slug, state.lists)
  <2>1. slug \in Slugs
    BY PlanFacts
  <2>2. CASE Plans(Plan, MembershipOp(slug, repo))
    <3>1. Satisfied(MembershipOp(slug, repo), state)
      BY <2>2, NothingPending
    <3>2. QED
      BY <3>1 DEF Satisfied, MembershipOp
  <2>3. CASE ~Plans(Plan, MembershipOp(slug, repo))
    <3>1. IsMember(repo, slug, Sealed)
      BY <1>1, <2>1, <2>3 DEF WellSealed, Sealed
    <3>2. PICK l \in Named(Sealed, slug) : repo \in Sealed[l].members
      BY <3>1 DEF IsMember
    <3>3. l \in MembershipsOf(repo, state.lists)
      <4>1. l \in MembershipsOf(repo, Sealed)
        BY <3>2 DEF MembershipsOf, Named
      <4>2. QED
        BY <4>1, SealedMembersFound
    <3>4. l \in Named(state.lists, slug)
      BY <2>1, <3>2, SealedListsFound
    <3>5. QED
      BY <3>3, <3>4 DEF IsMember, MembershipsOf
  <2>4. QED
    BY <2>2, <2>3
<1>5. Postconditions(Plan, state)
  BY <1>2, <1>3, <1>4, SealedMembersFound DEF Postconditions, Sealed
<1>6. TargetsResolve(state.lists)
  BY DEF AllowedProgress
<1>7. QED
  BY <1>5, <1>6 DEF VerifyStatus

-----------------------------------------------------------------------------
(* Steps. *)

\* A progress receipt is never a complete one and records the session's
\* evidence.
LEMMA ProgressFacts ==
    ASSUME NEW cursor, NEW readback
    PROVE  /\ Progress(cursor, readback).status \in {"partial", "failed"}
           /\ Progress(cursor, readback).receipts = receipts
  BY DEF Progress

\* ReceiptInv is inductive, and no step drops evidence.
LEMMA ReceiptStep ==
    ASSUME ReceiptInv, [Next]_vars
    PROVE  /\ ReceiptInv'
           /\ \A n \in Ids : latest.receipts[n] \subseteq latest'.receipts[n]
<1> DEFINE Goal ==
        /\ pc' = "complete" => Done(current')
        /\ latest'.status = "complete" => Done(latest'.readback)
        /\ pc' # "idle" => \A n \in Ids : latest'.receipts[n] \subseteq receipts'[n]
        /\ pc' = "attempt" => latest'.receipts = receipts'
        /\ \A n \in Ids : latest.receipts[n] \subseteq latest'.receipts[n]
<1> USE DEF ReceiptInv
<1>1. SafetyInv'
  BY SafetyStep
<1>2. CASE StartSession
  BY <1>1, <1>2 DEF StartSession
<1>3. CASE StartSatisfied
  BY <1>1, <1>3, ObservedType DEF StartSatisfied, Done, SafetyInv, TypeInv
<1>4. CASE Attempt
  <2>1. PICK n \in Ids, result \in Outcomes : Attempting(n) /\ Attempted(n, result)
    BY <1>4 DEF Attempt, AttemptSucceeds, AttemptLosesResponse,
       AttemptHasNoEffect, AttemptIsDelayed, Outcomes
  <2>2. receipts \in [Ids -> SUBSET Outcomes]
    BY DEF SafetyInv, TypeInv, TypeOK
  <2>3. \A m \in Ids : receipts[m] \subseteq receipts'[m]
    BY <2>1, <2>2 DEF Attempted
  <2>4. Goal
    BY <2>1, <2>3 DEF Attempted, Attempting
  <2>5. QED
    BY <1>1, <2>4
<1>5. CASE RecordSuccess \/ RecordFailure
  BY <1>1, <1>5, ProgressFacts DEF RecordSuccess, RecordFailure
<1>6. CASE \/ FinishWithReadback \/ FinishWithoutReadback
          \/ ReadbackFails \/ ReadbackMismatch
  <2>1. pc # "idle" /\ pc' = "idle"
    BY <1>6 DEF FinishWithReadback, FinishWithoutReadback, ReadbackFails,
       ReadbackMismatch, LoopDone, Exit
  <2>2. latest'.status # "complete" /\ latest'.receipts = receipts
    BY <1>6, ProgressFacts DEF FinishWithReadback, FinishWithoutReadback,
       ReadbackFails, ReadbackMismatch
  <2>3. QED
    BY <1>1, <2>1, <2>2
<1>7. CASE ReadbackAdvances
  BY <1>1, <1>7 DEF ReadbackAdvances, LoopDone
<1>8. CASE FinalReadback
  <2>1. Pending(Plan, Observed) = {}
    BY <1>8 DEF FinalReadback, Remaining
  <2>2. Done(Observed)
    BY <1>8, <2>1, ObservedType DEF FinalReadback, Done, SafetyInv, TypeInv
  <2>3. QED
    BY <1>1, <1>8, <2>2 DEF FinalReadback, LoopDone
<1>9. CASE RecordComplete
  BY <1>1, <1>9 DEF RecordComplete, Exit
<1>10. CASE Crash \/ TargetMissing
  BY <1>1, <1>10 DEF Crash, TargetMissing, Exit
<1>11. CASE OwnerEdit
  BY <1>1, <1>11, OwnerType DEF SafetyInv, TypeInv, session
<1>12. CASE LateEffect \/ \E l \in ListIds : CatchUp(l)
  BY <1>1, <1>12 DEF LateEffect, CatchUp, session
<1>13. CASE UNCHANGED vars
  BY <1>1, <1>13 DEF vars
<1>14. QED
  BY <1>1, <1>2, <1>3, <1>4, <1>5, <1>6, <1>7, <1>8, <1>9, <1>10, <1>11,
     <1>12, <1>13 DEF Next, Session

\* ReceiptInv is an invariant.
LEMMA ReceiptInvariant == Spec => []ReceiptInv
<1>1. Init => ReceiptInv
  <2>1. Init => pc = "idle" /\ latest.status # "complete"
    BY DEF Init, NoLatest
  <2>2. QED
    BY <2>1, SafetyInit DEF ReceiptInv
<1>2. ReceiptInv /\ [Next]_vars => ReceiptInv'
  BY ReceiptStep
<1>3. QED
  BY <1>1, <1>2, PTL DEF Spec

-----------------------------------------------------------------------------
(* What a receipt promises. *)

\* The readback a complete apply receipt quotes passes `github verify`: what
\* applied() checks implies every postcondition verify_postconditions lists.
THEOREM CompleteReceiptsVerify == Spec => []CompleteVerifies
<1>1. ReceiptInv => CompleteVerifies
  <2>1. SUFFICES ASSUME ReceiptInv, latest.status = "complete"
                 PROVE  /\ latest.readback # NoState
                        /\ VerifyStatus(Plan, latest.readback) = "verified"
    BY DEF CompleteVerifies
  <2>2. Done(latest.readback)
    BY <2>1 DEF ReceiptInv
  <2>3. QED
    BY <2>2, DoneVerifies, NoStateAssumption DEF Done
<1>2. QED
  BY <1>1, ReceiptInvariant, PTL

\* The receipt chain is append-only: a later apply receipt of the plan records
\* everything an earlier one recorded for each operation, across resumed and
\* crashed sessions (prior_operations in applied()).
THEOREM EvidenceIsKept == Spec => EvidenceKept
<1> DEFINE Kept == \A n \in Ids : latest.receipts[n] \subseteq latest'.receipts[n]
<1>1. ReceiptInv /\ [Next]_vars => [Kept]_vars
  BY ReceiptStep
<1>2. QED
  BY <1>1, ReceiptInvariant, PTL DEF Spec, EvidenceKept

-----------------------------------------------------------------------------
(***************************************************************************)
(* What the receipts and the order of the loops say about the account      *)
(* itself, for every plan the constants allow, while its owner stays away. *)
(*                                                                         *)
(* The evidence of a run is the latest receipt's between sessions and the  *)
(* session's own while one runs (Evidence).  As long as no process died    *)
(* between an attempt and its receipt, an account that differs from the    *)
(* sealed one has evidence of it (Untouched).                              *)
(*                                                                         *)
(* The membership loop is only entered after a readback that found every   *)
(* star in place (Starred); stars are read from GitHub itself, so they are *)
(* then really there, and a membership request given up on finds them too. *)
(***************************************************************************)

Harmless(evidence) == \A n \in Ids : evidence[n] \cap PossibleEffect = {}

Evidence == IF pc = "idle" THEN latest.receipts ELSE receipts

Untouched == gh = Plan.baseline /\ late = {}

UntouchedInv ==
    /\ ReceiptInv
    /\ latest.status \in {"none", "failed"} => Harmless(latest.receipts)
    /\ crashes = 0 /\ ownerEdits = 0 /\ Harmless(Evidence) => Untouched

-----------------------------------------------------------------------------
(* A failed receipt. *)

\* A progress receipt that says "failed" has no evidence of an effect.
LEMMA FailedIsHarmless ==
    ASSUME NEW cursor, NEW readback,
           Progress(cursor, readback).status \in {"none", "failed"}
    PROVE  Harmless(receipts)
  BY DEF Progress, Harmless

\* An attempt that may have had an effect says so.
LEMMA AttemptLeavesEvidence ==
    ASSUME TypeInv, NEW n \in Ids, NEW result \in Outcomes,
           Attempting(n), Attempted(n, result)
    PROVE  /\ Harmless(Evidence') => Harmless(Evidence)
           /\ Harmless(Evidence') => result = "failed"
<1>1. /\ Evidence = receipts /\ Evidence' = receipts'
      /\ receipts' = [receipts EXCEPT ![n] = @ \cup {result}]
      /\ receipts \in [Ids -> SUBSET Outcomes]
  BY DEF Evidence, Attempting, Attempted, TypeInv, TypeOK
<1>2. /\ result \in receipts'[n]
      /\ \A m \in Ids : receipts[m] \subseteq receipts'[m]
  BY <1>1
<1>3. QED
  BY <1>1, <1>2 DEF Harmless, Outcomes, PossibleEffect

\* UntouchedInv is inductive.
LEMMA UntouchedStep == UntouchedInv /\ [Next]_vars => UntouchedInv'
<1> SUFFICES ASSUME UntouchedInv, [Next]_vars
             PROVE  UntouchedInv'
  OBVIOUS
<1> DEFINE Failed == latest.status \in {"none", "failed"} => Harmless(latest.receipts)
           Clean == crashes = 0 /\ ownerEdits = 0 /\ Harmless(Evidence) => Untouched
<1>1. ReceiptInv'
  BY ReceiptStep DEF UntouchedInv
<1>2. TypeInv /\ Failed /\ Clean
  BY DEF UntouchedInv, ReceiptInv, SafetyInv
<1>3. SUFFICES Failed' /\ Clean'
  BY <1>1 DEF UntouchedInv
<1>4. CASE StartSession \/ StartSatisfied
  <2>1. /\ pc = "idle" /\ pc' # "idle" /\ receipts' = latest.receipts
        /\ UNCHANGED <<remote, latest, budget>>
    BY <1>4 DEF StartSession, StartSatisfied
  <2>2. QED
    BY <1>2, <2>1 DEF Evidence, Harmless, Untouched, remote, budget
<1>5. CASE Attempt
  <2>1. PICK n \in Ids, result \in Outcomes :
            /\ Attempting(n)
            /\ Attempted(n, result)
            /\ result = "failed" => UNCHANGED remote
    BY <1>5 DEF Attempt, AttemptSucceeds, AttemptLosesResponse,
       AttemptHasNoEffect, AttemptIsDelayed, Outcomes
  <2>2. UNCHANGED <<latest, crashes, ownerEdits>>
    BY <2>1 DEF Attempted
  <2>3. /\ Harmless(Evidence') => Harmless(Evidence)
        /\ Harmless(Evidence') => result = "failed"
    BY <1>2, <2>1, AttemptLeavesEvidence
  <2>4. Failed'
    BY <1>2, <2>2 DEF Harmless
  <2>5. Clean'
    <3>1. SUFFICES ASSUME crashes' = 0, ownerEdits' = 0, Harmless(Evidence)'
                   PROVE  Untouched'
      OBVIOUS
    <3>2. Harmless(Evidence')
      BY <3>1 DEF Harmless
    <3>3. QED
      BY <1>2, <2>1, <2>2, <2>3, <3>1, <3>2 DEF Untouched, remote
  <2>6. QED
    BY <2>4, <2>5
<1>6. CASE RecordSuccess \/ RecordFailure
  <2>1. /\ latest' = Progress(idx, current) /\ pc # "idle" /\ pc' # "idle"
        /\ UNCHANGED <<remote, receipts, budget>>
    BY <1>6 DEF RecordSuccess, RecordFailure
  <2>2. latest'.receipts = receipts
    BY <2>1, ProgressFacts
  <2>3. Failed'
    BY <2>1, <2>2, FailedIsHarmless DEF Harmless
  <2>4. QED
    BY <1>2, <2>1, <2>3 DEF Evidence, Harmless, Untouched, remote, budget
<1>7. CASE \/ FinishWithReadback \/ FinishWithoutReadback
          \/ ReadbackFails \/ ReadbackMismatch
  <2>1. /\ \E cursor, readback : latest' = Progress(cursor, readback)
        /\ pc # "idle" /\ pc' = "idle"
        /\ UNCHANGED <<remote, crashes, ownerEdits>>
    BY <1>7 DEF FinishWithReadback, FinishWithoutReadback, ReadbackFails,
       ReadbackMismatch, LoopDone, Exit, budget
  <2>2. latest'.receipts = receipts
    BY <2>1, ProgressFacts
  <2>3. Failed'
    BY <2>1, <2>2, FailedIsHarmless DEF Harmless
  <2>4. QED
    BY <1>2, <2>1, <2>2, <2>3 DEF Evidence, Harmless, Untouched, remote
<1>8. CASE ReadbackAdvances \/ FinalReadback
  <2>1. pc # "idle" /\ pc' # "idle" /\ UNCHANGED <<remote, latest, receipts, budget>>
    BY <1>8 DEF ReadbackAdvances, FinalReadback, LoopDone
  <2>2. QED
    BY <1>2, <2>1 DEF Evidence, Harmless, Untouched, remote, budget
<1>9. CASE RecordComplete
  <2>1. /\ latest'.status = "complete" /\ latest'.receipts = receipts
        /\ pc # "idle" /\ pc' = "idle" /\ UNCHANGED <<remote, budget>>
    BY <1>9 DEF RecordComplete, Exit
  <2>2. QED
    BY <1>2, <2>1 DEF Evidence, Harmless, Untouched, remote, budget
<1>10. CASE Crash
  <2>1. crashes' # 0 /\ latest' = latest
    BY <1>2, <1>10 DEF Crash, TypeInv, TypeOK
  <2>2. QED
    BY <1>2, <2>1 DEF Harmless
<1>a. CASE TargetMissing
  <2>1. /\ pc = "attempt" /\ pc' = "idle" /\ latest.receipts = receipts
        /\ UNCHANGED <<remote, latest, budget>>
    BY <1>a DEF TargetMissing, Exit, UntouchedInv, ReceiptInv
  <2>2. QED
    BY <1>2, <2>1 DEF Evidence, Harmless, Untouched, remote, budget
<1>11. CASE OwnerEdit
  <2>1. ownerEdits' # 0 /\ latest' = latest
    BY <1>2, <1>11, OwnerType DEF TypeInv, TypeOK
  <2>2. QED
    BY <1>2, <2>1 DEF Harmless
<1>12. CASE LateEffect
  <2>1. late # {} /\ UNCHANGED <<latest, session, budget>>
    BY <1>12 DEF LateEffect
  <2>2. QED
    BY <1>2, <2>1 DEF Evidence, Harmless, Untouched, session, budget
<1>13. CASE (\E l \in ListIds : CatchUp(l)) \/ UNCHANGED vars
  <2>1. UNCHANGED <<gh, late, latest, pc, receipts, crashes, ownerEdits>>
    BY <1>13 DEF CatchUp, session, budget, vars
  <2>2. QED
    BY <1>2, <2>1 DEF Evidence, Harmless, Untouched
<1>14. QED
  BY <1>a, <1>4, <1>5, <1>6, <1>7, <1>8, <1>9, <1>10, <1>11, <1>12, <1>13
     DEF Next, Session

\* Nothing has happened at first.
LEMMA UntouchedInit == Init => UntouchedInv
<1>1. Init => ReceiptInv
  BY SafetyInit DEF ReceiptInv, Init, NoLatest
<1>2. Init => Untouched /\ latest.receipts = NoReceipts
  BY DEF Init, Untouched, NoLatest
<1>3. QED
  BY <1>1, <1>2 DEF UntouchedInv, Harmless, NoReceipts

\* A "failed" receipt may be believed: while no session died and the owner
\* stayed away, the account is then as it was when the plan was sealed, and no
\* request given up on can still change it (_write_apply_progress counts an
\* indeterminate attempt as a possible effect).
THEOREM FailedReceiptsAreTrue == Spec => []FailedMeansUntouched
<1>1. UntouchedInv => FailedMeansUntouched
  BY DEF UntouchedInv, FailedMeansUntouched, Untouched, Evidence
<1>2. Spec => []UntouchedInv
  BY UntouchedInit, UntouchedStep, PTL DEF Spec
<1>3. QED
  BY <1>1, <1>2, PTL

-----------------------------------------------------------------------------
(* Stars before memberships. *)

\* Members a List did not have when the plan was sealed are starred.
NewMembersStarred(account) ==
    \A l \in Live(account.lists) :
        account.lists[l].members \ BaselineMembers(Plan, l) \subseteq account.starred

AllStarred == Repos \subseteq gh.starred

Starred ==
    /\ NewMembersStarred(gh)
    /\ phase = "add-membership" => AllStarred
    /\ (\E req \in late : req.op.kind = "add-membership") => AllStarred

StarredInv == SafetyInv /\ (ownerEdits = 0 => Starred)

\* An effect of the tool takes no star back and, once every repository is
\* starred or when it is no membership, leaves new members starred.
LEMMA EffectStars ==
    ASSUME TypeInv, SealedListsBorn, Starred, NEW req \in Request, Executable(req),
           req.op.kind = "add-membership" => AllStarred
    PROVE  /\ gh.starred \subseteq AfterEffect(req).starred
           /\ NewMembersStarred(AfterEffect(req))
<1>1. gh \in AccountState /\ req.op \in Operation
  BY DEF TypeInv, TypeOK, Request
<1>2. NewMembersStarred(gh)
  BY DEF Starred
<1>3. CASE req.op.kind = "create-list"
  <2> DEFINE fresh == Least(UnbornIds(gh.lists))
             new == AfterEffect(req)
  <2>1. new = CreateList(gh, req.op.slug, TRUE)
    BY <1>3 DEF AfterEffect
  <2>2. new.starred = gh.starred
    BY <1>1, <2>1 DEF CreateList, AccountState
  <2>3. new.lists = [gh.lists EXCEPT ![fresh] =
            [status |-> "live", name |-> req.op.slug,
             conforming |-> TRUE, members |-> {}]]
    BY <1>1, <2>1 DEF CreateList, AccountState
  <2>4. \A l \in Live(new.lists) :
            new.lists[l].members = {} \/ (l \in Live(gh.lists) /\ new.lists[l] = gh.lists[l])
    BY <1>1, <2>3 DEF Live, AccountState, ListTable
  <2> HIDE DEF new, fresh
  <2>5. QED
    BY <1>2, <2>2, <2>4 DEF NewMembersStarred, new
<1>4. CASE req.op.kind = "star-repository"
  <2>1. AfterEffect(req) = [gh EXCEPT !.starred = @ \cup {req.op.repo}]
    BY <1>4 DEF AfterEffect
  <2>2. QED
    BY <1>1, <1>2, <2>1 DEF NewMembersStarred, AccountState
<1>5. CASE req.op.kind = "add-membership"
  <2>1. AfterEffect(req) = ReplaceMemberships(gh, req.op.repo, req.lists)
    BY <1>5 DEF AfterEffect
  <2>2. AfterEffect(req).starred = gh.starred
    BY <1>1, <2>1 DEF ReplaceMemberships, AccountState
  <2>3. AfterEffect(req) \in AccountState
    BY <1>1, AfterEffectType
  <2>4. \A l \in Live(AfterEffect(req).lists) :
            AfterEffect(req).lists[l].members \subseteq Repos
    BY <2>3, AccountFields
  <2>5. QED
    BY <1>5, <2>2, <2>4 DEF NewMembersStarred, AllStarred
<1>6. QED
  BY <1>1, <1>3, <1>4, <1>5, OperationFields DEF Kinds

\* Once no star is pending in an allowed state, every repository is starred:
\* sealing plans a star for each one the baseline lacks.
LEMMA NoStarPending ==
    ASSUME NEW state, AllowedProgress(Plan, state),
           \A n \in Pending(Plan, state) : Ops[n].kind # "star-repository"
    PROVE  Repos \subseteq state.starred
<1> SUFFICES ASSUME NEW repo \in Repos
             PROVE  repo \in state.starred
  OBVIOUS
<1>1. CASE repo \in Plan.baseline.starred
  BY <1>1 DEF AllowedProgress, StarsProgress
<1>2. CASE repo \notin Plan.baseline.starred
  <2>1. Plans(Plan, StarOp(repo))
    BY <1>2, PlanAssumption DEF WellSealed
  <2>2. PICK n \in Ids : Ops[n] = StarOp(repo)
    BY <2>1 DEF Plans, Ops, Ids
  <2>3. n \notin Pending(Plan, state)
    BY <2>2 DEF StarOp
  <2>4. Satisfied(StarOp(repo), state)
    BY <2>2, <2>3 DEF Pending, Ops, Ids
  <2>5. QED
    BY <2>4 DEF Satisfied, StarOp
<1>3. QED
  BY <1>1, <1>2

\* The attempted operation is of the running loop.
LEMMA AttemptsItsPhase ==
    ASSUME NEW n \in Ids, Attempting(n)
    PROVE  Ops[n].kind = phase
<1>1. Todo \in SUBSET Ids /\ Todo # {}
  BY DEF Todo, Attempting
<1>2. n \in Todo
  BY <1>1, CursorTypes DEF Attempting
<1>3. QED
  BY <1>2 DEF Todo

\* Starred is kept by every step of the tool and of GitHub.
LEMMA StarredStep == StarredInv /\ [Next]_vars => StarredInv'
<1> SUFFICES ASSUME StarredInv, [Next]_vars, ownerEdits' = 0
             PROVE  Starred'
  BY SafetyStep DEF StarredInv
<1>1. TypeInv /\ SealedListsBorn
  BY DEF StarredInv, SafetyInv
<1>2. ~OwnerEdit
  BY <1>1, OwnerType DEF TypeInv, TypeOK
<1>3. ASSUME ownerEdits = 0, NEW req \in Request, Executable(req),
             req.op.kind = "add-membership" => AllStarred,
             Commit(AfterEffect(req)), late' \subseteq late, phase' = phase
      PROVE  Starred'
  <2>1. Starred
    BY <1>3 DEF StarredInv
  <2>2. gh' = AfterEffect(req)
    BY <1>3 DEF Commit
  <2>3. gh.starred \subseteq gh'.starred /\ NewMembersStarred(gh')
    BY <1>1, <1>3, <2>1, <2>2, EffectStars
  <2>4. NewMembersStarred(gh)'
    BY <2>3 DEF NewMembersStarred, BaselineMembers
  <2>5. QED
    BY <1>3, <2>1, <2>3, <2>4 DEF Starred, AllStarred
<1>4. CASE AttemptSucceeds \/ AttemptLosesResponse
  <2>1. PICK n \in Ids : /\ Attempting(n) /\ Executable(RequestFor(n))
                         /\ Commit(AfterEffect(RequestFor(n)))
                         /\ UNCHANGED <<late, phase, ownerEdits>>
    BY <1>4 DEF AttemptSucceeds, AttemptLosesResponse, Attempted
  <2>2. RequestFor(n) \in Request /\ RequestFor(n).op.kind = phase
    BY <2>1, RequestForType, AttemptsItsPhase
  <2>3. phase = "add-membership" => AllStarred
    BY <2>1 DEF StarredInv, Starred
  <2>4. QED
    BY <1>3, <2>1, <2>2, <2>3
<1>5. CASE AttemptIsDelayed
  <2>1. PICK n \in Ids : /\ Attempting(n)
                         /\ late' = late \cup {RequestFor(n)}
                         /\ UNCHANGED <<gh, phase, ownerEdits>>
    BY <1>5 DEF AttemptIsDelayed, Attempted
  <2>2. RequestFor(n).op.kind = phase
    BY <2>1, RequestForType, AttemptsItsPhase
  <2>3. Starred
    BY <2>1 DEF StarredInv
  <2>4. QED
    BY <2>1, <2>2, <2>3 DEF Starred, AllStarred, NewMembersStarred, BaselineMembers
<1>6. CASE LateEffect
  <2>1. PICK req \in late : /\ Executable(req) /\ Commit(AfterEffect(req))
                            /\ late' = late \ {req}
                            /\ UNCHANGED <<phase, ownerEdits>>
    BY <1>6 DEF LateEffect, session, budget
  <2>2. req \in Request
    BY <1>1 DEF TypeInv, TypeOK
  <2>3. req.op.kind = "add-membership" => AllStarred
    BY <2>1 DEF StarredInv, Starred
  <2>4. QED
    BY <1>3, <2>1, <2>2, <2>3
<1>7. CASE ReadbackAdvances
  <2>1. /\ phase' = NextPhase /\ AllowedProgress(Plan, Observed)
        /\ Remaining(Observed) = {} /\ phase # "add-membership"
        /\ UNCHANGED <<gh, late, ownerEdits>>
    BY <1>7 DEF ReadbackAdvances, remote, budget
  <2>2. ASSUME phase' = "add-membership"
        PROVE  AllStarred
    <3>1. phase = "star-repository"
      BY <1>1, <2>1, <2>2 DEF NextPhase, TypeInv, TypeOK, Kinds
    <3>2. \A n \in Pending(Plan, Observed) : Ops[n].kind # "star-repository"
      BY <2>1, <3>1 DEF Remaining
    <3>3. Repos \subseteq Observed.starred
      BY <2>1, <3>2, NoStarPending
    <3>4. QED
      BY <3>3 DEF Observed, AllStarred
  <2>3. Starred
    BY <2>1 DEF StarredInv
  <2>4. QED
    BY <2>1, <2>2, <2>3 DEF Starred, AllStarred, NewMembersStarred, BaselineMembers
<1>8. CASE \/ StartSession \/ StartSatisfied \/ AttemptHasNoEffect
          \/ RecordSuccess \/ RecordFailure
          \/ FinishWithReadback \/ FinishWithoutReadback
          \/ ReadbackFails \/ ReadbackMismatch \/ FinalReadback
          \/ RecordComplete \/ Crash \/ TargetMissing
          \/ (\E l \in ListIds : CatchUp(l)) \/ UNCHANGED vars
  <2>1. /\ UNCHANGED <<gh, late, ownerEdits>>
        /\ phase' = phase \/ phase' = "create-list"
    BY <1>8 DEF StartSession, StartSatisfied, AttemptHasNoEffect, Attempted,
       RecordSuccess, RecordFailure, FinishWithReadback, FinishWithoutReadback,
       ReadbackFails, ReadbackMismatch, FinalReadback, RecordComplete, Crash,
       TargetMissing, CatchUp, Exit, remote, session, budget, vars
  <2>2. Starred
    BY <2>1 DEF StarredInv
  <2>3. QED
    BY <2>1, <2>2 DEF Starred, AllStarred, NewMembersStarred, BaselineMembers
<1>9. QED
  BY <1>2, <1>4, <1>5, <1>6, <1>7, <1>8 DEF Next, Session, Attempt

\* The sealed account has no new members.
LEMMA StarredInit == Init => StarredInv
  BY SafetyInit DEF Init, StarredInv, Starred, NewMembersStarred, BaselineMembers

\* While the owner stays away, what becomes a member of a List is starred by
\* then, whatever the view shows, however sessions fail or die, and when a
\* membership request is executed long after it was given up on.
THEOREM StarsComeFirst == Spec => []MembersAreStarred
<1>1. StarredInv => MembersAreStarred
  BY DEF StarredInv, Starred, NewMembersStarred, MembersAreStarred
<1>2. Spec => []StarredInv
  BY StarredInit, StarredStep, PTL DEF Spec
<1>3. QED
  BY <1>1, <1>2, PTL

-----------------------------------------------------------------------------
(* The account stays an allowed progress as long as no session dies.  What *)
(* makes it so is that a create is never sent twice: a List of a planned   *)
(* name, and a create request still on its way, have evidence (Once), and  *)
(* a session only sends a create that has none (Fresh).  Memberships only  *)
(* reach Lists that are what the session took them for, because no request *)
(* of the tool changes the name of a List (Older, Fits).                   *)

\* What lists shows as live is live in the account, under the same name.
Older(lists, account) ==
    \A l \in Live(lists) : /\ l \in Live(account.lists)
                           /\ account.lists[l].name = lists[l].name

\* A membership request given up on names Lists that exist, and only those the
\* repository was in at sealing or is planned to be in.
Fits(req, account) ==
    /\ req.op.kind = "create-list" => req.lists = {}
    /\ req.op.kind = "add-membership" =>
        \A l \in req.lists :
            /\ l \in Live(account.lists)
            /\ \/ req.op.repo \in BaselineMembers(Plan, l)
               \/ account.lists[l].name \in Plan.desired[req.op.repo]

CreateIds == {n \in Ids : Ops[n].kind = "create-list"}

Evident(n) == Evidence[n] \cap PossibleEffect # {}

\* The List of a planned create exists or its request is on its way, never
\* both, and either has evidence.
Once ==
    \A n \in CreateIds :
        /\ Named(gh.lists, Ops[n].slug) # {} =>
              Evident(n) /\ \A req \in late : req.op # Ops[n]
        /\ (\E req \in late : req.op = Ops[n]) => Evident(n)

\* The creates a running session is still going to send have no evidence.
Fresh ==
    phase = "create-list" =>
        \A n \in CreateIds :
            /\ \/ pc = "attempt" /\ n >= idx
               \/ pc = "record" /\ n > idx
            /\ ~Satisfied(Ops[n], current)
            => ~Evident(n)

Quiet == ownerEdits = 0 /\ crashes = 0

Orderly ==
    /\ AllowedProgress(Plan, gh)
    /\ Older(view, gh)
    /\ pc # "idle" => Older(current.lists, gh)
    /\ \A req \in late : Fits(req, gh)
    /\ Once
    /\ Fresh

OrderlyInv == ReceiptInv /\ (Quiet => Orderly)

\* What an effect does to the names of Lists: none that exists changes, and
\* only a create adds one, of its own slug.
KeepsNames(req, account) ==
    /\ Older(gh.lists, account)
    /\ \A name : Named(account.lists, name) # {} =>
          \/ Named(gh.lists, name) # {}
          \/ req.op.kind = "create-list" /\ req.op.slug = name

Allowed(req, account) == AllowedProgress(Plan, account) /\ KeepsNames(req, account)

\* Creating a List whose name is planned and not taken.
LEMMA CreateIsAllowed ==
    ASSUME SafetyInv, AllowedProgress(Plan, gh), NEW req \in Request, NEW n \in Ids,
           req.op = Ops[n], Ops[n].kind = "create-list", UnbornIds(gh.lists) # {},
           Named(gh.lists, Ops[n].slug) = {}
    PROVE  Allowed(req, CreateList(gh, Ops[n].slug, TRUE))
<1> DEFINE fresh == Least(UnbornIds(gh.lists))
           slug == Ops[n].slug
           new == CreateList(gh, slug, TRUE)
<1>1. fresh \in ListIds /\ gh.lists[fresh].status = "unborn"
  <2>1. UnbornIds(gh.lists) \in SUBSET Nat
    BY ListIdsAssumption DEF UnbornIds
  <2>2. fresh \in UnbornIds(gh.lists)
    BY <2>1, LeastProperties
  <2>3. QED
    BY <2>2 DEF UnbornIds
<1>2. gh \in AccountState /\ SealedListsBorn
  BY DEF SafetyInv, TypeInv, TypeOK
<1>3. /\ new.starred = gh.starred
      /\ new.lists[fresh] = [status |-> "live", name |-> slug,
                             conforming |-> TRUE, members |-> {}]
      /\ \A l \in ListIds \ {fresh} : new.lists[l] = gh.lists[l]
  BY <1>1, <1>2 DEF CreateList, AccountState, ListTable
<1>4. /\ slug \in Slugs /\ Named(Sealed, slug) = {}
  <2>1. Ops[n] \in Operation
    BY PlanFacts
  <2>2. slug \in Slugs
    BY <2>1, OperationFields
  <2>3. Ops[n] = CreateOp(slug)
    BY <2>1 DEF Operation, CreateOp
  <2>4. Plans(Plan, CreateOp(slug))
    BY <2>3 DEF Plans, Ops, Ids
  <2>5. QED
    BY <2>2, <2>4, PlanAssumption DEF WellSealed, Sealed
<1> HIDE DEF fresh, new, slug
<1>5. /\ fresh \notin Live(Sealed) /\ fresh \notin Live(gh.lists)
      /\ new.lists[fresh].status = "live" /\ new.lists[fresh].name = slug
      /\ new.lists[fresh].conforming = TRUE /\ new.lists[fresh].members = {}
      /\ Live(new.lists) = Live(gh.lists) \cup {fresh}
  BY <1>1, <1>2, <1>3 DEF SealedListsBorn, Live
<1>6. /\ Live(gh.lists) \subseteq ListIds \ {fresh}
      /\ \A l \in Live(gh.lists) : new.lists[l] = gh.lists[l]
  BY <1>3, <1>5 DEF Live
<1>7. \A name : Named(new.lists, name) =
                    Named(gh.lists, name) \cup (IF name = slug THEN {fresh} ELSE {})
  BY <1>5, <1>6 DEF Named
<1>8. StarsProgress(Plan, new)
  BY <1>3 DEF AllowedProgress, StarsProgress
<1>9. BaselineListsKept(Plan, new)
  BY <1>5, <1>6 DEF AllowedProgress, BaselineListsKept
<1>10. NewListsPlanned(Plan, new)
  <2>1. ASSUME NEW l \in Live(gh.lists) \ Live(Plan.baseline.lists)
        PROVE  /\ new.lists[l].name \in Slugs
               /\ Named(Plan.baseline.lists, new.lists[l].name) = {}
               /\ new.lists[l].conforming
    BY <1>6 DEF AllowedProgress, NewListsPlanned
  <2>2. QED
    BY <1>4, <1>5, <2>1 DEF NewListsPlanned, Sealed
<1>11. TargetsResolve(new.lists)
  <2>1. ASSUME NEW name \in Slugs, NEW l \in Named(new.lists, name),
               NEW m \in Named(new.lists, name)
        PROVE  l = m /\ new.lists[l].conforming
    <3>1. CASE name = slug
      <4>1. l = fresh /\ m = fresh
        BY <1>7, <3>1 DEF slug
      <4>2. QED
        BY <1>5, <4>1
    <3>2. CASE name # slug
      <4>1. l \in Named(gh.lists, name) /\ m \in Named(gh.lists, name)
        BY <1>7, <3>2
      <4>2. l = m /\ gh.lists[l].conforming
        BY <4>1 DEF AllowedProgress, TargetsResolve
      <4>3. QED
        BY <1>6, <4>1, <4>2 DEF Named
    <3>3. QED
      BY <3>1, <3>2
  <2>2. QED
    BY <2>1 DEF TargetsResolve
<1>12. MembersProgress(Plan, new)
  <2>1. ASSUME NEW l \in Live(gh.lists)
        PROVE  /\ BaselineMembers(Plan, l) \subseteq new.lists[l].members
               /\ new.lists[l].members \ BaselineMembers(Plan, l)
                      \subseteq AllowedMembers(Plan, new, l)
    BY <1>6 DEF AllowedProgress, MembersProgress, AllowedMembers
  <2>2. BaselineMembers(Plan, fresh) = {}
    BY <1>5 DEF BaselineMembers, Sealed
  <2>3. QED
    BY <1>5, <2>1, <2>2 DEF MembersProgress
<1>13. KeepsNames(req, new)
  BY <1>5, <1>6, <1>7 DEF KeepsNames, Older, slug
<1>14. QED
  BY <1>8, <1>9, <1>10, <1>11, <1>12, <1>13 DEF Allowed, AllowedProgress, new, slug

\* Starring a repository the plan stars.
LEMMA StarIsAllowed ==
    ASSUME SafetyInv, AllowedProgress(Plan, gh), NEW req \in Request, NEW n \in Ids,
           req.op = Ops[n], Ops[n].kind = "star-repository"
    PROVE  Allowed(req, [gh EXCEPT !.starred = @ \cup {Ops[n].repo}])
<1> DEFINE new == [gh EXCEPT !.starred = @ \cup {Ops[n].repo}]
<1>1. Ops[n].repo \in StarOperations(Plan)
  BY DEF StarOperations, Ids, OpIds, Ops
<1>2. gh \in AccountState
  BY DEF SafetyInv, TypeInv, TypeOK
<1>3. new.starred = gh.starred \cup {Ops[n].repo} /\ new.lists = gh.lists
  BY <1>2 DEF AccountState
<1> HIDE DEF new
<1>4. StarsProgress(Plan, new)
  BY <1>1, <1>3 DEF AllowedProgress, StarsProgress
<1>5. /\ BaselineListsKept(Plan, new) /\ NewListsPlanned(Plan, new)
      /\ TargetsResolve(new.lists) /\ MembersProgress(Plan, new)
  BY <1>3 DEF AllowedProgress, BaselineListsKept, NewListsPlanned,
              MembersProgress, AllowedMembers
<1>6. KeepsNames(req, new)
  BY <1>3 DEF KeepsNames, Older
<1>7. QED
  BY <1>4, <1>5, <1>6 DEF Allowed, AllowedProgress, new

\* Replacing a repository's memberships by a sound set that fits.
LEMMA MembershipIsAllowed ==
    ASSUME SafetyInv, AllowedProgress(Plan, gh), NEW req \in Request,
           RequestSound(req), Fits(req, gh), req.op.kind = "add-membership"
    PROVE  Allowed(req, ReplaceMemberships(gh, req.op.repo, req.lists))
<1> DEFINE repo == req.op.repo
           new == ReplaceMemberships(gh, repo, req.lists)
<1>1. repo \in Repos
  BY OperationFields DEF Request
<1>2. gh \in AccountState
  BY DEF SafetyInv, TypeInv, TypeOK
<1>3. /\ new.starred = gh.starred
      /\ new.lists = [l \in ListIds |->
            IF l \notin Live(gh.lists) THEN gh.lists[l]
            ELSE IF l \in req.lists
            THEN [gh.lists[l] EXCEPT !.members = @ \cup {repo}]
            ELSE [gh.lists[l] EXCEPT !.members = @ \ {repo}]]
  BY <1>2 DEF ReplaceMemberships, AccountState
<1>4. \A l \in ListIds :
        /\ new.lists[l].status = gh.lists[l].status
        /\ new.lists[l].name = gh.lists[l].name
        /\ new.lists[l].conforming = gh.lists[l].conforming
        /\ new.lists[l].members \subseteq
               gh.lists[l].members \cup (IF l \in req.lists THEN {repo} ELSE {})
        /\ gh.lists[l].members \ (IF l \in req.lists THEN {} ELSE {repo})
               \subseteq new.lists[l].members
  BY <1>2, <1>3, AccountFields DEF ListState
<1> HIDE DEF new
<1>5. Live(new.lists) = Live(gh.lists) /\ Live(gh.lists) \subseteq ListIds
  BY <1>4 DEF Live
<1>6. \A name : Named(new.lists, name) = Named(gh.lists, name)
  BY <1>4, <1>5 DEF Named
<1>7. StarsProgress(Plan, new)
  BY <1>3 DEF AllowedProgress, StarsProgress
<1>8. BaselineListsKept(Plan, new)
  BY <1>4, <1>5 DEF AllowedProgress, BaselineListsKept, Live
<1>9. NewListsPlanned(Plan, new)
  BY <1>4, <1>5 DEF AllowedProgress, NewListsPlanned
<1>10. TargetsResolve(new.lists)
  <2>1. TargetsResolve(gh.lists)
    BY DEF AllowedProgress
  <2>2. \A name : Named(gh.lists, name) \subseteq ListIds
    BY DEF Named, Live
  <2>3. QED
    BY <1>4, <1>6, <2>1, <2>2 DEF TargetsResolve
<1>11. MembersProgress(Plan, new)
  <2>1. SUFFICES ASSUME NEW l \in Live(gh.lists)
                 PROVE  /\ BaselineMembers(Plan, l) \subseteq new.lists[l].members
                        /\ new.lists[l].members \ BaselineMembers(Plan, l)
                               \subseteq AllowedMembers(Plan, new, l)
    BY <1>5 DEF MembersProgress
  <2>2. /\ BaselineMembers(Plan, l) \subseteq gh.lists[l].members
        /\ gh.lists[l].members \ BaselineMembers(Plan, l)
               \subseteq AllowedMembers(Plan, gh, l)
    BY DEF AllowedProgress, MembersProgress
  <2>3. AllowedMembers(Plan, new, l) = AllowedMembers(Plan, gh, l)
    BY <1>4, <1>5 DEF AllowedMembers
  <2>4. repo \in BaselineMembers(Plan, l) => l \in req.lists
    BY DEF RequestSound, BaselineMembers, Sealed
  <2>5. l \in req.lists => repo \in BaselineMembers(Plan, l) \cup AllowedMembers(Plan, gh, l)
    BY <1>1 DEF Fits, AllowedMembers
  <2>6. l \in ListIds
    BY <1>5
  <2>7. QED
    BY <1>4, <2>2, <2>3, <2>4, <2>5, <2>6
<1>12. KeepsNames(req, new)
  BY <1>4, <1>5, <1>6 DEF KeepsNames, Older
<1>13. QED
  BY <1>7, <1>8, <1>9, <1>10, <1>11, <1>12 DEF Allowed, AllowedProgress, new

\* Every effect of a request that fits, and of a create whose name is free.
LEMMA EffectIsAllowed ==
    ASSUME SafetyInv, AllowedProgress(Plan, gh), NEW req \in Request,
           RequestSound(req), Fits(req, gh), Executable(req),
           req.op.kind = "create-list" => Named(gh.lists, req.op.slug) = {}
    PROVE  Allowed(req, AfterEffect(req))
<1>1. PICK n \in Ids : req.op = Ops[n]
  BY DEF RequestSound
<1>2. req.op.kind \in Kinds
  BY OperationFields DEF Request
<1>3. CASE req.op.kind = "create-list"
  BY <1>1, <1>3, CreateIsAllowed DEF AfterEffect, Executable
<1>4. CASE req.op.kind = "star-repository"
  BY <1>1, <1>4, StarIsAllowed DEF AfterEffect
<1>5. CASE req.op.kind = "add-membership"
  BY <1>5, MembershipIsAllowed DEF AfterEffect
<1>6. QED
  BY <1>2, <1>3, <1>4, <1>5 DEF Kinds

\* Two creates of one plan have different slugs.
LEMMA CreatesDiffer ==
    ASSUME NEW m \in CreateIds, NEW n \in CreateIds, Ops[m].slug = Ops[n].slug
    PROVE  m = n
<1>1. Ops[m] \in Operation /\ Ops[n] \in Operation
  BY PlanFacts DEF CreateIds
<1>2. Ops[m] = CreateOp(Ops[m].slug) /\ Ops[n] = CreateOp(Ops[n].slug)
  BY <1>1 DEF Operation, CreateOp, CreateIds
<1>3. Ops[m] = Ops[n]
  BY <1>2
<1>4. QED
  BY <1>3, PlanAssumption DEF WellSealed, CreateIds, Ops, Ids

\* What a session is about to send fits, and a create has no evidence.
LEMMA AttemptFits ==
    ASSUME SafetyInv, Orderly, NEW n \in Ids, Attempting(n)
    PROVE  /\ RequestFor(n) \in Request /\ RequestFor(n).op = Ops[n]
           /\ RequestSound(RequestFor(n)) /\ Fits(RequestFor(n), gh)
           /\ n \in CreateIds => n >= idx /\ phase = "create-list" /\ ~Evident(n)
<1>1. pc = "attempt" /\ TypeInv /\ StateSound /\ Older(current.lists, gh)
  BY DEF Attempting, SafetyInv, Orderly
<1>2. RequestFor(n) \in Request /\ RequestFor(n).op = Ops[n]
  BY RequestForType
<1>3. RequestSound(RequestFor(n))
  BY <1>1, RequestForIsSound
<1>4. Fits(RequestFor(n), gh)
  <2>1. CASE Ops[n].kind = "add-membership"
    <3> DEFINE repo == Ops[n].repo
               slug == Ops[n].slug
    <3>1. RequestFor(n).lists = RequestedUnion(Ops[n], current)
      BY <2>1 DEF RequestFor
    <3>2. slug \in Plan.desired[repo] /\ repo \in Repos
      BY <2>1, MembershipIsDesired
    <3>3. AllowedProgress(Plan, current) /\ current \in AccountState
      BY <1>1 DEF StateSound, TypeInv, TypeOK
    <3>4. ASSUME NEW l \in MembershipsOf(repo, current.lists)
          PROVE  /\ l \in Live(gh.lists)
                 /\ \/ repo \in BaselineMembers(Plan, l)
                    \/ gh.lists[l].name \in Plan.desired[repo]
      <4>1. l \in Live(current.lists) /\ repo \in current.lists[l].members
        BY DEF MembershipsOf
      <4>2. \/ repo \in BaselineMembers(Plan, l)
            \/ current.lists[l].name \in Plan.desired[repo]
        BY <3>3, <4>1 DEF AllowedProgress, MembersProgress, AllowedMembers
      <4>3. QED
        BY <1>1, <4>1, <4>2 DEF Older
    <3>5. ASSUME NEW l \in Named(current.lists, slug)
          PROVE  l \in Live(gh.lists) /\ gh.lists[l].name \in Plan.desired[repo]
      BY <1>1, <3>2 DEF Named, Older
    <3> HIDE DEF repo, slug
    <3>6. RequestedUnion(Ops[n], current) =
              MembershipsOf(repo, current.lists) \cup Named(current.lists, slug)
      BY DEF RequestedUnion, repo, slug
    <3>7. QED
      BY <1>2, <2>1, <3>1, <3>4, <3>5, <3>6 DEF Fits, repo
  <2>2. CASE Ops[n].kind # "add-membership"
    BY <1>2, <2>2 DEF Fits, RequestFor
  <2>3. QED
    BY <2>1, <2>2
<1>5. ASSUME n \in CreateIds
      PROVE  n >= idx /\ phase = "create-list" /\ ~Evident(n)
  <2>1. n \in Todo
    <3>1. Todo \in SUBSET Ids /\ Todo # {}
      BY DEF Todo, Attempting
    <3>2. QED
      BY <3>1, CursorTypes DEF Attempting
  <2>2. n >= idx /\ phase = "create-list" /\ ~Satisfied(Ops[n], current)
    BY <1>5, <2>1 DEF Todo, CreateIds
  <2>3. QED
    BY <1>1, <1>5, <2>2 DEF Orderly, Fresh
<1>6. QED
  BY <1>2, <1>3, <1>4, <1>5

\* Where names are kept, what was older than the account and what fitted it
\* still is and does.
LEMMA NamesStay ==
    ASSUME NEW req, NEW account, KeepsNames(req, account)
    PROVE  /\ \A lists : Older(lists, gh) => Older(lists, account)
           /\ \A other : Fits(other, gh) => Fits(other, account)
  BY DEF KeepsNames, Older, Fits

\* A step that leaves account and requests alone and loses no evidence.
LEMMA RemoteStays ==
    ASSUME Orderly, gh' = gh, late' = late,
           \A n \in CreateIds : Evident(n) => Evident(n)'
    PROVE  /\ AllowedProgress(Plan, gh)' /\ Once'
           /\ (\A req \in late : Fits(req, gh))'
<1>1. AllowedProgress(Plan, gh)'
  BY DEF Orderly, AllowedProgress, StarsProgress, BaselineListsKept,
         NewListsPlanned, MembersProgress, BaselineMembers, AllowedMembers
<1>2. Once'
  BY DEF Orderly, Once, CreateIds
<1>3. (\A req \in late : Fits(req, gh))'
  BY DEF Orderly, Fits, BaselineMembers
<1>4. QED
  BY <1>1, <1>2, <1>3

\* A step that executes a request that fits, of a create with no evidence so
\* far or of one that was still on its way.
LEMMA RemoteTakes ==
    ASSUME SafetyInv, Orderly, NEW req \in Request, NEW k \in Ids, req.op = Ops[k],
           RequestSound(req), Fits(req, gh), Executable(req), Commit(AfterEffect(req)),
           k \in CreateIds => \/ ~Evident(k) /\ late' = late
                              \/ req \in late /\ late' = late \ {req},
           late' \subseteq late,
           \A n \in CreateIds : Evident(n) => Evident(n)',
           k \in CreateIds => Evident(k)'
    PROVE  /\ AllowedProgress(Plan, gh)' /\ Once'
           /\ (\A r \in late : Fits(r, gh))'
           /\ Older(view, gh)'
           /\ \A lists : Older(lists, gh) => Older(lists, gh')
<1>1. gh' = AfterEffect(req) /\ (view' = view \/ view' = gh'.lists)
  BY DEF Commit
<1>2. Allowed(req, AfterEffect(req))
  <2>1. AllowedProgress(Plan, gh)
    BY DEF Orderly
  <2>2. ASSUME req.op.kind = "create-list"
        PROVE  Named(gh.lists, req.op.slug) = {}
    <3>1. k \in CreateIds
      BY <2>2 DEF CreateIds
    <3>2. QED
      BY <3>1 DEF Orderly, Once
  <2>3. QED
    BY <2>1, <2>2, EffectIsAllowed
<1>3. KeepsNames(req, gh')
  BY <1>1, <1>2 DEF Allowed
<1>4. AllowedProgress(Plan, gh)'
  BY <1>1, <1>2 DEF Allowed, AllowedProgress, StarsProgress, BaselineListsKept,
     NewListsPlanned, MembersProgress, BaselineMembers, AllowedMembers
<1>5. /\ \A lists : Older(lists, gh) => Older(lists, gh')
      /\ \A other : Fits(other, gh) => Fits(other, gh')
  BY <1>3, NamesStay
<1>6. (\A r \in late : Fits(r, gh))'
  <2>1. \A r \in late' : Fits(r, gh')
    BY <1>5 DEF Orderly
  <2>2. QED
    BY <2>1 DEF Fits, BaselineMembers
<1>7. Older(view, gh)'
  <2>1. Older(view', gh')
    BY <1>1, <1>5 DEF Orderly, Older
  <2>2. QED
    BY <2>1 DEF Older
<1>8. Once'
  <2>1. SUFFICES ASSUME NEW n \in CreateIds
                 PROVE  /\ Named(gh'.lists, Ops[n].slug) # {} =>
                              Evident(n)' /\ \A r \in late' : r.op # Ops[n]
                        /\ (\E r \in late' : r.op = Ops[n]) => Evident(n)'
    BY DEF Once, CreateIds
  <2>2. /\ Named(gh.lists, Ops[n].slug) # {} =>
              Evident(n) /\ \A r \in late : r.op # Ops[n]
        /\ (\E r \in late : r.op = Ops[n]) => Evident(n)
    BY DEF Orderly, Once
  <2>3. CASE n = k
    <3>1. k \in CreateIds
      BY <2>3
    <3>2. ASSUME NEW r \in late', r.op = Ops[k]
          PROVE  FALSE
      <4>1. req \in late /\ late' = late \ {req}
        BY <2>2, <2>3, <3>1, <3>2
      <4>2. r.lists = {} /\ req.lists = {}
        BY <3>1, <3>2, <4>1 DEF Orderly, Fits, CreateIds
      <4>3. r \in Request
        BY <4>1 DEF SafetyInv, TypeInv, TypeOK
      <4>4. r = req
        BY <3>2, <4>2, <4>3 DEF Request
      <4>5. QED
        BY <4>1, <4>4
    <3>3. QED
      BY <2>3, <3>1, <3>2
  <2>4. CASE n # k
    <3>1. Named(gh'.lists, Ops[n].slug) # {} => Named(gh.lists, Ops[n].slug) # {}
      <4>1. ~(req.op.kind = "create-list" /\ req.op.slug = Ops[n].slug)
        BY <2>4, CreatesDiffer DEF CreateIds
      <4>2. QED
        BY <1>3, <4>1 DEF KeepsNames
    <3>2. QED
      BY <2>2, <3>1
  <2>5. QED
    BY <2>3, <2>4
<1>9. QED
  BY <1>4, <1>5, <1>6, <1>7, <1>8

\* A step of an attempt: the session records it, and evidence only grows.
LEMMA AttemptedOrderly ==
    ASSUME SafetyInv, Orderly, NEW n \in Ids, NEW result \in Outcomes,
           Attempting(n), Attempted(n, result)
    PROVE  /\ \A m \in CreateIds : Evident(m) => Evident(m)'
           /\ result \in PossibleEffect => Evident(n)'
           /\ current' = current /\ pc # "idle"
           /\ Fresh'
<1>1. TypeInv
  BY DEF SafetyInv
<1>2. /\ Evidence = receipts /\ Evidence' = receipts'
      /\ receipts' = [receipts EXCEPT ![n] = @ \cup {result}]
      /\ receipts \in [Ids -> SUBSET Outcomes]
  BY <1>1 DEF Evidence, Attempting, Attempted, TypeInv, TypeOK
<1>3. \A m \in Ids : receipts[m] \subseteq receipts'[m]
  BY <1>2
<1>4. \A m \in CreateIds : Evident(m) => Evident(m)'
  BY <1>2, <1>3 DEF Evident, CreateIds
<1>5. result \in PossibleEffect => Evident(n)'
  BY <1>2 DEF Evident
<1>6. Fresh'
  <2>1. SUFFICES ASSUME phase' = "create-list", NEW m \in CreateIds, m > n,
                        ~Satisfied(Ops[m], current)
                 PROVE  ~Evident(m)'
    BY DEF Fresh, Attempted, CreateIds
  <2>2. phase = "create-list" /\ pc = "attempt"
    BY <2>1 DEF Attempted, Attempting
  <2>3. n \in CreateIds
    BY <2>2, AttemptsItsPhase DEF CreateIds
  <2>4. n >= idx
    BY <2>3, AttemptFits
  <2>5. n \in Nat /\ m \in Nat /\ idx \in Nat
    BY <1>1, PlanFacts DEF TypeInv, TypeOK, CreateIds
  <2>6. m >= idx /\ m # n
    BY <2>1, <2>4, <2>5
  <2>7. ~Evident(m)
    BY <2>1, <2>2, <2>6 DEF Orderly, Fresh
  <2>8. receipts'[m] = receipts[m]
    BY <1>2, <2>6 DEF CreateIds
  <2>9. QED
    BY <1>2, <2>7, <2>8 DEF Evident
<1>7. QED
  BY <1>4, <1>5, <1>6 DEF Attempting, Attempted

\* Orderly is kept by every step that is neither a death nor an owner's edit.
LEMMA OrderlyStep ==
    ASSUME ReceiptInv, Quiet => Orderly, [Next]_vars, Quiet'
    PROVE  Orderly'
<1>1. SafetyInv /\ TypeInv
  BY DEF ReceiptInv, SafetyInv
<1>2. ~OwnerEdit /\ ~Crash
  BY <1>1, OwnerType DEF Quiet, Crash, TypeInv, TypeOK
<1>3. ASSUME UNCHANGED <<crashes, ownerEdits>>
      PROVE  Orderly
  BY <1>3 DEF Quiet
<1> DEFINE Shown == Older(view, gh)' /\ (pc' # "idle" => Older(current'.lists, gh'))
<1>4. ASSUME UNCHANGED <<gh, late, crashes, ownerEdits>>, Shown, Fresh',
             \A n \in CreateIds : Evident(n) => Evident(n)'
      PROVE  Orderly'
  <2>1. /\ AllowedProgress(Plan, gh)' /\ Once'
        /\ (\A req \in late : Fits(req, gh))'
    BY <1>3, <1>4, RemoteStays
  <2>2. QED
    BY <1>4, <2>1 DEF Orderly, Older
<1>5. CASE StartSession \/ StartSatisfied
  <2>1. /\ pc = "idle" /\ pc' # "idle" /\ receipts' = latest.receipts
        /\ current' = Observed /\ UNCHANGED <<gh, view, late, crashes, ownerEdits>>
    BY <1>5 DEF StartSession, StartSatisfied, remote, budget
  <2>2. Orderly
    BY <1>3, <2>1
  <2>3. Shown
    BY <2>1, <2>2 DEF Orderly, Older, Observed
  <2>4. \A n : Evident(n)' <=> latest.receipts[n] \cap PossibleEffect # {}
    BY <2>1 DEF Evident, Evidence
  <2>5. \A n \in CreateIds : Evident(n) => Evident(n)'
    BY <2>1, <2>4 DEF Evident, Evidence
  <2>6. Fresh'
    <3>1. CASE StartSession
      BY <2>1, <2>4, <3>1 DEF StartSession, UncertainCreate, Pending, Fresh,
         CreateIds, Ids, Ops
    <3>2. CASE StartSatisfied
      BY <3>2 DEF StartSatisfied, Fresh
    <3>3. QED
      BY <1>5, <3>1, <3>2
  <2>7. QED
    BY <1>4, <2>1, <2>3, <2>5, <2>6
<1>6. CASE AttemptSucceeds \/ AttemptLosesResponse
  <2>1. PICK n \in Ids, result \in PossibleEffect :
            /\ Attempting(n) /\ Attempted(n, result)
            /\ Executable(RequestFor(n)) /\ Commit(AfterEffect(RequestFor(n)))
            /\ late' = late
    BY <1>6 DEF AttemptSucceeds, AttemptLosesResponse, PossibleEffect
  <2>2. Orderly
    BY <1>3, <2>1 DEF Attempted
  <2>3. /\ \A m \in CreateIds : Evident(m) => Evident(m)'
        /\ Evident(n)' /\ current' = current /\ pc # "idle" /\ Fresh'
    BY <1>1, <2>1, <2>2, AttemptedOrderly DEF PossibleEffect, Outcomes
  <2>4. /\ RequestFor(n) \in Request /\ RequestFor(n).op = Ops[n]
        /\ RequestSound(RequestFor(n)) /\ Fits(RequestFor(n), gh)
        /\ n \in CreateIds => ~Evident(n)
    BY <1>1, <2>1, <2>2, AttemptFits
  <2>5. /\ AllowedProgress(Plan, gh)' /\ Once'
        /\ (\A r \in late : Fits(r, gh))'
        /\ Older(view, gh)'
        /\ \A lists : Older(lists, gh) => Older(lists, gh')
    BY <1>1, <2>1, <2>2, <2>3, <2>4, RemoteTakes
  <2>6. Older(current'.lists, gh')
    BY <2>2, <2>3, <2>5 DEF Orderly
  <2>7. QED
    BY <2>3, <2>5, <2>6 DEF Orderly, Older
<1>7. CASE AttemptHasNoEffect
  <2>1. PICK n \in Ids, result \in Outcomes :
            /\ Attempting(n) /\ Attempted(n, result)
            /\ UNCHANGED <<gh, view, late>>
    BY <1>7 DEF AttemptHasNoEffect, Outcomes, remote
  <2>2. Orderly
    BY <1>3, <2>1 DEF Attempted
  <2>3. /\ \A m \in CreateIds : Evident(m) => Evident(m)'
        /\ current' = current /\ pc # "idle" /\ Fresh'
    BY <1>1, <2>1, <2>2, AttemptedOrderly
  <2>4. Shown
    BY <2>1, <2>2, <2>3 DEF Orderly, Older
  <2>5. QED
    BY <1>4, <2>1, <2>3, <2>4 DEF Attempted
<1>8. CASE AttemptIsDelayed
  <2>1. PICK n \in Ids : /\ Attempting(n) /\ Attempted(n, "indeterminate")
                         /\ late' = late \cup {RequestFor(n)}
                         /\ UNCHANGED <<gh, view>>
    BY <1>8 DEF AttemptIsDelayed
  <2>2. Orderly
    BY <1>3, <2>1 DEF Attempted
  <2>3. /\ \A m \in CreateIds : Evident(m) => Evident(m)'
        /\ Evident(n)' /\ current' = current /\ pc # "idle" /\ Fresh'
    BY <1>1, <2>1, <2>2, AttemptedOrderly DEF PossibleEffect, Outcomes
  <2>4. /\ RequestFor(n).op = Ops[n] /\ Fits(RequestFor(n), gh)
        /\ n \in CreateIds => ~Evident(n)
    BY <1>1, <2>1, <2>2, AttemptFits
  <2>5. AllowedProgress(Plan, gh)'
    BY <2>1, <2>2 DEF Orderly, AllowedProgress, StarsProgress, BaselineListsKept,
       NewListsPlanned, MembersProgress, BaselineMembers, AllowedMembers
  <2>6. (\A r \in late : Fits(r, gh))'
    <3>1. \A r \in late' : Fits(r, gh')
      BY <2>1, <2>2, <2>4 DEF Orderly
    <3>2. QED
      BY <3>1 DEF Fits, BaselineMembers
  <2>7. Once'
    <3>1. SUFFICES ASSUME NEW m \in CreateIds
                   PROVE  /\ Named(gh.lists, Ops[m].slug) # {} =>
                                Evident(m)' /\ \A r \in late' : r.op # Ops[m]
                          /\ (\E r \in late' : r.op = Ops[m]) => Evident(m)'
      BY <2>1 DEF Once, CreateIds
    <3>2. /\ Named(gh.lists, Ops[m].slug) # {} =>
                Evident(m) /\ \A r \in late : r.op # Ops[m]
          /\ (\E r \in late : r.op = Ops[m]) => Evident(m)
      BY <2>2 DEF Orderly, Once
    <3>3. CASE Ops[n] = Ops[m]
      <4>1. n \in CreateIds /\ Ops[n].slug = Ops[m].slug
        BY <3>3 DEF CreateIds
      <4>2. n = m
        BY <4>1, CreatesDiffer
      <4>3. QED
        BY <2>3, <2>4, <3>2, <4>1, <4>2
    <3>4. CASE Ops[n] # Ops[m]
      BY <2>1, <2>3, <2>4, <3>2, <3>4
    <3>5. QED
      BY <3>3, <3>4
  <2>8. QED
    BY <2>1, <2>2, <2>3, <2>5, <2>6, <2>7 DEF Orderly, Older
<1>9. CASE RecordSuccess \/ RecordFailure
  <2>1. /\ pc = "record" /\ pc' # "idle"
        /\ UNCHANGED <<gh, view, late, receipts, phase, crashes, ownerEdits>>
    BY <1>9 DEF RecordSuccess, RecordFailure, remote, budget
  <2>2. Orderly
    BY <1>3, <2>1
  <2>3. \A n : Evident(n)' <=> Evident(n)
    BY <2>1 DEF Evident, Evidence
  <2>4. CASE RecordSuccess /\ phase = "add-membership"
    <3>1. current' = Materialize(current, Ops[idx].repo,
                                 RequestedUnion(Ops[idx], current))
      BY <2>4 DEF RecordSuccess
    <3>2. current \in AccountState
      BY <1>1 DEF TypeInv, TypeOK
    <3>3. \A l \in ListIds :
              /\ current'.lists[l].status = current.lists[l].status
              /\ current'.lists[l].name = current.lists[l].name
      BY <3>1, <3>2, AccountFields DEF Materialize, AccountState, ListState
    <3>4. Shown
      BY <2>1, <2>2, <3>3 DEF Orderly, Older, Live
    <3>5. Fresh'
      BY <2>1, <2>4 DEF Fresh
    <3>6. QED
      BY <1>4, <2>1, <2>3, <3>4, <3>5
  <2>5. CASE RecordFailure \/ phase # "add-membership"
    <3>1. current' = current
      BY <1>9, <2>5 DEF RecordSuccess, RecordFailure
    <3>2. Shown
      BY <2>1, <2>2, <3>1 DEF Orderly, Older
    <3>3. Fresh'
      <4>1. CASE RecordFailure
        BY <4>1 DEF RecordFailure, Fresh
      <4>2. CASE RecordSuccess
        <5>1. pc' = "attempt" /\ idx' = idx + 1
          BY <4>2 DEF RecordSuccess
        <5>2. SUFFICES ASSUME phase = "create-list", NEW m \in CreateIds, m >= idx',
                              ~Satisfied(Ops[m], current)
                       PROVE  ~Evident(m)
          BY <2>1, <2>3, <3>1, <5>1 DEF Fresh, CreateIds
        <5>3. m > idx
          BY <1>1, <5>1, <5>2, PlanFacts DEF TypeInv, TypeOK, CreateIds
        <5>4. QED
          BY <2>1, <2>2, <5>2, <5>3 DEF Orderly, Fresh
      <4>3. QED
        BY <1>9, <4>1, <4>2
    <3>4. QED
      BY <1>4, <2>1, <2>3, <3>2, <3>3
  <2>6. QED
    BY <1>9, <2>4, <2>5
<1>10. CASE \/ FinishWithReadback \/ FinishWithoutReadback
           \/ ReadbackFails \/ ReadbackMismatch \/ RecordComplete
  <2>1. /\ pc # "idle" /\ pc' = "idle" /\ latest'.receipts = receipts
        /\ UNCHANGED <<gh, view, late, crashes, ownerEdits>>
    BY <1>10, ProgressFacts DEF FinishWithReadback, FinishWithoutReadback,
       ReadbackFails, ReadbackMismatch, RecordComplete, LoopDone, Exit, remote, budget
  <2>2. Orderly
    BY <1>3, <2>1
  <2>3. \A n : Evident(n)' <=> Evident(n)
    BY <2>1 DEF Evident, Evidence
  <2>4. Shown /\ Fresh'
    BY <2>1, <2>2 DEF Orderly, Older, Fresh
  <2>5. QED
    BY <1>4, <2>1, <2>3, <2>4
<1>a. CASE TargetMissing
  <2>1. /\ pc = "attempt" /\ pc' = "idle" /\ latest' = latest /\ latest.receipts = receipts
        /\ UNCHANGED <<gh, view, late, crashes, ownerEdits>>
    BY <1>a DEF TargetMissing, Exit, ReceiptInv, remote, budget
  <2>2. Orderly
    BY <1>3, <2>1
  <2>3. \A n : Evident(n)' <=> Evident(n)
    BY <2>1 DEF Evident, Evidence
  <2>4. Shown /\ Fresh'
    BY <2>1, <2>2 DEF Orderly, Older, Fresh
  <2>5. QED
    BY <1>4, <2>1, <2>3, <2>4
<1>11. CASE ReadbackAdvances \/ FinalReadback
  <2>1. /\ pc # "idle" /\ pc' # "idle" /\ current' = Observed
        /\ phase' # "create-list" \/ pc' = "complete"
        /\ UNCHANGED <<gh, view, late, receipts, crashes, ownerEdits>>
    BY <1>11 DEF ReadbackAdvances, FinalReadback, NextPhase, LoopDone, remote, budget
  <2>2. Orderly
    BY <1>3, <2>1
  <2>3. \A n : Evident(n)' <=> Evident(n)
    BY <2>1 DEF Evident, Evidence
  <2>4. Shown /\ Fresh'
    BY <2>1, <2>2 DEF Orderly, Older, Fresh, Observed
  <2>5. QED
    BY <1>4, <2>1, <2>3, <2>4
<1>12. CASE LateEffect
  <2>1. PICK req \in late : /\ Executable(req) /\ Commit(AfterEffect(req))
                            /\ late' = late \ {req}
                            /\ UNCHANGED <<latest, session, budget>>
    BY <1>12 DEF LateEffect
  <2>2. Orderly
    BY <1>3, <2>1 DEF budget
  <2>3. /\ req \in Request /\ RequestSound(req) /\ Fits(req, gh)
    BY <1>1, <2>2 DEF SafetyInv, TypeInv, TypeOK, Orderly
  <2>4. PICK k \in Ids : req.op = Ops[k]
    BY <2>3 DEF RequestSound
  <2>5. \A n : Evident(n)' <=> Evident(n)
    BY <2>1 DEF Evident, Evidence, session
  <2>6. k \in CreateIds => Evident(k)
    BY <2>2, <2>4 DEF Orderly, Once
  <2>7. /\ AllowedProgress(Plan, gh)' /\ Once'
        /\ (\A r \in late : Fits(r, gh))'
        /\ Older(view, gh)'
        /\ \A lists : Older(lists, gh) => Older(lists, gh')
    BY <1>1, <2>1, <2>2, <2>3, <2>4, <2>5, <2>6, RemoteTakes
  <2>8. pc' # "idle" => Older(current'.lists, gh')
    BY <2>1, <2>2, <2>7 DEF Orderly, session
  <2>9. Fresh'
    BY <2>1, <2>2, <2>5 DEF Orderly, Fresh, session, CreateIds
  <2>10. QED
    BY <2>7, <2>8, <2>9 DEF Orderly, Older
<1>13. CASE (\E l \in ListIds : CatchUp(l)) \/ UNCHANGED vars
  <2>1. /\ UNCHANGED <<gh, late, latest, session, crashes, ownerEdits>>
        /\ view' = view \/ \E l \in ListIds : view' = [view EXCEPT ![l] = gh.lists[l]]
    BY <1>13 DEF CatchUp, vars, budget, session
  <2>2. Orderly
    BY <1>3, <2>1
  <2>3. \A n : Evident(n)' <=> Evident(n)
    BY <2>1 DEF Evident, Evidence, session
  <2>4. Older(view', gh)
    BY <1>1, <2>1, <2>2 DEF Orderly, Older, Live, TypeInv, TypeOK, ListTable
  <2>5. Shown /\ Fresh'
    BY <2>1, <2>2, <2>3, <2>4 DEF Orderly, Older, Fresh, session, CreateIds
  <2>6. QED
    BY <1>4, <2>1, <2>3, <2>5
<1>14. QED
  BY <1>a, <1>2, <1>5, <1>6, <1>7, <1>8, <1>9, <1>10, <1>11, <1>12, <1>13
     DEF Next, Session, Attempt

\* The sealed account is an allowed progress from itself, and lacks every List
\* the plan creates.
LEMMA OrderlyInit == Init => OrderlyInv
<1> SUFFICES ASSUME Init
             PROVE  OrderlyInv
  OBVIOUS
<1>1. ReceiptInv
  BY SafetyInit DEF ReceiptInv, Init, NoLatest
<1>2. WellSealed(Plan) /\ Plan.baseline \in AccountState
  BY PlanAssumption, PlanFacts
<1>3. AllowedProgress(Plan, Plan.baseline)
  BY <1>2 DEF AllowedProgress, StarsProgress, BaselineListsKept,
     NewListsPlanned, MembersProgress, BaselineMembers, WellSealed
<1>4. Older(view, gh) /\ pc = "idle" /\ late = {} /\ gh = Plan.baseline
  BY DEF Init, Older
<1>5. ASSUME NEW n \in CreateIds
      PROVE  Named(Plan.baseline.lists, Ops[n].slug) = {}
  <2>1. Ops[n] \in Operation /\ Ops[n].kind = "create-list"
    BY PlanFacts DEF CreateIds
  <2>2. Ops[n].slug \in Slugs /\ Ops[n] = CreateOp(Ops[n].slug)
    BY <2>1 DEF Operation, CreateOp
  <2>3. Plans(Plan, CreateOp(Ops[n].slug))
    BY <2>2 DEF Plans, CreateIds, Ops, Ids
  <2>4. QED
    BY <1>2, <2>2, <2>3 DEF WellSealed
<1>6. Once /\ Fresh
  BY <1>4, <1>5 DEF Once, Fresh
<1>7. QED
  BY <1>1, <1>3, <1>4, <1>6 DEF OrderlyInv, Orderly

\* As long as no session dies and the owner stays away, the account itself is
\* at every instant an allowed progress from the sealed one: no List twice,
\* none under a name that is not planned, no membership lost or misplaced;
\* however stale the reads, whatever fails, and whenever GitHub executes a
\* request.  The premise is needed (run apply_duplicate).
THEOREM AccountAlwaysAllowed ==
    ASSUME MaxCrashes = 0
    PROVE  Spec => []AccountStaysAllowed
<1> DEFINE Inv == OrderlyInv /\ crashes = 0
<1>1. Init => Inv
  BY OrderlyInit DEF Init
<1>2. Inv /\ [Next]_vars => Inv'
  <2> SUFFICES ASSUME Inv, [Next]_vars
               PROVE  Inv'
    OBVIOUS
  <2>1. ReceiptInv'
    BY ReceiptStep DEF OrderlyInv
  <2>2. crashes' = 0
    <3>1. ~Crash
      BY DEF Crash
    <3>2. TypeInv
      BY DEF OrderlyInv, ReceiptInv, SafetyInv
    <3>3. CASE OwnerEdit
      BY <3>2, <3>3, OwnerType DEF TypeInv
    <3>4. CASE Session
      BY <3>4 DEF Session, StartSession, StartSatisfied, Attempt, AttemptSucceeds,
         AttemptLosesResponse, AttemptHasNoEffect, AttemptIsDelayed, Attempted,
         RecordSuccess, RecordFailure, FinishWithReadback, FinishWithoutReadback,
         ReadbackFails, ReadbackMismatch, ReadbackAdvances, FinalReadback,
         RecordComplete, TargetMissing, budget
    <3>5. CASE LateEffect \/ (\E l \in ListIds : CatchUp(l)) \/ UNCHANGED vars
      BY <3>5 DEF LateEffect, CatchUp, budget, vars
    <3>6. QED
      BY <3>1, <3>3, <3>4, <3>5 DEF Next
  <2>3. Quiet' => Orderly'
    BY OrderlyStep DEF OrderlyInv
  <2>4. QED
    BY <2>1, <2>2, <2>3 DEF OrderlyInv
<1>3. Inv => AccountStaysAllowed
  BY DEF OrderlyInv, Quiet, Orderly, AccountStaysAllowed
<1>4. QED
  BY <1>1, <1>2, <1>3, PTL DEF Spec

-----------------------------------------------------------------------------
(* The refinement.  When the Lists query does not lag, nothing is executed *)
(* late and the owner stays away, the operations in place are always the   *)
(* first ones of the plan (Upto), because a session only starts a loop when *)
(* the loops before it are done, and attempts the operations of its loop in *)
(* the order of the plan (NextIsDue).  A session knows what is in place     *)
(* although it does not read the account again within a loop: what it read *)
(* plus what it attempted since (Knows); and it knows the memberships       *)
(* exactly, or the whole sets of Lists it sends would take some away.       *)

\* The first k operations are in place and no other.
Upto(k) == \A n \in Ids : Satisfied(Ops[n], gh) <=> n <= k

\* The loops that come before the one of an operation kind.
Before(kind) == CASE kind = "create-list" -> {}
                  [] kind = "star-repository" -> {"create-list"}
                  [] kind = "add-membership" -> {"create-list", "star-repository"}

\* Of its own loop a session knows to be in place what it read to be, and what
\* it attempted up to position m.
Knows(m) ==
    \A n \in Ids : Ops[n].kind = phase =>
        (Satisfied(Ops[n], gh) <=> Satisfied(Ops[n], current) \/ n <= m)

InStep ==
    /\ AllowedProgress(Plan, gh)
    /\ \E k \in 0 .. Len(Ops) : Upto(k)
    /\ pc \in {"attempt", "record"} =>
          \A n \in Ids : Ops[n].kind \in Before(phase) => Satisfied(Ops[n], gh)
    /\ pc = "attempt" =>
          /\ Knows(idx - 1)
          /\ phase = "add-membership" => current = gh
    /\ pc = "record" /\ outcome = "succeeded" =>
          /\ Knows(idx)
          /\ phase = "add-membership" =>
                gh = Materialize(current, Ops[idx].repo,
                                 RequestedUnion(Ops[idx], current))
    /\ pc = "complete" \/ latest.status = "complete" => Pending(Plan, gh) = {}
    /\ pc \in {"attempt", "record", "finish"} => latest.status # "complete"

Undisturbed == view = gh.lists /\ late = {} /\ ownerEdits = 0

AdditiveInv == ReceiptInv /\ Undisturbed /\ InStep

\* Operations that agree are the same.
LEMMA OperationsAgree ==
    ASSUME NEW op \in Operation, NEW other \in Operation, op.kind = other.kind,
           op.kind # "star-repository" => op.slug = other.slug,
           op.kind # "create-list" => op.repo = other.repo
    PROVE  op = other
<1>1. CASE op.kind = "create-list"
  <2>1. op = [kind |-> "create-list", slug |-> op.slug]
    BY <1>1 DEF Operation
  <2>2. other = [kind |-> "create-list", slug |-> other.slug]
    BY <1>1 DEF Operation
  <2>3. QED
    BY <1>1, <2>1, <2>2
<1>2. CASE op.kind = "star-repository"
  <2>1. op = [kind |-> "star-repository", repo |-> op.repo]
    BY <1>2 DEF Operation
  <2>2. other = [kind |-> "star-repository", repo |-> other.repo]
    BY <1>2 DEF Operation
  <2>3. QED
    BY <1>2, <2>1, <2>2
<1>3. CASE op.kind = "add-membership"
  <2>1. op = [kind |-> "add-membership", slug |-> op.slug, repo |-> op.repo]
    BY <1>3 DEF Operation
  <2>2. other = [kind |-> "add-membership", slug |-> other.slug, repo |-> other.repo]
    BY <1>3 DEF Operation
  <2>3. QED
    BY <1>3, <2>1, <2>2
<1>4. QED
  BY <1>1, <1>2, <1>3, OperationFields DEF Kinds

\* What an addition of the abstract account puts in place: its own operation.
LEMMA AddedSatisfies ==
    ASSUME gh \in AccountState, NEW op \in Operation, NEW other \in Operation,
           Additive!Added(op)
    PROVE  Satisfied(other, gh') <=> Satisfied(other, gh) \/ other = op
<1>1. CASE op.kind = "create-list"
  <2>1. PICK fresh \in ListIds :
            /\ gh.lists[fresh].status = "unborn"
            /\ gh' = [gh EXCEPT !.lists[fresh] =
                  [status |-> "live", name |-> op.slug,
                   conforming |-> TRUE, members |-> {}]]
    BY <1>1 DEF Additive!Added
  <2>2. /\ gh'.starred = gh.starred
        /\ gh'.lists[fresh] = [status |-> "live", name |-> op.slug,
                               conforming |-> TRUE, members |-> {}]
        /\ \A l \in ListIds \ {fresh} : gh'.lists[l] = gh.lists[l]
    BY <2>1 DEF AccountState, ListTable
  <2>3. /\ gh'.lists[fresh].status = "live" /\ gh'.lists[fresh].name = op.slug
        /\ gh'.lists[fresh].members = {}
    BY <2>2
  <2>4. /\ Live(gh'.lists) = Live(gh.lists) \cup {fresh}
        /\ fresh \notin Live(gh.lists) /\ Live(gh.lists) \subseteq ListIds \ {fresh}
    BY <2>1, <2>2, <2>3 DEF Live
  <2>5. \A name : Named(gh'.lists, name) =
                      Named(gh.lists, name) \cup (IF name = op.slug THEN {fresh} ELSE {})
    BY <2>2, <2>3, <2>4 DEF Named
  <2>6. \A repo, name : IsMember(repo, name, gh'.lists) <=> IsMember(repo, name, gh.lists)
    BY <2>2, <2>3, <2>4, <2>5 DEF IsMember, Named
  <2>7. op.slug = other.slug /\ other.kind = "create-list" => other = op
    BY <1>1, OperationsAgree
  <2>8. QED
    BY <1>1, <2>2, <2>5, <2>6, <2>7 DEF Satisfied
<1>2. CASE op.kind = "star-repository"
  <2>1. gh' = [gh EXCEPT !.starred = @ \cup {op.repo}]
    BY <1>2 DEF Additive!Added
  <2>2. gh'.starred = gh.starred \cup {op.repo} /\ gh'.lists = gh.lists
    BY <2>1 DEF AccountState
  <2>3. op.repo = other.repo /\ other.kind = "star-repository" => other = op
    BY <1>2, OperationsAgree
  <2>4. QED
    BY <1>2, <2>2, <2>3 DEF Satisfied
<1>3. CASE op.kind = "add-membership"
  <2>1. PICK l \in Named(gh.lists, op.slug) :
            gh' = [gh EXCEPT !.lists[l].members = @ \cup {op.repo}]
    BY <1>3 DEF Additive!Added, Additive!Named, Additive!Live, Named, Live
  <2>2. l \in ListIds /\ l \in Live(gh.lists) /\ gh.lists[l].name = op.slug
    BY DEF Named, Live
  <2>3. /\ gh'.starred = gh.starred
        /\ gh'.lists[l].members = gh.lists[l].members \cup {op.repo}
        /\ gh'.lists[l].status = gh.lists[l].status
        /\ gh'.lists[l].name = gh.lists[l].name
        /\ \A m \in ListIds \ {l} : gh'.lists[m] = gh.lists[m]
    BY <2>1, <2>2 DEF AccountState, ListTable, ListState
  <2>4. \A m \in ListIds : /\ gh'.lists[m].status = gh.lists[m].status
                           /\ gh'.lists[m].name = gh.lists[m].name
    BY <2>3
  <2>5. Live(gh'.lists) = Live(gh.lists) /\ Live(gh.lists) \subseteq ListIds
    BY <2>4 DEF Live
  <2>6. \A name : Named(gh'.lists, name) = Named(gh.lists, name)
    BY <2>4, <2>5 DEF Named
  <2>7. \A repo, name : IsMember(repo, name, gh'.lists)
            <=> IsMember(repo, name, gh.lists) \/ (repo = op.repo /\ name = op.slug)
    <3>1. TAKE repo, name
    <3>2. ASSUME NEW m \in Named(gh.lists, name), repo \in gh'.lists[m].members
          PROVE  IsMember(repo, name, gh.lists) \/ (repo = op.repo /\ name = op.slug)
      <4>1. CASE m = l
        BY <2>2, <2>3, <3>2, <4>1 DEF IsMember, Named
      <4>2. CASE m # l
        BY <2>3, <2>5, <3>2, <4>2 DEF IsMember, Named
      <4>3. QED
        BY <4>1, <4>2
    <3>3. ASSUME NEW m \in Named(gh.lists, name), repo \in gh.lists[m].members
          PROVE  repo \in gh'.lists[m].members
      <4>1. CASE m = l
        BY <2>3, <3>3, <4>1
      <4>2. CASE m # l
        BY <2>3, <2>5, <3>3, <4>2 DEF Named
      <4>3. QED
        BY <4>1, <4>2
    <3>4. op.repo \in gh'.lists[l].members /\ l \in Named(gh'.lists, op.slug)
      BY <2>1, <2>3, <2>6
    <3>5. QED
      BY <2>6, <3>2, <3>3, <3>4 DEF IsMember
  <2>8. op.repo = other.repo /\ op.slug = other.slug /\ other.kind = "add-membership"
            => other = op
    BY <1>3, OperationsAgree
  <2>9. QED
    BY <1>3, <2>3, <2>6, <2>7, <2>8 DEF Satisfied
<1>4. QED
  BY <1>1, <1>2, <1>3, OperationFields DEF Kinds

\* What is in place is counted by its position.
LEMMA InPlaceCounts ==
    ASSUME NEW k \in 0 .. Len(Ops), Upto(k)
    PROVE  /\ InPlace = 1 .. k
           /\ Cardinality(InPlace) = k
           /\ Pending(Plan, gh) = {} <=> k = Len(Ops)
<1>1. Len(Ops) \in Nat /\ Ids = 1 .. Len(Ops)
  BY PlanFacts
<1>2. InPlace = 1 .. k
  BY <1>1 DEF InPlace, Upto
<1>3. Cardinality(1 .. k) = k
  BY FS_Interval
<1>4. Pending(Plan, gh) = Ids \ (1 .. k)
  BY <1>1 DEF Upto, Pending, Ids, Ops
<1>5. Ids \ (1 .. k) = {} <=> k = Len(Ops)
  <2>1. CASE k = Len(Ops)
    BY <1>1, <2>1
  <2>2. CASE k # Len(Ops)
    <3>1. k + 1 \in Ids \ (1 .. k)
      BY <1>1, <2>2
    <3>2. QED
      BY <2>2, <3>1
  <2>3. QED
    BY <2>1, <2>2
<1>6. QED
  BY <1>2, <1>3, <1>4, <1>5

\* Creates come first in the plan, memberships last.
LEMMA SealedInOrder ==
    \A m, n \in Ids : m < n =>
        /\ Ops[n].kind = "create-list" => Ops[m].kind = "create-list"
        /\ Ops[m].kind = "add-membership" => Ops[n].kind = "add-membership"
<1>1. KindsInOrder(Plan.ops)
  BY PlanAssumption DEF WellSealed
<1>2. Ids = DOMAIN Plan.ops /\ Ops = Plan.ops
  BY DEF Ops, Ids, OpIds
<1>3. QED
  BY <1>1, <1>2, Zenon DEF KindsInOrder

\* The operation a session attempts is the first that is not in place.
LEMMA NextIsDue ==
    ASSUME TypeInv, InStep, NEW n \in Ids, Attempting(n),
           NEW k \in 0 .. Len(Ops), Upto(k)
    PROVE  /\ n = k + 1
           /\ ~Satisfied(Ops[n], gh)
           /\ Ops[n].kind = phase
           /\ \A m \in Ids : Ops[m].kind = phase =>
                  (Satisfied(Ops[m], current) \/ m <= idx - 1 \/ m = n
                       <=> Satisfied(Ops[m], current) \/ m <= n)
<1>1. /\ pc = "attempt" /\ Knows(idx - 1) /\ idx \in Nat \ {0}
      /\ \A m \in Ids : Ops[m].kind \in Before(phase) => Satisfied(Ops[m], gh)
  BY DEF InStep, TypeInv, TypeOK, Attempting
<1>2. Len(Ops) \in Nat /\ Ids = 1 .. Len(Ops) /\ n \in Nat
  BY PlanFacts
<1>3. n \in Todo /\ \A m \in Todo : n <= m
  <2>1. Todo \in SUBSET Nat /\ Todo # {}
    BY <1>2 DEF Todo, Attempting
  <2>2. QED
    BY <2>1, LeastProperties DEF Attempting
<1>4. n >= idx /\ Ops[n].kind = phase /\ ~Satisfied(Ops[n], current)
  BY <1>3 DEF Todo
<1>5. ~Satisfied(Ops[n], gh)
  BY <1>1, <1>2, <1>4 DEF Knows
<1>6. ASSUME NEW m \in Ids, Ops[m].kind = phase, m < n
      PROVE  Satisfied(Ops[m], current) \/ m <= idx - 1
  BY <1>1, <1>2, <1>3, <1>6 DEF Todo
<1>7. ASSUME NEW m \in Ids, m < n
      PROVE  Satisfied(Ops[m], gh)
  <2>1. CASE Ops[m].kind = phase
    BY <1>1, <1>6, <1>7, <2>1 DEF Knows
  <2>2. CASE Ops[m].kind # phase
    <3>1. /\ Ops[n].kind = "create-list" => Ops[m].kind = "create-list"
          /\ Ops[m].kind = "add-membership" => Ops[n].kind = "add-membership"
      BY <1>7, SealedInOrder
    <3>3. Ops[m].kind \in Kinds /\ Ops[n].kind \in Kinds
      BY PlanFacts, OperationFields
    <3>4. Ops[m].kind \in Before(phase)
      BY <1>4, <2>2, <3>1, <3>3 DEF Before, Kinds
    <3>5. QED
      BY <1>1, <3>4
  <2>3. QED
    BY <2>1, <2>2
<1>8. n = k + 1
  <2>1. n > k
    BY <1>2, <1>5 DEF Upto
  <2>2. ASSUME n > k + 1 PROVE FALSE
    <3>1. k + 1 \in Ids /\ k + 1 < n
      BY <1>2, <2>2
    <3>2. k + 1 <= k
      BY <1>7, <3>1 DEF Upto
    <3>3. QED
      BY <3>2
  <2>3. QED
    BY <1>2, <2>1, <2>2
<1>9. \A m \in Ids : Ops[m].kind = phase =>
          (Satisfied(Ops[m], current) \/ m <= idx - 1 \/ m = n
               <=> Satisfied(Ops[m], current) \/ m <= n)
  BY <1>1, <1>2, <1>4, <1>6
<1>10. QED
  BY <1>4, <1>5, <1>8, <1>9

\* The List a planned membership is to go into exists once the creates are in
\* place.
LEMMA TargetIsThere ==
    ASSUME AllowedProgress(Plan, gh), NEW n \in Ids, Ops[n].kind = "add-membership",
           \A m \in CreateIds : Satisfied(Ops[m], gh)
    PROVE  Named(gh.lists, Ops[n].slug) # {}
<1>1. Ops[n].slug \in Slugs
  BY MembershipIsDesired
<1>2. CASE Named(Sealed, Ops[n].slug) # {}
  BY <1>1, <1>2, SealedListsFound
<1>3. CASE Named(Sealed, Ops[n].slug) = {}
  <2>1. Plans(Plan, CreateOp(Ops[n].slug))
    BY <1>1, <1>3, PlanAssumption DEF WellSealed, Sealed
  <2>2. PICK m \in Ids : Ops[m] = CreateOp(Ops[n].slug)
    BY <2>1 DEF Plans, Ids, Ops
  <2>3. Ops[m].kind = "create-list" /\ Ops[m].slug = Ops[n].slug
    BY <2>2 DEF CreateOp
  <2>4. Satisfied(Ops[m], gh)
    BY <2>3 DEF CreateIds
  <2>5. QED
    BY <2>3, <2>4 DEF Satisfied
<1>4. QED
  BY <1>2, <1>3

\* A membership request built from what the account is adds one membership.
LEMMA UnionAddsOne ==
    ASSUME gh \in AccountState, TargetsResolve(gh.lists), NEW n \in Ids,
           Ops[n].kind = "add-membership", Named(gh.lists, Ops[n].slug) # {}
    PROVE  LET sent == RequestedUnion(Ops[n], gh)
           IN  /\ ReplaceMemberships(gh, Ops[n].repo, sent)
                      = Materialize(gh, Ops[n].repo, sent)
               /\ \E l \in Named(gh.lists, Ops[n].slug) :
                     Materialize(gh, Ops[n].repo, sent)
                        = [gh EXCEPT !.lists[l].members = @ \cup {Ops[n].repo}]
<1> DEFINE repo == Ops[n].repo
           sent == RequestedUnion(Ops[n], gh)
<1>1. Ops[n].slug \in Slugs
  BY MembershipIsDesired
<1>2. PICK target \in Named(gh.lists, Ops[n].slug) : TRUE
  OBVIOUS
<1>3. \A l \in Named(gh.lists, Ops[n].slug) : l = target
  BY <1>1 DEF TargetsResolve
<1>4. sent = MembershipsOf(repo, gh.lists) \cup {target}
  BY <1>3 DEF RequestedUnion
<1>5. /\ target \in Live(gh.lists) /\ target \in ListIds
      /\ sent \subseteq Live(gh.lists) /\ Live(gh.lists) \subseteq ListIds
  BY <1>4 DEF Named, MembershipsOf, Live
<1>6. /\ gh.lists \in [ListIds -> ListState]
      /\ \A l \in ListIds :
            gh.lists[l] = [status |-> gh.lists[l].status, name |-> gh.lists[l].name,
                           conforming |-> gh.lists[l].conforming,
                           members |-> gh.lists[l].members]
  BY DEF AccountState, ListTable, ListState
<1>7. \A l \in Live(gh.lists) : l \in sent <=> repo \in gh.lists[l].members \/ l = target
  BY <1>4, <1>5 DEF MembershipsOf
<1> DEFINE Replaced(l) ==
               IF l \notin Live(gh.lists) THEN gh.lists[l]
               ELSE IF l \in sent
               THEN [gh.lists[l] EXCEPT !.members = @ \cup {repo}]
               ELSE [gh.lists[l] EXCEPT !.members = @ \ {repo}]
           Carried(l) == IF l \in sent
                         THEN [gh.lists[l] EXCEPT !.members = @ \cup {repo}]
                         ELSE gh.lists[l]
           Added(l) == IF l = target
                       THEN [gh.lists[l] EXCEPT !.members = @ \cup {repo}]
                       ELSE gh.lists[l]
<1> HIDE DEF sent
<1>8. ASSUME NEW l \in ListIds
      PROVE  Replaced(l) = Added(l) /\ Carried(l) = Added(l)
  <2>1. l \in sent => [gh.lists[l] EXCEPT !.members = @ \cup {repo}] = Added(l)
    <3>1. CASE l = target
      BY <3>1
    <3>2. CASE l # target /\ l \in sent
      <4>1. gh.lists[l].members \cup {repo} = gh.lists[l].members
        BY <1>5, <1>7, <3>2
      <4>2. [gh.lists[l] EXCEPT !.members = @ \cup {repo}] = gh.lists[l]
        BY <1>6, <4>1
      <4>3. QED
        BY <3>2, <4>2
    <3>3. QED
      BY <3>1, <3>2
  <2>2. l \notin sent => l # target
    BY <1>4
  <2>3. l \in Live(gh.lists) /\ l \notin sent =>
            [gh.lists[l] EXCEPT !.members = @ \ {repo}] = gh.lists[l]
    <3>1. SUFFICES ASSUME l \in Live(gh.lists), l \notin sent
                   PROVE  [gh.lists[l] EXCEPT !.members = @ \ {repo}] = gh.lists[l]
      OBVIOUS
    <3>2. gh.lists[l].members \ {repo} = gh.lists[l].members
      BY <1>7, <3>1
    <3>3. QED
      BY <1>6, <3>2
  <2>4. l \in sent => l \in Live(gh.lists)
    BY <1>5
  <2> HIDE DEF Added
  <2>5. l \notin sent => Added(l) = gh.lists[l]
    BY <2>2 DEF Added
  <2>6. QED
    BY <2>1, <2>3, <2>4, <2>5
<1>9. /\ [l \in ListIds |-> Replaced(l)] = [l \in ListIds |-> Added(l)]
      /\ [l \in ListIds |-> Carried(l)] = [l \in ListIds |-> Added(l)]
  <2> HIDE DEF Replaced, Carried, Added
  <2>1. QED
    BY <1>8
<1>10. [gh EXCEPT !.lists[target].members = @ \cup {repo}]
           = [gh EXCEPT !.lists = [l \in ListIds |-> Added(l)]]
  <2>1. [gh.lists EXCEPT ![target].members = @ \cup {repo}]
            = [l \in ListIds |-> Added(l)]
    BY <1>5, <1>6
  <2>2. QED
    BY <2>1 DEF AccountState
<1>11. /\ ReplaceMemberships(gh, repo, sent)
             = [gh EXCEPT !.lists = [l \in ListIds |-> Replaced(l)]]
       /\ Materialize(gh, repo, sent)
             = [gh EXCEPT !.lists = [l \in ListIds |-> Carried(l)]]
  BY DEF ReplaceMemberships, Materialize
<1> HIDE DEF Replaced, Carried, Added
<1>12. /\ ReplaceMemberships(gh, repo, sent) = Materialize(gh, repo, sent)
       /\ Materialize(gh, repo, sent)
              = [gh EXCEPT !.lists[target].members = @ \cup {repo}]
  BY <1>9, <1>10, <1>11
<1>13. QED
  BY <1>2, <1>12 DEF sent

\* What GitHub makes of the request a session sends for the operation that is
\* due is the addition the plan seals.
LEMMA EffectAdds ==
    ASSUME ReceiptInv, InStep, NEW n \in Ids, Attempting(n),
           Executable(RequestFor(n)), gh' = AfterEffect(RequestFor(n))
    PROVE  /\ Additive!Added(Ops[n])
           /\ AllowedProgress(Plan, gh')
           /\ phase = "add-membership" =>
                  gh' = Materialize(current, Ops[n].repo, RequestedUnion(Ops[n], current))
<1>1. TypeInv /\ SafetyInv /\ gh \in AccountState /\ pc = "attempt"
  BY DEF ReceiptInv, SafetyInv, TypeInv, TypeOK, Attempting
<1>2. AllowedProgress(Plan, gh) /\ TargetsResolve(gh.lists)
  BY DEF InStep, AllowedProgress
<1>3. PICK k \in 0 .. Len(Ops) : Upto(k)
  BY DEF InStep
<1>4. ~Satisfied(Ops[n], gh) /\ Ops[n].kind = phase
  BY <1>1, <1>3, NextIsDue
<1>5. RequestFor(n) \in Request /\ RequestFor(n).op = Ops[n] /\ RequestSound(RequestFor(n))
  <2>1. StateSound
    BY <1>1 DEF SafetyInv
  <2>2. QED
    BY <1>1, <2>1, RequestForType, RequestForIsSound
<1>6. CASE Ops[n].kind = "create-list"
  <2>1. gh' = CreateList(gh, Ops[n].slug, TRUE) /\ UnbornIds(gh.lists) # {}
    BY <1>5, <1>6 DEF AfterEffect, Executable
  <2>2. Named(gh.lists, Ops[n].slug) = {}
    BY <1>4, <1>6 DEF Satisfied
  <2>3. AllowedProgress(Plan, gh')
    BY <1>1, <1>2, <1>5, <1>6, <2>1, <2>2, CreateIsAllowed DEF Allowed
  <2>4. Least(UnbornIds(gh.lists)) \in UnbornIds(gh.lists)
    <3>1. UnbornIds(gh.lists) \in SUBSET Nat
      BY ListIdsAssumption DEF UnbornIds
    <3>2. QED
      BY <2>1, <3>1, LeastProperties
  <2>5. Additive!Added(Ops[n])
    <3>1. PICK l : l = Least(UnbornIds(gh.lists))
      OBVIOUS
    <3>2. l \in ListIds /\ gh.lists[l].status = "unborn"
      BY <2>4, <3>1 DEF UnbornIds
    <3>3. gh' = [gh EXCEPT !.lists[l] = [status |-> "live", name |-> Ops[n].slug,
                                         conforming |-> TRUE, members |-> {}]]
      BY <2>1, <3>1 DEF CreateList
    <3>4. QED
      BY <1>6, <3>2, <3>3 DEF Additive!Added
  <2>6. QED
    BY <1>4, <1>6, <2>3, <2>5
<1>7. CASE Ops[n].kind = "star-repository"
  <2>1. gh' = [gh EXCEPT !.starred = @ \cup {Ops[n].repo}]
    BY <1>5, <1>7 DEF AfterEffect
  <2>2. AllowedProgress(Plan, gh')
    BY <1>1, <1>2, <1>5, <1>7, <2>1, StarIsAllowed DEF Allowed
  <2>3. Additive!Added(Ops[n])
    BY <1>7, <2>1 DEF Additive!Added
  <2>4. QED
    BY <1>4, <1>7, <2>2, <2>3
<1>8. CASE Ops[n].kind = "add-membership"
  <2>1. current = gh
    BY <1>1, <1>4, <1>8 DEF InStep
  <2>2. \A m \in CreateIds : Satisfied(Ops[m], gh)
    BY <1>1, <1>4, <1>8 DEF InStep, Before, CreateIds
  <2>3. Named(gh.lists, Ops[n].slug) # {}
    BY <1>2, <1>8, <2>2, TargetIsThere
  <2>4. PICK sent : sent = RequestedUnion(Ops[n], gh)
    OBVIOUS
  <2>5. RequestFor(n).lists = sent
    BY <1>8, <2>1, <2>4 DEF RequestFor
  <2>6. gh' = ReplaceMemberships(gh, Ops[n].repo, sent)
    BY <1>5, <1>8, <2>5 DEF AfterEffect
  <2>7. /\ gh' = Materialize(gh, Ops[n].repo, sent)
        /\ \E l \in Named(gh.lists, Ops[n].slug) :
              gh' = [gh EXCEPT !.lists[l].members = @ \cup {Ops[n].repo}]
    BY <1>1, <1>2, <1>8, <2>3, <2>4, <2>6, UnionAddsOne
  <2>8. Additive!Added(Ops[n])
    BY <1>8, <2>7 DEF Additive!Added, Additive!Named, Additive!Live, Named, Live
  <2>9. Fits(RequestFor(n), gh)
    <3>1. Ops[n].slug \in Plan.desired[Ops[n].repo] /\ Ops[n].repo \in Repos
      BY <1>8, MembershipIsDesired
    <3>2. ASSUME NEW l \in MembershipsOf(Ops[n].repo, gh.lists)
          PROVE  /\ l \in Live(gh.lists)
                 /\ \/ Ops[n].repo \in BaselineMembers(Plan, l)
                    \/ gh.lists[l].name \in Plan.desired[Ops[n].repo]
      BY <1>2 DEF AllowedProgress, MembersProgress, AllowedMembers, MembershipsOf
    <3>3. ASSUME NEW l \in Named(gh.lists, Ops[n].slug)
          PROVE  l \in Live(gh.lists) /\ gh.lists[l].name \in Plan.desired[Ops[n].repo]
      BY <3>1 DEF Named
    <3>4. QED
      BY <1>5, <1>8, <2>4, <2>5, <3>2, <3>3 DEF Fits, RequestedUnion
  <2>10. AllowedProgress(Plan, gh')
    BY <1>1, <1>2, <1>5, <1>8, <2>5, <2>6, <2>9, MembershipIsAllowed DEF Allowed
  <2>11. QED
    BY <2>1, <2>4, <2>7, <2>8, <2>10
<1>9. QED
  BY <1>6, <1>7, <1>8, PlanFacts, OperationFields DEF Kinds

\* An attempt that GitHub executes puts the operation that is due in place.
LEMMA AttemptTakes ==
    ASSUME ReceiptInv, InStep, NEW n \in Ids, Attempting(n),
           Executable(RequestFor(n)), gh' = AfterEffect(RequestFor(n)),
           NEW k \in 0 .. Len(Ops), Upto(k)
    PROVE  n = k + 1 /\ k + 1 \in 0 .. Len(Ops) /\ Upto(k + 1)'
<1>1. TypeInv /\ gh \in AccountState
  BY DEF ReceiptInv, SafetyInv, TypeInv, TypeOK
<1>2. n = k + 1
  BY <1>1, NextIsDue
<1>3. Len(Ops) \in Nat /\ Ids = 1 .. Len(Ops) /\ \A m \in Ids : Ops[m] \in Operation
  BY PlanFacts
<1>4. Additive!Added(Ops[n])
  BY EffectAdds
<1>5. \A m \in Ids : Satisfied(Ops[m], gh') <=> Satisfied(Ops[m], gh) \/ Ops[m] = Ops[n]
  BY <1>1, <1>3, <1>4, AddedSatisfies
<1>6. \A m \in Ids : Ops[m] = Ops[n] => m = n
  BY PlanAssumption DEF WellSealed, Ids, Ops
<1>7. \A m \in Ids : Satisfied(Ops[m], gh') <=> m <= k + 1
  BY <1>2, <1>3, <1>5, <1>6 DEF Upto
<1>8. QED
  BY <1>2, <1>3, <1>7 DEF Upto

\* Facts of the account alone survive a step that leaves it alone.
LEMMA InPlaceStays ==
    ASSUME gh' = gh
    PROVE  /\ AllowedProgress(Plan, gh) => AllowedProgress(Plan, gh)'
           /\ \A k : Upto(k) => Upto(k)'
           /\ \A n \in Ids : Satisfied(Ops[n], gh) => Satisfied(Ops[n], gh)'
           /\ Pending(Plan, gh) = {} => (Pending(Plan, gh) = {})'
           /\ InPlace' = InPlace
<1>1. AllowedProgress(Plan, gh) => AllowedProgress(Plan, gh)'
  BY DEF AllowedProgress, StarsProgress, BaselineListsKept,
         NewListsPlanned, MembersProgress, BaselineMembers, AllowedMembers
<1>2. \A n \in Ids : Satisfied(Ops[n], gh)' <=> Satisfied(Ops[n], gh)
  BY DEF Satisfied
<1>3. (\A k : Upto(k) => Upto(k)') /\ InPlace' = InPlace
  BY <1>2 DEF Upto, InPlace
<1>4. Pending(Plan, gh) = {} => (Pending(Plan, gh) = {})'
  BY <1>2 DEF Pending, Ids, OpIds, Ops
<1>5. QED
  BY <1>1, <1>2, <1>3, <1>4

\* What an apply receipt other than a complete one says.
LEMMA ProgressIsIncomplete ==
    \A cursor, readback : Progress(cursor, readback).status # "complete"
  BY DEF Progress

\* A step of an attempt, whatever becomes of the request.
LEMMA AttemptedInStep ==
    ASSUME ReceiptInv, InStep, NEW n \in Ids, Attempting(n), NEW result,
           Attempted(n, result),
           \/ gh' = gh /\ result # "succeeded"
           \/ Executable(RequestFor(n)) /\ gh' = AfterEffect(RequestFor(n))
    PROVE  InStep'
<1>1. /\ pc = "attempt" /\ TypeInv /\ Knows(idx - 1) /\ latest.status # "complete"
      /\ \A m \in Ids : Ops[m].kind \in Before(phase) => Satisfied(Ops[m], gh)
  BY DEF Attempting, ReceiptInv, SafetyInv, InStep
<1>2. /\ pc' = "record" /\ idx' = n /\ outcome' = result /\ latest' = latest
      /\ phase' = phase /\ current' = current
  BY DEF Attempted
<1>3. PICK k \in 0 .. Len(Ops) : Upto(k)
  BY DEF InStep
<1>4. /\ n = k + 1
      /\ \A m \in Ids : Ops[m].kind = phase =>
             (Satisfied(Ops[m], current) \/ m <= idx - 1 \/ m = n
                  <=> Satisfied(Ops[m], current) \/ m <= n)
  BY <1>1, <1>3, NextIsDue
<1>5. CASE gh' = gh /\ result # "succeeded"
  <2>1. /\ AllowedProgress(Plan, gh)' /\ Upto(k)'
        /\ \A m \in Ids : Satisfied(Ops[m], gh) => Satisfied(Ops[m], gh)'
    BY <1>3, <1>5, InPlaceStays DEF InStep
  <2>2. \A m \in Ids : Ops[m].kind \in Before(phase') => Satisfied(Ops[m], gh')
    BY <1>1, <1>2, <2>1
  <2>3. QED
    BY <1>1, <1>2, <1>3, <1>5, <2>1, <2>2 DEF InStep
<1>6. CASE Executable(RequestFor(n)) /\ gh' = AfterEffect(RequestFor(n))
  <2>1. k + 1 \in 0 .. Len(Ops) /\ Upto(k + 1)'
    BY <1>3, <1>6, AttemptTakes
  <2>2. /\ AllowedProgress(Plan, gh')
        /\ phase = "add-membership" =>
               gh' = Materialize(current, Ops[n].repo, RequestedUnion(Ops[n], current))
    BY <1>6, EffectAdds
  <2>3. \A m \in Ids : Satisfied(Ops[m], gh') <=> Satisfied(Ops[m], gh) \/ m = n
    <3>1. Len(Ops) \in Nat /\ Ids = 1 .. Len(Ops)
      BY PlanFacts
    <3>2. QED
      BY <1>3, <1>4, <2>1, <3>1 DEF Upto
  <2>4. Knows(idx)'
    <3>1. SUFFICES ASSUME NEW m \in Ids, Ops[m].kind = phase
                   PROVE  Satisfied(Ops[m], gh') <=> Satisfied(Ops[m], current) \/ m <= n
      BY <1>2 DEF Knows
    <3>2. Satisfied(Ops[m], gh) <=> Satisfied(Ops[m], current) \/ m <= idx - 1
      BY <1>1, <3>1 DEF Knows
    <3>3. QED
      BY <1>4, <2>3, <3>1, <3>2
  <2>5. \A m \in Ids : Ops[m].kind \in Before(phase') => Satisfied(Ops[m], gh')
    BY <1>1, <1>2, <2>3
  <2>6. AllowedProgress(Plan, gh)'
    BY <2>2 DEF AllowedProgress, StarsProgress, BaselineListsKept,
       NewListsPlanned, MembersProgress, BaselineMembers, AllowedMembers
  <2>7. (phase = "add-membership" =>
            gh = Materialize(current, Ops[idx].repo, RequestedUnion(Ops[idx], current)))'
    BY <1>2, <2>2 DEF Materialize, RequestedUnion
  <2>8. QED
    BY <1>1, <1>2, <2>1, <2>4, <2>5, <2>6, <2>7 DEF InStep
<1>7. QED
  BY <1>5, <1>6

\* Where nobody else touches the account, only the session's steps remain.
LEMMA OnlySessions ==
    ASSUME MaxOwnerEdits = 0, ~Lag, ~Delays, TypeInv, Undisturbed, [Next]_vars
    PROVE  /\ Undisturbed'
           /\ Session \/ Crash \/ UNCHANGED vars
           /\ Observed = gh
<1>1. gh \in AccountState /\ ownerEdits \in Nat
  BY DEF TypeInv, TypeOK
<1>2. Observed = gh
  BY <1>1 DEF Undisturbed, Observed, AccountState
<1>3. ~OwnerEdit
  BY DEF Undisturbed, OwnerEdit, OwnerTogglesStar, OwnerTogglesMembership,
     OwnerEditsList, OwnerDeletesList, OwnerCommits
<1>4. ~LateEffect /\ ~(\E l \in ListIds : CatchUp(l)) /\ ~AttemptIsDelayed
  BY DEF Undisturbed, LateEffect, CatchUp, AttemptIsDelayed
<1>5. Session \/ Crash \/ UNCHANGED vars
  BY <1>3, <1>4 DEF Next
<1>6. ASSUME AttemptSucceeds \/ AttemptLosesResponse
      PROVE  Undisturbed'
  BY <1>6 DEF AttemptSucceeds, AttemptLosesResponse, Attempted, Commit, Undisturbed
<1>7. ASSUME AttemptHasNoEffect
      PROVE  Undisturbed'
  BY <1>7 DEF AttemptHasNoEffect, Attempted, remote, Undisturbed
<1>8. ASSUME \/ StartSession \/ StartSatisfied \/ RecordSuccess \/ RecordFailure
             \/ FinishWithReadback \/ FinishWithoutReadback
             \/ ReadbackFails \/ ReadbackMismatch \/ ReadbackAdvances
             \/ FinalReadback \/ RecordComplete \/ Crash \/ TargetMissing
      PROVE  Undisturbed'
  BY <1>8 DEF StartSession, StartSatisfied, RecordSuccess, RecordFailure,
     FinishWithReadback, FinishWithoutReadback, ReadbackFails,
     ReadbackMismatch, ReadbackAdvances, FinalReadback, RecordComplete, Crash,
     TargetMissing, remote, budget, Undisturbed
<1>9. ASSUME UNCHANGED vars
      PROVE  Undisturbed'
  BY <1>9 DEF vars, Undisturbed
<1>10. QED
  BY <1>2, <1>4, <1>5, <1>6, <1>7, <1>8, <1>9 DEF Session, Attempt

\* Every step of a session keeps it in step with the account, and is a step of
\* the abstract one or none at all.
Refines == Additive!Next \/ (/\ gh' = gh
                             /\ latest'.status = "complete" <=> latest.status = "complete")

LEMMA SessionStep ==
    ASSUME ReceiptInv, Undisturbed, InStep, Observed = gh, Session, ~AttemptIsDelayed
    PROVE  InStep' /\ Refines
<1>1. TypeInv
  BY DEF ReceiptInv, SafetyInv
<1>2. PICK k \in 0 .. Len(Ops) : Upto(k)
  BY DEF InStep
<1>3. /\ Len(Ops) \in Nat /\ Ids = 1 .. Len(Ops) /\ Ids \subseteq Nat \ {0}
      /\ \A n \in Ids : Ops[n] \in Operation
  BY PlanFacts
<1>4. ASSUME gh' = gh
      PROVE  /\ AllowedProgress(Plan, gh)' /\ Upto(k)' /\ k \in 0 .. Len(Ops)'
             /\ \A n \in Ids : Satisfied(Ops[n], gh) <=> Satisfied(Ops[n], gh')
             /\ Pending(Plan, gh) = {} => (Pending(Plan, gh) = {})'
             /\ \A readback : Pending(Plan, readback) = {} =>
                    (Pending(Plan, readback) = {})'
  <2>1. AllowedProgress(Plan, gh)' /\ Upto(k)'
    BY <1>2, <1>4, InPlaceStays DEF InStep
  <2>2. Pending(Plan, gh) = {} => (Pending(Plan, gh) = {})'
    BY <1>4, InPlaceStays
  <2>3. QED
    BY <1>2, <1>4, <2>1, <2>2 DEF Ops, Pending
<1>5. CASE StartSession
  <2>1. /\ pc' = "attempt" /\ phase' = "create-list" /\ idx' = 1 /\ current' = gh
        /\ gh' = gh /\ latest' = latest /\ Pending(Plan, gh) # {}
    BY <1>5 DEF StartSession, remote
  <2>2. latest.status # "complete"
    BY <2>1 DEF InStep
  <2>3. Knows(idx - 1)'
    BY <1>3, <2>1 DEF Knows
  <2>4. QED
    BY <1>2, <1>4, <2>1, <2>2, <2>3 DEF InStep, Refines, Before
<1>6. CASE StartSatisfied
  <2>1. /\ pc' = "complete" /\ gh' = gh /\ latest' = latest /\ Pending(Plan, gh) = {}
        /\ latest.status # "complete"
    BY <1>6 DEF StartSatisfied, remote
  <2>2. QED
    BY <1>2, <1>4, <2>1 DEF InStep, Refines
<1>7. CASE AttemptSucceeds \/ AttemptLosesResponse
  <2>1. PICK n \in Ids, result \in PossibleEffect :
            /\ Attempting(n) /\ Attempted(n, result)
            /\ Executable(RequestFor(n)) /\ gh' = AfterEffect(RequestFor(n))
    BY <1>7 DEF AttemptSucceeds, AttemptLosesResponse, PossibleEffect, Commit
  <2>2. InStep'
    BY <2>1, AttemptedInStep
  <2>3. Additive!Added(Ops[n])
    BY <2>1, EffectAdds
  <2>4. n = k + 1 /\ k + 1 \in 0 .. Len(Ops) /\ Upto(k + 1)'
    BY <1>2, <2>1, AttemptTakes
  <2>5. Cardinality(InPlace) = k
    BY <1>2, InPlaceCounts
  <2>6. Cardinality(InPlace') = k + 1
    <3>1. InPlace' = 1 .. k + 1
      BY <1>3, <2>4 DEF InPlace, Upto
    <3>2. QED
      BY <2>4, <3>1, FS_Interval
  <2>7. latest' = latest
    BY <2>1 DEF Attempted
  <2>8. Additive!Perform
    <3>1. Plan.ops[Cardinality(InPlace) + 1] = Ops[n] /\ Cardinality(InPlace) < Len(Plan.ops)
      BY <1>2, <1>3, <2>4, <2>5 DEF Ops
    <3>2. QED
      BY <2>3, <2>5, <2>6, <2>7, <3>1 DEF Additive!Perform
  <2>9. QED
    BY <2>2, <2>8 DEF Refines, Additive!Next
<1>8. CASE AttemptHasNoEffect
  <2>1. PICK n \in Ids, result \in {"failed", "indeterminate"} :
            Attempting(n) /\ Attempted(n, result) /\ gh' = gh
    BY <1>8 DEF AttemptHasNoEffect, remote
  <2>2. InStep'
    BY <2>1, AttemptedInStep
  <2>3. QED
    BY <2>1, <2>2 DEF Refines, Attempted
<1>9. CASE RecordSuccess
  <2>1. /\ pc = "record" /\ outcome = "succeeded" /\ gh' = gh /\ pc' = "attempt"
        /\ phase' = phase /\ idx' = idx + 1
        /\ latest.status # "complete" /\ latest'.status # "complete"
    BY <1>9, ProgressIsIncomplete DEF RecordSuccess, InStep, remote
  <2>2. /\ Knows(idx) /\ idx \in Nat
        /\ \A n \in Ids : Ops[n].kind \in Before(phase) => Satisfied(Ops[n], gh)
    BY <1>1, <2>1 DEF InStep, TypeInv, TypeOK
  <2>3. CASE phase = "add-membership"
    <3>1. current' = gh
      BY <1>9, <2>1, <2>3 DEF RecordSuccess, InStep
    <3>2. Knows(idx - 1)'
      BY <1>3, <2>1, <2>2, <3>1 DEF Knows
    <3>3. QED
      BY <1>2, <1>4, <2>1, <2>2, <3>1, <3>2 DEF InStep, Refines
  <2>4. CASE phase # "add-membership"
    <3>1. current' = current
      BY <1>9, <2>4 DEF RecordSuccess
    <3>2. Knows(idx - 1)'
      BY <1>3, <2>1, <2>2, <3>1 DEF Knows
    <3>3. QED
      BY <1>2, <1>4, <2>1, <2>2, <2>4, <3>2 DEF InStep, Refines
  <2>5. QED
    BY <2>3, <2>4
<1>10. CASE RecordFailure
  <2>1. /\ gh' = gh /\ pc' = "finish" /\ pc = "record"
        /\ latest.status # "complete" /\ latest'.status # "complete"
    BY <1>10, ProgressIsIncomplete DEF RecordFailure, InStep, remote
  <2>2. QED
    BY <1>2, <1>4, <2>1 DEF InStep, Refines
<1>11. CASE FinishWithReadback \/ FinishWithoutReadback \/ ReadbackFails \/ ReadbackMismatch
  <2>1. /\ gh' = gh /\ pc' = "idle" /\ pc \in {"finish", "attempt"}
        /\ latest'.status # "complete"
    BY <1>11, ProgressIsIncomplete DEF FinishWithReadback, FinishWithoutReadback,
       ReadbackFails, ReadbackMismatch, LoopDone, Exit, remote
  <2>2. latest.status # "complete"
    BY <2>1 DEF InStep
  <2>3. QED
    BY <1>2, <1>4, <2>1, <2>2 DEF InStep, Refines
<1>12. CASE ReadbackAdvances
  <2>1. /\ pc = "attempt" /\ pc' = "attempt" /\ phase # "add-membership" /\ phase' = NextPhase
        /\ idx' = 1 /\ current' = gh /\ gh' = gh /\ latest' = latest
        /\ Remaining(gh) = {}
    BY <1>12 DEF ReadbackAdvances, LoopDone, remote
  <2>2. \A n \in Ids : Ops[n].kind \in Before(phase) \cup {phase} => Satisfied(Ops[n], gh)
    BY <2>1 DEF InStep, Remaining, Pending, Ids, Ops
  <2>3. Before(phase') \subseteq Before(phase) \cup {phase}
    BY <1>1, <2>1 DEF NextPhase, Before, TypeInv, TypeOK, Kinds
  <2>4. \A n \in Ids : Ops[n].kind \in Before(phase') => Satisfied(Ops[n], gh')
    BY <2>1, <2>2, <2>3
  <2>5. Knows(idx - 1)'
    BY <1>3, <2>1 DEF Knows
  <2>6. latest.status # "complete"
    BY <2>1 DEF InStep
  <2>7. QED
    BY <1>2, <1>4, <2>1, <2>4, <2>5, <2>6 DEF InStep, Refines
<1>13. CASE FinalReadback
  <2>1. /\ pc = "attempt" /\ pc' = "complete" /\ gh' = gh /\ latest' = latest
        /\ Remaining(gh) = {} /\ phase = "add-membership"
    BY <1>13 DEF FinalReadback, LoopDone, remote
  <2>2. Pending(Plan, gh) = {}
    BY <2>1 DEF Remaining
  <2>3. QED
    BY <1>2, <1>4, <2>1, <2>2 DEF InStep, Refines
<1>14. CASE RecordComplete
  <2>1. /\ pc = "complete" /\ pc' = "idle" /\ gh' = gh /\ latest'.status = "complete"
    BY <1>14 DEF RecordComplete, Exit, remote
  <2>2. Pending(Plan, gh) = {}
    BY <2>1 DEF InStep
  <2>3. Cardinality(InPlace) = Len(Plan.ops) /\ InPlace' = InPlace
    BY <1>2, <2>1, <2>2, InPlaceCounts, InPlaceStays DEF Ops
  <2>4. Additive!Report
    BY <2>1, <2>3 DEF Additive!Report
  <2>5. QED
    BY <1>2, <1>4, <2>1, <2>2, <2>4 DEF InStep, Refines, Additive!Next
<1>a. CASE TargetMissing
  <2>1. pc' = "idle" /\ gh' = gh /\ latest' = latest
    BY <1>a DEF TargetMissing, Exit, remote
  <2>2. QED
    BY <1>2, <1>4, <2>1 DEF InStep, Refines
<1>15. QED
  BY <1>a, <1>5, <1>6, <1>7, <1>8, <1>9, <1>10, <1>11, <1>12, <1>13, <1>14
     DEF Session, Attempt

\* A session that dies, and a step of nobody, leave the account alone.
LEMMA OtherStep ==
    ASSUME ReceiptInv, InStep, Crash \/ UNCHANGED vars
    PROVE  InStep' /\ Refines
<1>1. PICK k \in 0 .. Len(Ops) : Upto(k)
  BY DEF InStep
<1>2. gh' = gh /\ latest' = latest
  BY DEF Crash, vars, remote
<1>3. /\ AllowedProgress(Plan, gh)' /\ Upto(k)'
      /\ \A n \in Ids : Satisfied(Ops[n], gh) => Satisfied(Ops[n], gh)'
      /\ Pending(Plan, gh) = {} => (Pending(Plan, gh) = {})'
  BY <1>1, <1>2, InPlaceStays DEF InStep
<1>4. CASE Crash
  <2>1. pc' = "idle"
    BY <1>4 DEF Crash, Exit
  <2>2. QED
    BY <1>1, <1>2, <1>3, <2>1 DEF InStep, Refines
<1>5. CASE UNCHANGED vars
  <2>1. /\ pc' = pc /\ phase' = phase /\ idx' = idx /\ current' = current
        /\ outcome' = outcome
    BY <1>5 DEF vars
  <2>2. \A m : Knows(m)' <=> Knows(m)
    BY <1>2, <2>1 DEF Knows, Satisfied
  <2>3. Knows(idx - 1)' <=> Knows(idx - 1)
    BY <1>2, <2>1 DEF Knows, Satisfied
  <2>4. Knows(idx)' <=> Knows(idx)
    BY <1>2, <2>1 DEF Knows, Satisfied
  <2>5. QED
    BY <1>1, <1>2, <1>3, <2>1, <2>3, <2>4 DEF InStep, Refines
<1>6. QED
  BY <1>4, <1>5

\* Nothing of the plan is in place when it is sealed.
LEMMA InStepInitially == Init => InStep /\ Undisturbed /\ Additive!Init
<1> SUFFICES ASSUME Init
             PROVE  InStep /\ Undisturbed /\ Additive!Init
  OBVIOUS
<1>1. AllowedProgress(Plan, gh)
  BY OrderlyInit DEF OrderlyInv, Quiet, Orderly, Init
<1>2. /\ gh = Plan.baseline /\ pc = "idle" /\ latest.status = "none"
      /\ WellSealed(Plan)
  BY PlanAssumption DEF Init, NoLatest
<1>3. ASSUME NEW n \in Ids
      PROVE  ~Satisfied(Ops[n], gh)
  <2>1. Ops[n] \in Operation
    BY PlanFacts
  <2>2. Plans(Plan, Ops[n])
    BY DEF Plans, Ids, Ops
  <2>3. CASE Ops[n].kind = "create-list"
    <3>1. Ops[n] = CreateOp(Ops[n].slug) /\ Ops[n].slug \in Slugs
      BY <2>1, <2>3 DEF Operation, CreateOp
    <3>2. QED
      BY <1>2, <2>2, <2>3, <3>1 DEF WellSealed, Satisfied
  <2>4. CASE Ops[n].kind = "star-repository"
    <3>1. Ops[n] = StarOp(Ops[n].repo) /\ Ops[n].repo \in Repos
      BY <2>1, <2>4 DEF Operation, StarOp
    <3>2. QED
      BY <1>2, <2>2, <2>4, <3>1 DEF WellSealed, Satisfied
  <2>5. CASE Ops[n].kind = "add-membership"
    <3>1. /\ Ops[n] = MembershipOp(Ops[n].slug, Ops[n].repo)
          /\ Ops[n].slug \in Slugs /\ Ops[n].repo \in Repos
      BY <2>1, <2>5 DEF Operation, MembershipOp
    <3>2. QED
      BY <1>2, <2>2, <2>5, <3>1 DEF WellSealed, Satisfied
  <2>6. QED
    BY <2>1, <2>3, <2>4, <2>5, OperationFields DEF Kinds
<1>4. 0 \in 0 .. Len(Ops) /\ Upto(0)
  BY <1>3, PlanFacts DEF Upto
<1>5. InStep
  BY <1>1, <1>2, <1>4 DEF InStep
<1>6. Undisturbed
  BY <1>2 DEF Undisturbed, Init
<1>7. Additive!Init
  <2>1. Cardinality(InPlace) = 0
    BY <1>4, InPlaceCounts
  <2>2. QED
    BY <1>2, <2>1 DEF Additive!Init
<1>8. QED
  BY <1>5, <1>6, <1>7

\* When nothing lags or is late and the owner stays away, `shoulda github
\* apply` implements AdditiveApply, for every sealed plan, however many calls
\* fail, wherever its sessions die and however often it is run again: the
\* account takes the sealed operations in their order, each once and nothing
\* else, and a complete receipt means that it has them all (applied,
\* _attempt_operation, _finish_failed_attempt).  The premises are needed: the
\* runs apply_duplicate and apply_stale_resume lag, and the owner's own edits
\* are no operations of the plan.
THEOREM ExecutorIsAdditive ==
    ASSUME MaxOwnerEdits = 0, ~Lag, ~Delays
    PROVE  Spec => ImplementsAdditive
<1> DEFINE Mapped == <<gh, Cardinality(InPlace), (latest.status = "complete")>>
<1>1. Init => AdditiveInv /\ Additive!Init
  BY InStepInitially, OrderlyInit DEF OrderlyInv, AdditiveInv
<1>2. AdditiveInv /\ [Next]_vars => AdditiveInv' /\ [Additive!Next]_Mapped
  <2> SUFFICES ASSUME AdditiveInv, [Next]_vars
               PROVE  AdditiveInv' /\ [Additive!Next]_Mapped
    OBVIOUS
  <2> USE DEF AdditiveInv
  <2>1. ReceiptInv'
    BY ReceiptStep
  <2>2. /\ Undisturbed' /\ Observed = gh
        /\ Session \/ Crash \/ UNCHANGED vars
    BY OnlySessions DEF ReceiptInv, SafetyInv
  <2>3. InStep' /\ Refines
    BY <2>2, SessionStep, OtherStep DEF AttemptIsDelayed
  <2>4. CASE gh' = gh /\ (latest'.status = "complete" <=> latest.status = "complete")
    <3>1. InPlace' = InPlace
      BY <2>4, InPlaceStays
    <3>2. (latest.status = "complete")' = (latest.status = "complete")
      BY <2>4, Zenon
    <3>3. QED
      BY <2>1, <2>2, <2>3, <2>4, <3>1, <3>2
  <2>5. QED
    BY <2>1, <2>2, <2>3, <2>4 DEF Refines
<1>3. QED
  BY <1>1, <1>2, PTL DEF Spec, ImplementsAdditive, Additive!Spec
==============================================================================
