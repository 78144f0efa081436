-------------------------- MODULE GitHubApplyProofs --------------------------
(***************************************************************************)
(* Type correctness of GitHubApply, for every plan the constants allow and *)
(* any number of sessions, faults, crashes and owner edits, and the facts  *)
(* about its operators that the rest uses too; then what the executor can  *)
(* do to the account, and what a verification may be believed to say; last, *)
(* that it says it of every promise of the plan.                           *)
(*                                                                         *)
(* TypeOK alone is not inductive: the cursor a failed session records is   *)
(* the position it attempted, or the last one of the plan, so the control  *)
(* state must say that there is one (Control).                             *)
(***************************************************************************)
EXTENDS GitHubApply, TLAPS, WellFoundedInduction

USE DEF Ids, OpIds

-----------------------------------------------------------------------------
(* Facts about the operators. *)

\* Least(S) is what its name says, for every nonempty set of numbers.
LEMMA LeastProperties ==
    ASSUME NEW S \in SUBSET Nat, S # {}
    PROVE  /\ Least(S) \in S
           /\ \A m \in S : Least(S) <= m
<1>1. \E x \in S : \A y \in S : ~(<<y, x>> \in OpToRel(<, Nat))
  BY NatLessThanWellFounded, WFMin
<1>2. PICK x \in S : \A y \in S : ~(<<y, x>> \in OpToRel(<, Nat))
  BY <1>1
<1>3. \A y \in S : x <= y
  <2>1. SUFFICES ASSUME NEW y \in S
                 PROVE  x <= y
    OBVIOUS
  <2>2. <<y, x>> \in Nat \X Nat
    OBVIOUS
  <2>3. ~(y < x)
    BY <1>2, <2>2 DEF OpToRel
  <2>4. QED
    BY <2>3
<1>4. QED
  BY <1>3 DEF Least

\* Positions of the plan are positive numbers, the operations at them are
\* operations.
LEMMA PlanFacts ==
    /\ Ids \subseteq Nat \ {0}
    /\ \A n \in Ids : Ops[n] \in Operation
    /\ Plan.baseline \in AccountState
    /\ Plan.desired \in [Repos -> SUBSET Slugs]
    /\ Len(Ops) \in Nat
    /\ Ids = 1 .. Len(Ops)
  BY PlanAssumption DEF Ops

\* What the three kinds of operation carry.
LEMMA OperationFields ==
    ASSUME NEW op \in Operation
    PROVE  /\ op.kind \in Kinds
           /\ op.kind = "create-list" => op.slug \in Slugs
           /\ op.kind = "star-repository" => op.repo \in Repos
           /\ op.kind = "add-membership" => op.slug \in Slugs /\ op.repo \in Repos
  BY DEF Operation, Kinds

\* The fields of an account state.
LEMMA AccountFields ==
    ASSUME NEW account \in AccountState
    PROVE  /\ account.starred \subseteq Repos
           /\ account.lists \in ListTable
           /\ Live(account.lists) \subseteq ListIds
           /\ \A l \in ListIds : account.lists[l] \in ListState
           /\ \A l \in Live(account.lists) :
                 account.lists[l].members \subseteq Repos
  BY DEF AccountState, ListTable, ListState, Live

-----------------------------------------------------------------------------
(* Type correctness. *)

\* Creating a List yields an account state.
LEMMA CreateListType ==
    ASSUME NEW account \in AccountState, NEW name \in Names,
           NEW conforming \in BOOLEAN
    PROVE  CreateList(account, name, conforming) \in AccountState
<1>1. [status |-> "live", name |-> name, conforming |-> conforming,
       members |-> {}] \in ListState
  BY DEF ListState
<1>2. QED
  BY <1>1 DEF CreateList, AccountState, ListTable

\* Replacing a repository's memberships yields an account state.
LEMMA ReplaceMembershipsType ==
    ASSUME NEW account \in AccountState, NEW repo \in Repos, NEW lists
    PROVE  ReplaceMemberships(account, repo, lists) \in AccountState
<1> DEFINE Cell(l) ==
        IF l \notin Live(account.lists) THEN account.lists[l]
        ELSE IF l \in lists
        THEN [account.lists[l] EXCEPT !.members = @ \cup {repo}]
        ELSE [account.lists[l] EXCEPT !.members = @ \ {repo}]
<1>1. \A l \in ListIds : Cell(l) \in ListState
  BY DEF AccountState, ListTable, ListState
<1>2. ReplaceMemberships(account, repo, lists)
        = [account EXCEPT !.lists = [l \in ListIds |-> Cell(l)]]
  BY DEF ReplaceMemberships
<1> HIDE DEF Cell
<1>3. [l \in ListIds |-> Cell(l)] \in ListTable
  BY <1>1 DEF ListTable
<1>4. QED
  BY <1>2, <1>3 DEF AccountState

\* Executing a request yields an account state.
LEMMA AfterEffectType ==
    ASSUME gh \in AccountState, NEW req \in Request
    PROVE  AfterEffect(req) \in AccountState
<1>1. req.op \in Operation
  BY DEF Request
<1>2. CASE req.op.kind = "create-list"
  <2>1. req.op.slug \in Names
    BY <1>1, <1>2, OperationFields DEF Names
  <2>2. AfterEffect(req) = CreateList(gh, req.op.slug, TRUE)
    BY <1>2 DEF AfterEffect
  <2>3. QED
    BY <2>1, <2>2, CreateListType
<1>3. CASE req.op.kind = "star-repository"
  <2>1. req.op.repo \in Repos
    BY <1>1, <1>3, OperationFields
  <2>2. AfterEffect(req) = [gh EXCEPT !.starred = @ \cup {req.op.repo}]
    BY <1>3 DEF AfterEffect
  <2>3. QED
    BY <2>1, <2>2 DEF AccountState
<1>4. CASE req.op.kind = "add-membership"
  <2>1. req.op.repo \in Repos
    BY <1>1, <1>4, OperationFields
  <2>2. AfterEffect(req) = ReplaceMemberships(gh, req.op.repo, req.lists)
    BY <1>4 DEF AfterEffect
  <2>3. QED
    BY <2>1, <2>2, ReplaceMembershipsType
<1>5. QED
  BY <1>1, <1>2, <1>3, <1>4, OperationFields DEF Kinds

\* A materialised membership yields an account state.
LEMMA MaterializeType ==
    ASSUME NEW state \in AccountState, NEW repo \in Repos, NEW lists
    PROVE  Materialize(state, repo, lists) \in AccountState
<1> DEFINE Cell(l) ==
        IF l \in lists THEN [state.lists[l] EXCEPT !.members = @ \cup {repo}]
        ELSE state.lists[l]
<1>1. \A l \in ListIds : Cell(l) \in ListState
  BY DEF AccountState, ListTable, ListState
<1>2. Materialize(state, repo, lists)
        = [state EXCEPT !.lists = [l \in ListIds |-> Cell(l)]]
  BY DEF Materialize
<1> HIDE DEF Cell
<1>3. [l \in ListIds |-> Cell(l)] \in ListTable
  BY <1>1 DEF ListTable
<1>4. QED
  BY <1>2, <1>3 DEF AccountState

\* A read returns an account state.
LEMMA ObservedType == TypeOK => Observed \in AccountState
  BY DEF TypeOK, Observed, AccountState

\* A request is one of the plan's operations with a set of List IDs.
LEMMA RequestForType ==
    ASSUME NEW n \in Ids
    PROVE  RequestFor(n) \in Request /\ RequestFor(n).op = Ops[n]
<1>1. Ops[n] \in Operation
  BY PlanFacts
<1>2. RequestedUnion(Ops[n], current) \subseteq ListIds
  BY DEF RequestedUnion, MembershipsOf, Named, Live
<1>3. QED
  BY <1>1, <1>2 DEF RequestFor, Request

\* The positions a receipt's cursor may take.
LEMMA CursorTypes ==
    /\ \A state : Pending(Plan, state) \in SUBSET Ids
    /\ \A state : Remaining(state) \in SUBSET Pending(Plan, state)
    /\ \A S \in SUBSET Ids : S # {} => Least(S) \in S
    /\ Ids # {} => \A state : FirstPending(state) \in Ids
<1>1. \A state : Pending(Plan, state) \in SUBSET Ids
  BY DEF Pending
<1>2. \A state : Remaining(state) \in SUBSET Pending(Plan, state)
  BY DEF Remaining
<1>3. \A S \in SUBSET Ids : S # {} => Least(S) \in S
  BY PlanFacts, LeastProperties
<1>4. ASSUME Ids # {}, NEW state
      PROVE  FirstPending(state) \in Ids
  <2>1. Len(Ops) \in Ids
    BY <1>4, PlanFacts
  <2>2. QED
    BY <1>1, <1>3, <2>1 DEF FirstPending
<1>5. QED
  BY <1>1, <1>2, <1>3, <1>4

\* A session that attempts has something to attempt; one that records or
\* gives up knows which operation of its phase it attempted.
Control ==
    /\ pc = "attempt" => Ids # {}
    /\ pc \in {"record", "finish"} => idx \in Ids /\ Ops[idx].kind = phase

TypeInv == TypeOK /\ Control

Receipt == [status   : {"none", "partial", "failed", "complete"},
            receipts : [Ids -> SUBSET Outcomes],
            cursor   : Ids \cup {0},
            readback : AccountState \cup {NoState}]

\* Progress writes a receipt.
LEMMA ProgressType ==
    ASSUME receipts \in [Ids -> SUBSET Outcomes], NEW cursor \in Ids,
           NEW readback \in AccountState \cup {NoState}
    PROVE  Progress(cursor, readback) \in Receipt
  BY DEF Progress, Receipt

\* GitHub commits account states.
LEMMA CommitType ==
    ASSUME TypeOK, NEW account \in AccountState, Commit(account)
    PROVE  gh' \in AccountState /\ view' \in ListTable
  BY AccountFields DEF TypeOK, Commit

\* A process that ends leaves the initial session behind.
LEMMA ExitType ==
    ASSUME Exit
    PROVE  /\ pc' = "idle" /\ phase' \in Kinds /\ idx' \in Nat \ {0}
           /\ current' \in AccountState
           /\ receipts' \in [Ids -> SUBSET Outcomes]
           /\ outcome' \in Outcomes \cup {"none"}
  BY PlanFacts DEF Exit, Kinds, NoReceipts

\* The owner leaves an account state behind and touches nothing of the tool.
LEMMA OwnerType ==
    ASSUME TypeOK, OwnerEdit
    PROVE  /\ gh' \in AccountState /\ view' \in ListTable
           /\ ownerEdits' = ownerEdits + 1
           /\ UNCHANGED <<late, latest, session, faults, crashes>>
<1>1. ASSUME NEW account \in AccountState, OwnerCommits(account)
      PROVE  /\ gh' \in AccountState /\ view' \in ListTable
             /\ ownerEdits' = ownerEdits + 1
             /\ UNCHANGED <<late, latest, session, faults, crashes>>
  BY <1>1, CommitType DEF OwnerCommits
<1>2. gh \in AccountState
  BY DEF TypeOK
<1>3. CASE OwnerTogglesStar
  BY <1>1, <1>2, <1>3 DEF OwnerTogglesStar, AccountState
<1>4. CASE OwnerTogglesMembership
  <2>1. ASSUME NEW l \in Live(gh.lists), NEW repo \in Repos
        PROVE  /\ [gh EXCEPT !.lists[l].members = @ \cup {repo}] \in AccountState
               /\ [gh EXCEPT !.lists[l].members = @ \ {repo}] \in AccountState
    BY <1>2 DEF AccountState, ListTable, ListState, Live
  <2>2. QED
    BY <1>1, <1>4, <2>1 DEF OwnerTogglesMembership
<1>5. CASE OwnerEditsList
  <2>1. ASSUME NEW name \in Names, NEW conforming \in BOOLEAN
        PROVE  /\ CreateList(gh, name, conforming) \in AccountState
               /\ \A l \in Live(gh.lists) :
                     [gh EXCEPT !.lists[l] =
                         [@ EXCEPT !.name = name, !.conforming = conforming]]
                            \in AccountState
    <3>1. CreateList(gh, name, conforming) \in AccountState
      BY <1>2, CreateListType
    <3>2. ASSUME NEW l \in Live(gh.lists)
          PROVE  [gh EXCEPT !.lists[l] =
                     [@ EXCEPT !.name = name, !.conforming = conforming]]
                        \in AccountState
      BY <1>2 DEF AccountState, ListTable, ListState, Live
    <3>3. QED
      BY <3>1, <3>2
  <2>2. QED
    BY <1>1, <1>5, <2>1 DEF OwnerEditsList
<1>6. CASE OwnerDeletesList
  <2>1. ASSUME NEW l \in Live(gh.lists)
        PROVE  [gh EXCEPT !.lists[l] =
                    [@ EXCEPT !.status = "gone", !.members = {}]]
                       \in AccountState
    BY <1>2 DEF AccountState, ListTable, ListState, Live
  <2>2. QED
    BY <1>1, <1>6, <2>1 DEF OwnerDeletesList
<1>7. QED
  BY <1>3, <1>4, <1>5, <1>6 DEF OwnerEdit

\* Every attempt leaves a session that records an operation of its phase.
LEMMA AttemptedType ==
    ASSUME TypeInv, NEW n \in Ids, Attempting(n), NEW result \in Outcomes,
           Attempted(n, result), gh' \in AccountState, view' \in ListTable,
           late' \subseteq Request, faults' \in Nat
    PROVE  TypeInv'
<1>1. Ops[n].kind = phase /\ n \in Nat \ {0}
  <2>1. Todo \in SUBSET Ids /\ Todo # {}
    BY DEF Todo, Attempting
  <2>2. n \in Todo
    BY <2>1, CursorTypes DEF Attempting
  <2>3. QED
    BY <2>2, PlanFacts DEF Todo
<1>2. receipts' \in [Ids -> SUBSET Outcomes]
  BY DEF TypeInv, TypeOK, Attempted
<1>3. QED
  BY <1>1, <1>2 DEF TypeInv, TypeOK, Control, Attempted

\* One step of any process preserves the types.
LEMMA TypeStep == TypeInv /\ [Next]_vars => TypeInv'
<1> SUFFICES ASSUME TypeInv, [Next]_vars
             PROVE  TypeInv'
  OBVIOUS
<1> USE DEF TypeInv
<1>1. CASE StartSession
  <2>1. Ids # {}
    BY <1>1, CursorTypes DEF StartSession
  <2>2. QED
    BY <1>1, <2>1, ObservedType
       DEF StartSession, TypeOK, Control, remote, budget, Kinds
<1>2. CASE StartSatisfied
  BY <1>2, ObservedType DEF StartSatisfied, TypeOK, Control, remote, budget
<1>3. CASE Attempt
  <2>1. CASE AttemptSucceeds
    <3>1. PICK n \in Ids : /\ Attempting(n)
                           /\ Commit(AfterEffect(RequestFor(n)))
                           /\ Attempted(n, "succeeded")
                           /\ UNCHANGED <<late, faults>>
      BY <2>1 DEF AttemptSucceeds
    <3>2. gh' \in AccountState /\ view' \in ListTable
      BY <3>1, RequestForType, AfterEffectType, CommitType DEF TypeOK
    <3>3. QED
      BY <3>1, <3>2, AttemptedType DEF TypeOK, Outcomes
  <2>2. CASE AttemptLosesResponse
    <3>1. PICK n \in Ids : /\ Attempting(n)
                           /\ Commit(AfterEffect(RequestFor(n)))
                           /\ Attempted(n, "indeterminate")
                           /\ faults' = faults + 1
                           /\ UNCHANGED late
      BY <2>2 DEF AttemptLosesResponse
    <3>2. gh' \in AccountState /\ view' \in ListTable
      BY <3>1, RequestForType, AfterEffectType, CommitType DEF TypeOK
    <3>3. QED
      BY <3>1, <3>2, AttemptedType DEF TypeOK, Outcomes
  <2>3. CASE AttemptHasNoEffect
    <3>1. PICK n \in Ids, result \in {"failed", "indeterminate"} :
              /\ Attempting(n)
              /\ faults' = faults + 1 \/ UNCHANGED faults
              /\ Attempted(n, result)
              /\ UNCHANGED remote
      BY <2>3 DEF AttemptHasNoEffect
    <3>2. QED
      BY <3>1, AttemptedType DEF TypeOK, Outcomes, remote
  <2>4. CASE AttemptIsDelayed
    <3>1. PICK n \in Ids : /\ Attempting(n)
                           /\ late' = late \cup {RequestFor(n)}
                           /\ Attempted(n, "indeterminate")
                           /\ faults' = faults + 1
                           /\ UNCHANGED <<gh, view>>
      BY <2>4 DEF AttemptIsDelayed
    <3>2. late' \subseteq Request
      BY <3>1, RequestForType DEF TypeOK
    <3>3. QED
      BY <3>1, <3>2, AttemptedType DEF TypeOK, Outcomes
  <2>5. QED
    BY <1>3, <2>1, <2>2, <2>3, <2>4 DEF Attempt
<1>4. CASE RecordSuccess
  <2>1. Progress(idx, current) \in Receipt
    BY <1>4, ProgressType DEF RecordSuccess, TypeOK, Control
  <2>2. current' \in AccountState
    <3>1. CASE phase = "add-membership"
      <4>1. Ops[idx].repo \in Repos
        BY <1>4, <3>1, PlanFacts, OperationFields DEF RecordSuccess, Control
      <4>2. QED
        BY <1>4, <3>1, <4>1, MaterializeType DEF RecordSuccess, TypeOK
    <3>2. CASE phase # "add-membership"
      BY <1>4, <3>2 DEF RecordSuccess, TypeOK
    <3>3. QED
      BY <3>1, <3>2
  <2>3. QED
    BY <1>4, <2>1, <2>2
       DEF RecordSuccess, TypeOK, Control, Receipt, remote, budget
<1>5. CASE RecordFailure
  <2>1. Progress(idx, current) \in Receipt
    BY <1>5, ProgressType DEF RecordFailure, TypeOK, Control
  <2>2. QED
    BY <1>5, <2>1 DEF RecordFailure, TypeOK, Control, Receipt, remote, budget
<1>6. CASE FinishWithReadback
  <2>1. (IF Pending(Plan, Observed) = {} THEN idx
         ELSE Least(Pending(Plan, Observed))) \in Ids
    BY <1>6, CursorTypes DEF FinishWithReadback, Control
  <2>2. latest' \in Receipt
    BY <1>6, <2>1, ObservedType, ProgressType DEF FinishWithReadback, TypeOK
  <2>3. QED
    BY <1>6, <2>2, ExitType
       DEF FinishWithReadback, TypeOK, Control, Receipt, remote, budget
<1>7. CASE FinishWithoutReadback
  <2>1. Progress(idx, NoState) \in Receipt
    BY <1>7, ProgressType DEF FinishWithoutReadback, TypeOK, Control
  <2>2. faults' \in Nat
    BY <1>7 DEF FinishWithoutReadback, TypeOK
  <2>3. QED
    BY <1>7, <2>1, <2>2, ExitType
       DEF FinishWithoutReadback, TypeOK, Control, Receipt, remote
<1>8. CASE ReadbackFails
  <2>1. Progress(FirstPending(current), NoState) \in Receipt
    BY <1>8, CursorTypes, ProgressType DEF ReadbackFails, LoopDone, TypeOK, Control
  <2>2. faults' \in Nat
    BY <1>8 DEF ReadbackFails, TypeOK
  <2>3. QED
    BY <1>8, <2>1, <2>2, ExitType
       DEF ReadbackFails, TypeOK, Control, Receipt, remote
<1>9. CASE ReadbackMismatch
  <2>1. Least(Remaining(Observed)) \in Ids
    <3>1. Remaining(Observed) \in SUBSET Ids
      BY CursorTypes
    <3>2. QED
      BY <1>9, <3>1, CursorTypes DEF ReadbackMismatch
  <2>2. latest' \in Receipt
    BY <1>9, <2>1, ObservedType, ProgressType DEF ReadbackMismatch, TypeOK
  <2>3. QED
    BY <1>9, <2>2, ExitType
       DEF ReadbackMismatch, TypeOK, Control, Receipt, remote, budget
<1>10. CASE ReadbackAdvances
  BY <1>10, ObservedType
     DEF ReadbackAdvances, LoopDone, NextPhase, TypeOK, Control, remote, budget,
         Kinds
<1>11. CASE FinalReadback
  BY <1>11, ObservedType
     DEF FinalReadback, TypeOK, Control, remote, budget
<1>12. CASE RecordComplete
  <2>1. latest' \in Receipt
    BY <1>12 DEF RecordComplete, TypeOK, Receipt
  <2>2. QED
    BY <1>12, <2>1, ExitType
       DEF RecordComplete, TypeOK, Control, Receipt, remote, budget
<1>13. CASE Crash
  BY <1>13, ExitType DEF Crash, TypeOK, Control, remote
<1>a. CASE TargetMissing
  BY <1>a, ExitType DEF TargetMissing, TypeOK, Control, remote, budget
<1>14. CASE OwnerEdit
  BY <1>14, OwnerType DEF TypeOK, Control, session
<1>15. CASE LateEffect
  <2>1. PICK req \in late : /\ Commit(AfterEffect(req))
                            /\ late' = late \ {req}
    BY <1>15 DEF LateEffect
  <2>2. gh' \in AccountState /\ view' \in ListTable
    BY <2>1, AfterEffectType, CommitType DEF TypeOK
  <2>3. QED
    BY <1>15, <2>1, <2>2 DEF LateEffect, TypeOK, Control, session, budget
<1>16. CASE \E l \in ListIds : CatchUp(l)
  <2>1. PICK l \in ListIds : CatchUp(l)
    BY <1>16
  <2>2. view' \in ListTable
    BY <2>1, AccountFields DEF CatchUp, TypeOK, ListTable
  <2>3. QED
    BY <2>1, <2>2 DEF CatchUp, TypeOK, Control, session, budget
<1>17. CASE UNCHANGED vars
  BY <1>17 DEF vars, TypeOK, Control
<1>18. QED
  BY <1>a, <1>1, <1>2, <1>3, <1>4, <1>5, <1>6, <1>7, <1>8, <1>9, <1>10, <1>11,
     <1>12, <1>13, <1>14, <1>15, <1>16, <1>17 DEF Next, Session

\* The initial state is well typed.
LEMMA TypeInit == Init => TypeInv
  BY PlanFacts, AccountFields
     DEF Init, TypeInv, TypeOK, Control, NoLatest, NoReceipts, Kinds

\* TypeInv is an invariant: TypeOK and the shape of the control state.
LEMMA TypeInvariant == Spec => []TypeInv
  BY TypeInit, TypeStep, PTL DEF Spec

\* Type correctness of the executor: every apply receipt names a readback
\* that is an account state or none, and a cursor inside the plan (the code
\* indexes plan.operations[-1] for it), in every reachable state.
THEOREM TypeCorrect == Spec => []TypeOK
<1>1. TypeInv => TypeOK
  BY DEF TypeInv
<1>2. QED
  BY <1>1, TypeInvariant, PTL

-----------------------------------------------------------------------------
(***************************************************************************)
(* What the executor can do to the account, for every plan the constants   *)
(* allow and any number of sessions, faults, crashes, owner edits and any  *)
(* lag of the Lists query.                                                 *)
(*                                                                         *)
(* The argument: a session never acts on an idea of the account that is    *)
(* not an allowed progress from the sealed baseline (StateSound).  It      *)
(* starts from a readback that passed assert_allowed_progress, and the one *)
(* change it makes to that idea by itself, Materialize, keeps it allowed.  *)
(* So every membership request, those GitHub executes late included,       *)
(* carries every sealed membership of its repository and adds nothing that *)
(* is not planned (RequestSound), and no effect can break the promises.    *)
(***************************************************************************)

Sealed == Plan.baseline.lists

\* What a session acts on passed assert_allowed_progress.
StateSound == pc # "idle" => AllowedProgress(Plan, current)

\* A request carries an operation of the plan; the Lists of a membership
\* request include the sealed memberships of its repository, and no other
\* sealed List than those and the ones the plan puts the repository into.
RequestSound(req) ==
    /\ \E n \in Ids : req.op = Ops[n]
    /\ req.op.kind = "add-membership" =>
          \A l \in Live(Sealed) :
              /\ req.op.repo \in Sealed[l].members => l \in req.lists
              /\ l \in req.lists =>
                     \/ req.op.repo \in Sealed[l].members
                     \/ Sealed[l].name \in Plan.desired[req.op.repo]

\* A node ID handed out stays handed out.
SealedListsBorn == \A l \in Live(Sealed) : gh.lists[l].status # "unborn"

SafetyInv ==
    /\ TypeInv
    /\ StateSound
    /\ \A req \in late : RequestSound(req)
    /\ SealedListsBorn

-----------------------------------------------------------------------------
(* Requests. *)

\* A membership operation of the plan is one the projection wants.
LEMMA MembershipIsDesired ==
    ASSUME NEW n \in Ids, Ops[n].kind = "add-membership"
    PROVE  /\ Ops[n].slug \in Slugs
           /\ Ops[n].repo \in Repos
           /\ Ops[n].slug \in Plan.desired[Ops[n].repo]
<1>1. Ops[n] \in [kind : {"add-membership"}, slug : Slugs, repo : Repos]
  BY PlanFacts DEF Operation
<1>2. Ops[n] = MembershipOp(Ops[n].slug, Ops[n].repo)
  BY <1>1 DEF MembershipOp
<1>3. Plans(Plan, MembershipOp(Ops[n].slug, Ops[n].repo))
  BY <1>2 DEF Plans, Ops, Ids, OpIds
<1>4. WellSealed(Plan)
  BY PlanAssumption
<1>5. \A repo \in Repos, slug \in Slugs :
          Plans(Plan, MembershipOp(slug, repo)) => slug \in Plan.desired[repo]
  BY <1>4 DEF WellSealed
<1>6. Ops[n].slug \in Slugs /\ Ops[n].repo \in Repos
  BY <1>1
<1>7. QED
  BY <1>3, <1>5, <1>6

\* The union sent for an allowed state contains what the plan promised to
\* preserve and adds only what it announced.
LEMMA UnionIsSound ==
    ASSUME NEW n \in Ids, Ops[n].kind = "add-membership",
           NEW state \in AccountState, AllowedProgress(Plan, state),
           NEW l \in Live(Sealed)
    PROVE  /\ Ops[n].repo \in Sealed[l].members => l \in RequestedUnion(Ops[n], state)
           /\ l \in RequestedUnion(Ops[n], state) =>
                  \/ Ops[n].repo \in Sealed[l].members
                  \/ Sealed[l].name \in Plan.desired[Ops[n].repo]
<1> DEFINE repo == Ops[n].repo
<1>1. /\ l \in Live(state.lists)
      /\ state.lists[l].name = Sealed[l].name
  BY DEF AllowedProgress, BaselineListsKept, Sealed
<1>2. /\ Sealed[l].members \subseteq state.lists[l].members
      /\ state.lists[l].members \ Sealed[l].members
             \subseteq {r \in Repos : Sealed[l].name \in Plan.desired[r]}
  BY <1>1 DEF AllowedProgress, MembersProgress, BaselineMembers,
              AllowedMembers, Sealed
<1>3. repo \in Sealed[l].members => l \in RequestedUnion(Ops[n], state)
  BY <1>1, <1>2 DEF RequestedUnion, MembershipsOf
<1>4. CASE l \in MembershipsOf(repo, state.lists)
  BY <1>2, <1>3, <1>4 DEF MembershipsOf
<1>5. CASE l \in Named(state.lists, Ops[n].slug)
  BY <1>1, <1>3, <1>5, MembershipIsDesired DEF Named
<1>6. QED
  BY <1>3, <1>4, <1>5 DEF RequestedUnion

\* Every request of a session that acts on an allowed state is sound.
LEMMA RequestForIsSound ==
    ASSUME TypeInv, StateSound, pc = "attempt", NEW n \in Ids
    PROVE  RequestSound(RequestFor(n))
<1>1. RequestFor(n).op = Ops[n]
  BY RequestForType
<1>2. CASE Ops[n].kind = "add-membership"
  <2>1. RequestFor(n).lists = RequestedUnion(Ops[n], current)
    BY <1>2 DEF RequestFor
  <2>2. current \in AccountState /\ AllowedProgress(Plan, current)
    BY DEF TypeInv, TypeOK, StateSound
  <2>3. QED
    BY <1>1, <1>2, <2>1, <2>2, UnionIsSound DEF RequestSound
<1>3. CASE Ops[n].kind # "add-membership"
  BY <1>1, <1>3 DEF RequestSound
<1>4. QED
  BY <1>2, <1>3

-----------------------------------------------------------------------------
(* The session's own idea of the account. *)

\* Carrying an acknowledged membership forward keeps an allowed state allowed.
LEMMA MaterializeAllowed ==
    ASSUME NEW n \in Ids, Ops[n].kind = "add-membership",
           NEW state \in AccountState, AllowedProgress(Plan, state)
    PROVE  AllowedProgress(Plan,
               Materialize(state, Ops[n].repo, RequestedUnion(Ops[n], state)))
<1> DEFINE repo == Ops[n].repo
           slug == Ops[n].slug
           sent == RequestedUnion(Ops[n], state)
           new == Materialize(state, repo, sent)
<1>1. repo \in Repos /\ slug \in Plan.desired[repo]
  BY MembershipIsDesired
<1>2. /\ new.starred = state.starred
      /\ new.lists = [l \in ListIds |->
             IF l \in sent THEN [state.lists[l] EXCEPT !.members = @ \cup {repo}]
             ELSE state.lists[l]]
  BY DEF Materialize, AccountState
<1>3. \A l \in ListIds :
          /\ new.lists[l].status = state.lists[l].status
          /\ new.lists[l].name = state.lists[l].name
          /\ new.lists[l].conforming = state.lists[l].conforming
          /\ new.lists[l].members = IF l \in sent
                                    THEN state.lists[l].members \cup {repo}
                                    ELSE state.lists[l].members
  BY <1>2, AccountFields DEF ListState
<1>4. Live(new.lists) = Live(state.lists)
  BY <1>3 DEF Live
<1>5. \A name : Named(new.lists, name) = Named(state.lists, name)
  BY <1>3, <1>4 DEF Named, Live
<1> HIDE DEF new
<1>6. StarsProgress(Plan, new)
  BY <1>2 DEF AllowedProgress, StarsProgress
<1>7. BaselineListsKept(Plan, new)
  BY <1>3, <1>4 DEF AllowedProgress, BaselineListsKept, Live
<1>8. NewListsPlanned(Plan, new)
  BY <1>3, <1>4 DEF AllowedProgress, NewListsPlanned, Live
<1>9. TargetsResolve(new.lists)
  <2>1. TargetsResolve(state.lists)
    BY DEF AllowedProgress
  <2>2. \A name : Named(state.lists, name) \subseteq ListIds
    BY DEF Named, Live
  <2>3. QED
    BY <1>3, <1>5, <2>1, <2>2 DEF TargetsResolve
<1>10. MembersProgress(Plan, new)
  <2>1. SUFFICES ASSUME NEW l \in Live(state.lists)
                 PROVE  /\ BaselineMembers(Plan, l) \subseteq new.lists[l].members
                        /\ new.lists[l].members \ BaselineMembers(Plan, l)
                               \subseteq AllowedMembers(Plan, new, l)
    BY <1>4 DEF MembersProgress
  <2>2. l \in ListIds
    BY DEF Live
  <2>3. /\ BaselineMembers(Plan, l) \subseteq state.lists[l].members
        /\ state.lists[l].members \ BaselineMembers(Plan, l)
               \subseteq AllowedMembers(Plan, state, l)
    BY DEF AllowedProgress, MembersProgress
  <2>4. AllowedMembers(Plan, new, l) = AllowedMembers(Plan, state, l)
    BY <1>3, <2>2 DEF AllowedMembers
  <2>5. l \in sent => \/ repo \in state.lists[l].members
                      \/ repo \in AllowedMembers(Plan, state, l)
    BY <1>1 DEF RequestedUnion, MembershipsOf, Named, AllowedMembers
  <2>6. QED
    BY <1>3, <2>2, <2>3, <2>4, <2>5
<1>11. QED
  BY <1>6, <1>7, <1>8, <1>9, <1>10 DEF AllowedProgress, new

-----------------------------------------------------------------------------
(* Effects. *)

Wanted(l) == {repo \in Repos : Sealed[l].name \in Plan.desired[repo]}

\* What an effect of the tool may make of the account.
GoodEffect(account) ==
    /\ \A l \in Live(Sealed) :
        /\ account.lists[l].status # "unborn"
        /\ Sealed[l].members \cap gh.lists[l].members
               \subseteq account.lists[l].members
        /\ account.lists[l].members \ gh.lists[l].members
               \subseteq Sealed[l].members \cup Wanted(l)
    /\ account.starred \ gh.starred \subseteq StarOperations(Plan)
    /\ \A l \in Live(account.lists) \ Live(gh.lists) :
          \E n \in Ids : /\ Ops[n].kind = "create-list"
                         /\ Ops[n].slug = account.lists[l].name

\* A create touches one List that was never handed out: no sealed one.
LEMMA CreateEffect ==
    ASSUME TypeInv, SealedListsBorn, NEW n \in Ids, Ops[n].kind = "create-list",
           UnbornIds(gh.lists) # {}
    PROVE  GoodEffect(CreateList(gh, Ops[n].slug, TRUE))
<1> DEFINE fresh == Least(UnbornIds(gh.lists))
           new == CreateList(gh, Ops[n].slug, TRUE)
<1>1. fresh \in UnbornIds(gh.lists)
  <2>1. UnbornIds(gh.lists) \in SUBSET Nat
    BY ListIdsAssumption DEF UnbornIds
  <2>2. QED
    BY <2>1, LeastProperties
<1>2. fresh \in ListIds /\ gh.lists[fresh].status = "unborn"
  BY <1>1 DEF UnbornIds
<1>3. gh \in AccountState
  BY DEF TypeInv, TypeOK
<1>4. /\ new.starred = gh.starred
      /\ new.lists[fresh].name = Ops[n].slug
      /\ \A l \in ListIds \ {fresh} : new.lists[l] = gh.lists[l]
  BY <1>2, <1>3 DEF CreateList, AccountState, ListTable
<1> HIDE DEF fresh, new
<1>5. \A l \in Live(Sealed) : l \in ListIds \ {fresh}
  BY <1>2 DEF SealedListsBorn, Live
<1>6. \A l \in Live(new.lists) \ Live(gh.lists) : l = fresh
  BY <1>4 DEF Live
<1>7. QED
  BY <1>4, <1>5, <1>6 DEF GoodEffect, new, SealedListsBorn

\* A star touches no List.
LEMMA StarEffect ==
    ASSUME TypeInv, SealedListsBorn, NEW n \in Ids,
           Ops[n].kind = "star-repository"
    PROVE  GoodEffect([gh EXCEPT !.starred = @ \cup {Ops[n].repo}])
<1>1. Ops[n].repo \in StarOperations(Plan)
  BY DEF StarOperations, Ids, OpIds, Ops
<1>2. gh \in AccountState
  BY DEF TypeInv, TypeOK
<1>3. QED
  BY <1>1, <1>2 DEF GoodEffect, SealedListsBorn, AccountState

\* Replacing the memberships of a repository by a sound set neither loses a
\* sealed membership nor adds an unplanned one.
LEMMA MembershipEffect ==
    ASSUME TypeInv, SealedListsBorn, NEW req \in Request, RequestSound(req),
           req.op.kind = "add-membership"
    PROVE  GoodEffect(ReplaceMemberships(gh, req.op.repo, req.lists))
<1> DEFINE repo == req.op.repo
           new == ReplaceMemberships(gh, repo, req.lists)
<1>1. repo \in Repos
  BY OperationFields DEF Request
<1>2. gh \in AccountState
  BY DEF TypeInv, TypeOK
<1>3. /\ new.starred = gh.starred
      /\ new.lists = [l \in ListIds |->
            IF l \notin Live(gh.lists) THEN gh.lists[l]
            ELSE IF l \in req.lists
            THEN [gh.lists[l] EXCEPT !.members = @ \cup {repo}]
            ELSE [gh.lists[l] EXCEPT !.members = @ \ {repo}]]
  BY <1>2 DEF ReplaceMemberships, AccountState
<1>4. \A l \in ListIds :
        /\ new.lists[l].status = gh.lists[l].status
        /\ new.lists[l].members \subseteq
               gh.lists[l].members \cup (IF l \in req.lists THEN {repo} ELSE {})
        /\ gh.lists[l].members \ (IF l \in req.lists THEN {} ELSE {repo})
               \subseteq new.lists[l].members
  BY <1>2, <1>3, AccountFields DEF ListState
<1> HIDE DEF new
<1>5. Live(new.lists) = Live(gh.lists)
  BY <1>4 DEF Live
<1>6. ASSUME NEW l \in Live(Sealed)
      PROVE  /\ new.lists[l].status # "unborn"
             /\ Sealed[l].members \cap gh.lists[l].members
                    \subseteq new.lists[l].members
             /\ new.lists[l].members \ gh.lists[l].members
                    \subseteq Sealed[l].members \cup Wanted(l)
  <2>1. l \in ListIds
    BY DEF Live
  <2>2. repo \in Sealed[l].members => l \in req.lists
    BY DEF RequestSound
  <2>3. l \in req.lists => repo \in Sealed[l].members \cup Wanted(l)
    BY <1>1 DEF RequestSound, Wanted
  <2>4. QED
    BY <1>4, <2>1, <2>2, <2>3 DEF SealedListsBorn
<1>7. QED
  BY <1>3, <1>5, <1>6 DEF GoodEffect, new

\* Whatever sound request GitHub executes, its effect is good.
LEMMA EffectIsGood ==
    ASSUME TypeInv, SealedListsBorn, NEW req \in Request, RequestSound(req),
           Executable(req)
    PROVE  GoodEffect(AfterEffect(req))
<1>1. PICK n \in Ids : req.op = Ops[n]
  BY DEF RequestSound
<1>2. req.op.kind \in Kinds
  BY OperationFields DEF Request
<1>3. CASE req.op.kind = "create-list"
  BY <1>1, <1>3, CreateEffect DEF AfterEffect, Executable
<1>4. CASE req.op.kind = "star-repository"
  BY <1>1, <1>4, StarEffect DEF AfterEffect
<1>5. CASE req.op.kind = "add-membership"
  BY <1>5, MembershipEffect DEF AfterEffect
<1>6. QED
  BY <1>2, <1>3, <1>4, <1>5 DEF Kinds

-----------------------------------------------------------------------------
(* Steps. *)

\* No edit of the owner takes a node ID back.
LEMMA OwnerKeepsIds ==
    ASSUME TypeInv, OwnerEdit
    PROVE  \A l \in ListIds :
               gh.lists[l].status # "unborn" => gh'.lists[l].status # "unborn"
<1> DEFINE Kept(account) ==
        \A l \in ListIds :
            gh.lists[l].status # "unborn" => account.lists[l].status # "unborn"
<1>1. gh \in AccountState
  BY DEF TypeInv, TypeOK
<1>2. ASSUME NEW account, OwnerCommits(account), Kept(account)
      PROVE  Kept(gh')
  BY <1>2 DEF OwnerCommits, Commit
<1>3. CASE OwnerTogglesStar
  <2>1. \A repo \in Repos : /\ Kept([gh EXCEPT !.starred = @ \cup {repo}])
                            /\ Kept([gh EXCEPT !.starred = @ \ {repo}])
    BY <1>1 DEF AccountState
  <2> HIDE DEF Kept
  <2>2. Kept(gh')
    BY <1>2, <1>3, <2>1 DEF OwnerTogglesStar
  <2>3. QED
    BY <2>2 DEF Kept
<1>4. CASE OwnerTogglesMembership
  <2>1. ASSUME NEW l \in Live(gh.lists), NEW repo \in Repos
        PROVE  /\ Kept([gh EXCEPT !.lists[l].members = @ \cup {repo}])
               /\ Kept([gh EXCEPT !.lists[l].members = @ \ {repo}])
    BY <1>1 DEF AccountState, ListTable, ListState, Live
  <2> HIDE DEF Kept
  <2>2. Kept(gh')
    BY <1>2, <1>4, <2>1 DEF OwnerTogglesMembership
  <2>3. QED
    BY <2>2 DEF Kept
<1>5. CASE OwnerEditsList
  <2>1. ASSUME NEW name \in Names, NEW conforming \in BOOLEAN
        PROVE  /\ Kept(CreateList(gh, name, conforming))
               /\ \A l \in Live(gh.lists) :
                     Kept([gh EXCEPT !.lists[l] =
                         [@ EXCEPT !.name = name, !.conforming = conforming]])
    <3>1. Kept(CreateList(gh, name, conforming))
      BY <1>1 DEF CreateList, AccountState, ListTable
    <3>2. ASSUME NEW l \in Live(gh.lists)
          PROVE  Kept([gh EXCEPT !.lists[l] =
                     [@ EXCEPT !.name = name, !.conforming = conforming]])
      BY <1>1 DEF AccountState, ListTable, ListState, Live
    <3>3. QED
      BY <3>1, <3>2
  <2> HIDE DEF Kept
  <2>2. Kept(gh')
    BY <1>2, <1>5, <2>1 DEF OwnerEditsList
  <2>3. QED
    BY <2>2 DEF Kept
<1>6. CASE OwnerDeletesList
  <2>1. ASSUME NEW l \in Live(gh.lists)
        PROVE  Kept([gh EXCEPT !.lists[l] =
                   [@ EXCEPT !.status = "gone", !.members = {}]])
    BY <1>1 DEF AccountState, ListTable, ListState, Live
  <2> HIDE DEF Kept
  <2>2. Kept(gh')
    BY <1>2, <1>6, <2>1 DEF OwnerDeletesList
  <2>3. QED
    BY <2>2 DEF Kept
<1>7. QED
  BY <1>3, <1>4, <1>5, <1>6 DEF OwnerEdit

\* Every step leaves the account alone, is an edit of its owner, or has a
\* good effect.
LEMMA EffectStep ==
    ASSUME SafetyInv, [Next]_vars
    PROVE  \/ gh' = gh
           \/ OwnerEdit
           \/ GoodEffect(gh')
<1> USE DEF SafetyInv
<1>1. ASSUME NEW n \in Ids, Attempting(n), Executable(RequestFor(n)),
             Commit(AfterEffect(RequestFor(n)))
      PROVE  GoodEffect(gh')
  <2>1. RequestFor(n) \in Request
    BY RequestForType
  <2>2. RequestSound(RequestFor(n))
    BY <1>1, RequestForIsSound DEF Attempting
  <2>3. gh' = AfterEffect(RequestFor(n))
    BY <1>1 DEF Commit
  <2>4. GoodEffect(AfterEffect(RequestFor(n)))
    BY <1>1, <2>1, <2>2, EffectIsGood
  <2>5. QED
    BY <2>3, <2>4
<1>2. CASE AttemptSucceeds
  BY <1>1, <1>2 DEF AttemptSucceeds
<1>3. CASE AttemptLosesResponse
  BY <1>1, <1>3 DEF AttemptLosesResponse
<1>4. CASE LateEffect
  <2>1. PICK req \in late : Executable(req) /\ Commit(AfterEffect(req))
    BY <1>4 DEF LateEffect
  <2>2. req \in Request
    BY DEF TypeInv, TypeOK
  <2>3. GoodEffect(AfterEffect(req))
    BY <2>1, <2>2, EffectIsGood
  <2>4. gh' = AfterEffect(req)
    BY <2>1 DEF Commit
  <2>5. QED
    BY <2>3, <2>4
<1>5. CASE AttemptHasNoEffect \/ AttemptIsDelayed
  BY <1>5 DEF AttemptHasNoEffect, AttemptIsDelayed, remote
<1>6. CASE \/ StartSession \/ StartSatisfied \/ RecordSuccess \/ RecordFailure
          \/ FinishWithReadback \/ FinishWithoutReadback
          \/ ReadbackFails \/ ReadbackMismatch \/ ReadbackAdvances
          \/ FinalReadback \/ RecordComplete \/ Crash \/ TargetMissing
  BY <1>6 DEF StartSession, StartSatisfied, RecordSuccess, RecordFailure,
     FinishWithReadback, FinishWithoutReadback, ReadbackFails,
     ReadbackMismatch, ReadbackAdvances, FinalReadback, RecordComplete, Crash,
     TargetMissing, remote
<1>7. CASE \E l \in ListIds : CatchUp(l)
  BY <1>7 DEF CatchUp
<1>8. CASE UNCHANGED vars
  BY <1>8 DEF vars
<1>9. QED
  BY <1>2, <1>3, <1>4, <1>5, <1>6, <1>7, <1>8 DEF Next, Session, Attempt

\* A session only ever takes up an allowed state, and keeps it allowed.
LEMMA StateSoundStep ==
    ASSUME SafetyInv, [Next]_vars
    PROVE  StateSound'
<1> USE DEF SafetyInv, StateSound
<1>1. CASE StartSession \/ StartSatisfied \/ ReadbackAdvances \/ FinalReadback
  BY <1>1 DEF StartSession, StartSatisfied, ReadbackAdvances, FinalReadback
<1>2. CASE Attempt
  BY <1>2 DEF Attempt, AttemptSucceeds, AttemptLosesResponse, Attempted,
     AttemptHasNoEffect, AttemptIsDelayed, Attempting
<1>3. CASE RecordSuccess
  <2>1. idx \in Ids /\ Ops[idx].kind = phase /\ current \in AccountState
    BY <1>3 DEF RecordSuccess, TypeInv, TypeOK, Control
  <2>2. AllowedProgress(Plan, current)
    BY <1>3 DEF RecordSuccess
  <2>3. CASE phase = "add-membership"
    BY <1>3, <2>1, <2>2, <2>3, MaterializeAllowed DEF RecordSuccess
  <2>4. CASE phase # "add-membership"
    BY <1>3, <2>2, <2>4 DEF RecordSuccess
  <2>5. QED
    BY <2>3, <2>4
<1>4. CASE RecordFailure
  BY <1>4 DEF RecordFailure
<1>5. CASE \/ FinishWithReadback \/ FinishWithoutReadback \/ ReadbackFails
          \/ ReadbackMismatch \/ RecordComplete \/ Crash \/ TargetMissing
  BY <1>5 DEF FinishWithReadback, FinishWithoutReadback, ReadbackFails,
     ReadbackMismatch, RecordComplete, Crash, TargetMissing, Exit
<1>6. CASE OwnerEdit
  BY <1>6, OwnerType DEF TypeInv, session
<1>7. CASE LateEffect \/ \E l \in ListIds : CatchUp(l)
  BY <1>7 DEF LateEffect, CatchUp, session
<1>8. CASE UNCHANGED vars
  BY <1>8 DEF vars
<1>9. QED
  BY <1>1, <1>2, <1>3, <1>4, <1>5, <1>6, <1>7, <1>8 DEF Next, Session

\* Only sound requests are ever given up on.
LEMMA LateSoundStep ==
    ASSUME SafetyInv, [Next]_vars
    PROVE  \A req \in late' : RequestSound(req)
<1> USE DEF SafetyInv
<1>1. CASE AttemptIsDelayed
  <2>1. PICK n \in Ids : Attempting(n) /\ late' = late \cup {RequestFor(n)}
    BY <1>1 DEF AttemptIsDelayed
  <2>2. RequestSound(RequestFor(n))
    BY <2>1, RequestForIsSound DEF Attempting
  <2>3. QED
    BY <2>1, <2>2
<1>2. CASE LateEffect
  BY <1>2 DEF LateEffect
<1>3. CASE AttemptSucceeds \/ AttemptLosesResponse \/ AttemptHasNoEffect
  BY <1>3 DEF AttemptSucceeds, AttemptLosesResponse, AttemptHasNoEffect, remote
<1>4. CASE \/ StartSession \/ StartSatisfied \/ RecordSuccess \/ RecordFailure
          \/ FinishWithReadback \/ FinishWithoutReadback
          \/ ReadbackFails \/ ReadbackMismatch \/ ReadbackAdvances
          \/ FinalReadback \/ RecordComplete \/ Crash \/ TargetMissing
  BY <1>4 DEF StartSession, StartSatisfied, RecordSuccess, RecordFailure,
     FinishWithReadback, FinishWithoutReadback, ReadbackFails,
     ReadbackMismatch, ReadbackAdvances, FinalReadback, RecordComplete, Crash,
     TargetMissing, remote
<1>5. CASE OwnerEdit
  BY <1>5, OwnerType DEF TypeInv
<1>6. CASE \E l \in ListIds : CatchUp(l)
  BY <1>6 DEF CatchUp
<1>7. CASE UNCHANGED vars
  BY <1>7 DEF vars
<1>8. QED
  BY <1>1, <1>2, <1>3, <1>4, <1>5, <1>6, <1>7 DEF Next, Session, Attempt

\* SafetyInv is inductive.
LEMMA SafetyStep == SafetyInv /\ [Next]_vars => SafetyInv'
<1> SUFFICES ASSUME SafetyInv, [Next]_vars
             PROVE  SafetyInv'
  OBVIOUS
<1>1. TypeInv'
  BY TypeStep DEF SafetyInv
<1>2. StateSound'
  BY StateSoundStep
<1>3. (\A req \in late : RequestSound(req))'
  BY LateSoundStep DEF RequestSound, Sealed
<1>4. SealedListsBorn'
  <2>1. \A l \in Live(Sealed) : l \in ListIds
    BY DEF Live
  <2>2. CASE gh' = gh
    BY <2>2 DEF SafetyInv, SealedListsBorn
  <2>3. CASE OwnerEdit
    BY <2>1, <2>3, OwnerKeepsIds DEF SafetyInv, SealedListsBorn
  <2>4. CASE GoodEffect(gh')
    BY <2>4 DEF GoodEffect, SealedListsBorn
  <2>5. QED
    BY <2>2, <2>3, <2>4, EffectStep
<1>5. QED
  BY <1>1, <1>2, <1>3, <1>4 DEF SafetyInv

\* Nothing has been asked for at first.
LEMMA SafetyInit == Init => SafetyInv
<1>1. Init => StateSound /\ late = {} /\ SealedListsBorn
  BY DEF Init, StateSound, SealedListsBorn, Sealed, Live
<1>2. QED
  BY <1>1, TypeInit DEF SafetyInv

\* SafetyInv is an invariant of every session, whoever else acts.
LEMMA SafetyInvariant == Spec => []SafetyInv
  BY SafetyInit, SafetyStep, PTL DEF Spec

-----------------------------------------------------------------------------
(* The promises of the executor about the account. *)

\* No request of the tool, executed when it was sent or long after, removes a
\* membership that was there when the plan was sealed and still is: however
\* stale the reads, whatever the owner edits meanwhile, however many sessions
\* fail or crash (admin_services.py, the membership loop).
THEOREM SealedMembershipsSurvive == Spec => BaselineMembershipsKept
<1> DEFINE Kept == ownerEdits' = ownerEdits =>
                     \A l \in Live(Plan.baseline.lists) :
                         Plan.baseline.lists[l].members \cap gh.lists[l].members
                             \subseteq gh'.lists[l].members
<1>1. SafetyInv /\ [Next]_vars => [Kept]_vars
  <2>1. SUFFICES ASSUME SafetyInv, [Next]_vars, ownerEdits' = ownerEdits
                 PROVE  \A l \in Live(Plan.baseline.lists) :
                            Plan.baseline.lists[l].members \cap gh.lists[l].members
                                \subseteq gh'.lists[l].members
    OBVIOUS
  <2>2. ~OwnerEdit
    BY <2>1, OwnerType DEF SafetyInv, TypeInv, TypeOK
  <2>3. CASE gh' = gh
    BY <2>3
  <2>4. CASE GoodEffect(gh')
    BY <2>4 DEF GoodEffect, Sealed
  <2>5. QED
    BY <2>1, <2>2, <2>3, <2>4, EffectStep
<1>2. QED
  BY <1>1, SafetyInvariant, PTL DEF Spec, BaselineMembershipsKept

\* Whatever the tool stars or creates is named by a sealed operation, and what
\* it puts into a List that existed at sealing was there or is planned to be
\* (assert_allowed_progress, requested_membership_union).
THEOREM AdditionsArePlanned == Spec => OnlyPlannedAdditions
<1> DEFINE Planned ==
        ownerEdits' = ownerEdits =>
          /\ gh'.starred \ gh.starred \subseteq StarOperations(Plan)
          /\ \A l \in Live(Plan.baseline.lists) :
                gh'.lists[l].members \ gh.lists[l].members
                    \subseteq Plan.baseline.lists[l].members
                        \cup {repo \in Repos :
                               Plan.baseline.lists[l].name \in Plan.desired[repo]}
          /\ \A l \in Live(gh'.lists) \ Live(gh.lists) :
                \E n \in Ids : /\ Ops[n].kind = "create-list"
                               /\ Ops[n].slug = gh'.lists[l].name
<1>1. SafetyInv /\ [Next]_vars => [Planned]_vars
  <2>1. SUFFICES ASSUME SafetyInv, [Next]_vars, ownerEdits' = ownerEdits
                 PROVE  Planned
    OBVIOUS
  <2>2. ~OwnerEdit
    BY <2>1, OwnerType DEF SafetyInv, TypeInv, TypeOK
  <2>3. CASE gh' = gh
    BY <2>3
  <2>4. CASE GoodEffect(gh')
    BY <2>4 DEF GoodEffect, Sealed, Wanted
  <2>5. QED
    BY <2>1, <2>2, <2>3, <2>4, EffectStep
<1>2. QED
  BY <1>1, SafetyInvariant, PTL DEF Spec, OnlyPlannedAdditions

-----------------------------------------------------------------------------
(***************************************************************************)
(* What a verification (admin_services.verified) may be believed to say,   *)
(* for every plan, every account and every answer of probe and readback.   *)
(*                                                                         *)
(* verified() enumerates a plan's promises, turns each into one state and  *)
(* summarises the states; HonestVerdict is about the summary alone.  The   *)
(* proof goes through the states: which of them can occur after each of    *)
(* the four ends (EndStates), and that none is a mismatch after a readback *)
(* exactly when the plan's postconditions hold (ReadBackStates).           *)
(***************************************************************************)

\* A condition is in the state it was given.
LEMMA ConditionState ==
    \A kind, subject, state : Condition(kind, subject, state).state = state
  BY DEF Condition

\* A plan that cannot be read has nothing but unavailable conditions.
LEMMA UnavailableStates ==
    ASSUME NEW plan
    PROVE  States(UnavailablePostconditions(plan)) = {"unavailable"}
<1>1. \A condition \in UnavailablePostconditions(plan) : condition.state = "unavailable"
  BY DEF UnavailablePostconditions, Condition
<1>2. Condition("target-state-integrity", <<>>, "unavailable")
          \in UnavailablePostconditions(plan)
  BY DEF UnavailablePostconditions
<1>3. QED
  BY <1>1, <1>2, ConditionState DEF States

\* After a readback every condition was found or not, and all were found
\* exactly when the plan's postconditions hold of what the right account shows.
LEMMA ReadBackStates ==
    ASSUME NEW plan \in PlanRecord, NEW readback, NEW shown
    PROVE  LET conditions == VerifyPostconditions(plan, readback, shown)
           IN  /\ States(conditions) \subseteq {"verified", "mismatch"}
               /\ "mismatch" \notin States(conditions)
                     <=> readback = "read" /\ Postconditions(plan, shown)
<1> DEFINE conditions == VerifyPostconditions(plan, readback, shown)
           Lists == {Condition("public-list", <<slug>>,
                        Found(Named(shown.lists, slug) # {})) : slug \in Slugs}
           Stars == {Condition("star", <<repo>>, Found(repo \in shown.starred)) :
                        repo \in Repos}
           Members == {Condition("membership", pair,
                          Found(IsMember(pair[2], pair[1], shown.lists))) :
                        pair \in Desired(plan)}
           Kept == {Condition("preserved-membership", pair,
                       Found(pair[2] \in MembershipsOf(pair[1], shown.lists))) :
                        pair \in Preserved(plan)}
           First == Identity(Found(readback = "read"))
           Second == Condition("target-state-integrity", <<>>,
                               Found(AllowedProgress(plan, shown)))
           Good(set) == \A condition \in set : condition.state = "verified"
           Judged(set) == \A condition \in set : condition.state \in {"verified", "mismatch"}
<1>1. conditions = {First, Second} \cup Lists \cup Stars \cup Members \cup Kept
  BY DEF VerifyPostconditions
<1>2. \A holds \in BOOLEAN : /\ Found(holds) \in {"verified", "mismatch"}
                             /\ Found(holds) = "verified" <=> holds
  BY DEF Found
<1>3. /\ Judged({First, Second})
      /\ Good({First, Second}) <=> readback = "read" /\ AllowedProgress(plan, shown)
  <2>1. First.state = Found(readback = "read")
    BY ConditionState DEF Identity
  <2>2. Second.state = Found(AllowedProgress(plan, shown))
    BY ConditionState
  <2>3. AllowedProgress(plan, shown) \in BOOLEAN
    BY DEF AllowedProgress
  <2>4. QED
    BY <1>2, <2>1, <2>2, <2>3
<1>4. Judged(Lists) /\ (Good(Lists) <=> \A slug \in Slugs : Named(shown.lists, slug) # {})
  <2>1. \A slug \in Slugs :
            LET state == Condition("public-list", <<slug>>,
                                   Found(Named(shown.lists, slug) # {})).state
            IN  /\ state \in {"verified", "mismatch"}
                /\ state = "verified" <=> Named(shown.lists, slug) # {}
    BY DEF Found, Condition
  <2>2. QED
    BY <2>1
<1>5. Judged(Stars) /\ (Good(Stars) <=> \A repo \in Repos : repo \in shown.starred)
  <2>1. \A repo \in Repos :
            LET state == Condition("star", <<repo>>, Found(repo \in shown.starred)).state
            IN  /\ state \in {"verified", "mismatch"}
                /\ state = "verified" <=> repo \in shown.starred
    BY DEF Found, Condition
  <2>2. QED
    BY <2>1
<1>6. /\ Judged(Members)
      /\ Good(Members) <=> \A pair \in Desired(plan) : IsMember(pair[2], pair[1], shown.lists)
  <2>1. \A pair : IsMember(pair[2], pair[1], shown.lists) \in BOOLEAN
    BY DEF IsMember
  <2>2. QED
    BY <1>2, <2>1, ConditionState
<1>7. /\ Judged(Kept)
      /\ Good(Kept) <=> \A pair \in Preserved(plan) :
                            pair[2] \in MembershipsOf(pair[1], shown.lists)
  <2>1. \A pair \in Preserved(plan) :
            LET state == Condition("preserved-membership", pair,
                            Found(pair[2] \in MembershipsOf(pair[1], shown.lists))).state
            IN  /\ state \in {"verified", "mismatch"}
                /\ state = "verified" <=> pair[2] \in MembershipsOf(pair[1], shown.lists)
    BY DEF Found, Condition
  <2>2. QED
    BY <2>1
<1>8. (\A pair \in Desired(plan) : IsMember(pair[2], pair[1], shown.lists))
        <=> \A repo \in Repos : \A slug \in plan.desired[repo] :
                IsMember(repo, slug, shown.lists)
  <2>1. \A repo \in Repos : plan.desired[repo] \subseteq Slugs
    BY DEF PlanRecord
  <2>2. ASSUME NEW repo \in Repos, NEW slug \in plan.desired[repo]
        PROVE  <<slug, repo>> \in Desired(plan)
    BY <2>1 DEF Desired
  <2>3. ASSUME NEW pair \in Desired(plan)
        PROVE  pair[2] \in Repos /\ pair[1] \in plan.desired[pair[2]]
    BY DEF Desired
  <2>4. QED
    BY <2>2, <2>3
<1>9. (\A pair \in Preserved(plan) : pair[2] \in MembershipsOf(pair[1], shown.lists))
        <=> \A repo \in Repos : MembershipsOf(repo, plan.baseline.lists)
                                    \subseteq MembershipsOf(repo, shown.lists)
  <2>1. ASSUME NEW repo \in Repos, NEW l \in MembershipsOf(repo, plan.baseline.lists)
        PROVE  <<repo, l>> \in Preserved(plan)
    BY DEF Preserved, MembershipsOf, Live
  <2>2. ASSUME NEW pair \in Preserved(plan)
        PROVE  /\ pair[1] \in Repos
               /\ pair[2] \in MembershipsOf(pair[1], plan.baseline.lists)
    BY DEF Preserved
  <2>3. QED
    BY <2>1, <2>2
<1>10. Judged(conditions)
  BY <1>1, <1>3, <1>4, <1>5, <1>6, <1>7
<1>11. Good(conditions) <=> readback = "read" /\ Postconditions(plan, shown)
  <2>1. Good(conditions) <=> /\ Good({First, Second}) /\ Good(Lists) /\ Good(Stars)
                             /\ Good(Members) /\ Good(Kept)
    BY <1>1
  <2>2. Postconditions(plan, shown) <=>
            /\ AllowedProgress(plan, shown)
            /\ \A slug \in Slugs : Named(shown.lists, slug) # {}
            /\ \A repo \in Repos : repo \in shown.starred
            /\ \A repo \in Repos : \A slug \in plan.desired[repo] :
                  IsMember(repo, slug, shown.lists)
            /\ \A repo \in Repos : MembershipsOf(repo, plan.baseline.lists)
                                       \subseteq MembershipsOf(repo, shown.lists)
    BY DEF Postconditions
  <2> HIDE DEF Good, First, Second, Lists, Stars, Members, Kept, conditions
  <2>3. QED
    BY <1>3, <1>4, <1>5, <1>6, <1>7, <1>8, <1>9, <2>1, <2>2
<1> HIDE DEF conditions
<1>12. QED
  BY <1>10, <1>11 DEF States, conditions

\* The states of the conditions after each of the four ends of verified().
LEMMA EndStates ==
    ASSUME NEW plan, NEW shown
    PROVE  /\ \A account \in {"none", "target", "other"} :
                 LET states == States(ProbeUnusable(plan, account))
                 IN  /\ "unavailable" \in states
                     /\ "mismatch" \in states <=> account = "other"
           /\ "mismatch" \in States(ProbeElsewhere(plan))
           /\ \A readback \in Readbacks :
                 LET states == States(ReadbackFailed(plan, readback))
                 IN  /\ "unavailable" \in states
                     /\ "mismatch" \in states <=> readback = "identityError"
           /\ \A readback : \A state \in {"mismatch", "unavailable"} :
                 state \in States(ReadBack(plan, readback, shown))
                     <=> state \in States(VerifyPostconditions(plan, readback, shown))
<1>1. \A one, two, others, state :
          state \in States({one, two} \cup others) <=>
              state = one.state \/ state = two.state \/ state \in States(others)
  BY DEF States
<1>2. \A one, others, state :
          state \in States({one} \cup others) <=>
              state = one.state \/ state \in States(others)
  BY DEF States
<1>3. \A state : Capability(state).state = state /\ Identity(state).state = state
  BY DEF Capability, Identity, Condition
<1>4. States(UnavailablePostconditions(plan)) = {"unavailable"}
  BY UnavailableStates
<1>5. ASSUME NEW account \in {"none", "target", "other"}
      PROVE  LET states == States(ProbeUnusable(plan, account))
             IN  /\ "unavailable" \in states
                 /\ "mismatch" \in states <=> account = "other"
  <2> DEFINE found == CASE account = "none" -> "unavailable"
                        [] account = "target" -> "verified"
                        [] account = "other" -> "mismatch"
             states == States(ProbeUnusable(plan, account))
  <2>1. found = "mismatch" <=> account = "other"
    OBVIOUS
  <2>2. ProbeUnusable(plan, account) = {Capability("unavailable"), Identity(found)}
                                           \cup UnavailablePostconditions(plan)
    BY DEF ProbeUnusable
  <2> HIDE DEF found
  <2>3. \A state : state \in states <=>
            state = "unavailable" \/ state = found \/ state \in {"unavailable"}
    BY <1>1, <1>3, <1>4, <2>2
  <2>4. QED
    BY <2>1, <2>3
<1>6. "mismatch" \in States(ProbeElsewhere(plan))
  BY <1>1, <1>3 DEF ProbeElsewhere
<1>7. ASSUME NEW readback \in Readbacks
      PROVE  LET states == States(ReadbackFailed(plan, readback))
             IN  /\ "unavailable" \in states
                 /\ "mismatch" \in states <=> readback = "identityError"
  <2> DEFINE found == Found(readback # "identityError")
             states == States(ReadbackFailed(plan, readback))
  <2>1. found = "mismatch" <=> readback = "identityError"
    BY DEF Found
  <2>2. ReadbackFailed(plan, readback) = {Capability("verified"), Identity(found)}
                                             \cup UnavailablePostconditions(plan)
    BY DEF ReadbackFailed
  <2> HIDE DEF found
  <2>3. \A state : state \in states <=>
            state = "verified" \/ state = found \/ state \in {"unavailable"}
    BY <1>1, <1>3, <1>4, <2>2
  <2>4. QED
    BY <2>1, <2>3
<1>8. ASSUME NEW readback, NEW state \in {"mismatch", "unavailable"}
      PROVE  state \in States(ReadBack(plan, readback, shown))
                 <=> state \in States(VerifyPostconditions(plan, readback, shown))
  <2>1. Capability("verified").state # state
    BY <1>3
  <2>2. QED
    BY <1>2, <2>1 DEF ReadBack
<1>9. QED
  BY <1>5, <1>6, <1>7, <1>8

\* The verdict of every verification is honest, of every plan and account.
LEMMA VerdictOfEveryPlan ==
    ASSUME NEW plan \in PlanRecord, NEW shown
    PROVE  HonestVerdict(plan, shown)
<1> SUFFICES ASSUME NEW reading \in Readings
             PROVE  LET status == Status(Conditions(plan, reading, shown))
                        target == reading.probe = Target
                        seen == target /\ Resolved(reading, shown)
                        elsewhere == \/ reading.probe.account = "other"
                                     \/ target /\ reading.readback = "identityError"
                                     \/ seen /\ reading.readback = "readOther"
                    IN  /\ status = "verified" <=>
                               seen /\ ~elsewhere /\ Postconditions(plan, shown)
                        /\ status = "failed" <=>
                               elsewhere \/ (seen /\ ~Postconditions(plan, shown))
  BY DEF HonestVerdict
<1> DEFINE conditions == Conditions(plan, reading, shown)
           probe == reading.probe
<1>1. /\ probe \in Probes /\ reading.readback \in Readbacks
      /\ probe # Target => reading.readback = "error"
  BY DEF Readings
<1>2. /\ probe.usable \in BOOLEAN
      /\ probe.account \in {"none", "target", "other"}
      /\ probe.usable => probe.account # "none"
      /\ probe = Target <=> probe.usable /\ probe.account = "target"
  <2>1. CASE probe \in [usable : {FALSE}, account : {"none", "target", "other"}]
    <3>1. probe.usable = FALSE /\ probe.account \in {"none", "target", "other"}
      BY <2>1
    <3>2. Target.usable = TRUE
      BY DEF Target
    <3>3. QED
      BY <3>1, <3>2
  <2>2. CASE probe \in [usable : {TRUE}, account : {"target", "other"}]
    <3>1. probe.usable = TRUE /\ probe.account \in {"target", "other"}
      BY <2>2
    <3>2. probe = [usable |-> TRUE, account |-> probe.account]
      BY <2>2
    <3>3. Target.account = "target"
      BY DEF Target
    <3>4. CASE probe.account = "target"
      <4>1. probe = [usable |-> TRUE, account |-> "target"]
        BY <3>2, <3>4
      <4>2. QED
        BY <3>1, <3>4, <4>1 DEF Target
    <3>5. CASE probe.account # "target"
      BY <3>1, <3>3, <3>5
    <3>6. QED
      BY <3>4, <3>5
  <2>3. QED
    BY <1>1, <2>1, <2>2 DEF Probes
<1>3. Status(conditions) =
          IF "mismatch" \in States(conditions) THEN "failed"
          ELSE IF "unavailable" \in States(conditions) THEN "partial"
          ELSE "verified"
  BY DEF Status
<1>4. CASE ~probe.usable
  <2>1. conditions = ProbeUnusable(plan, probe.account)
    BY <1>2, <1>4 DEF Conditions
  <2>2. "unavailable" \in States(conditions)
    BY <1>2, <2>1, EndStates
  <2>3. "mismatch" \in States(conditions) <=> probe.account = "other"
    BY <1>2, <2>1, EndStates
  <2>4. QED
    BY <1>2, <1>3, <1>4, <2>2, <2>3
<1>5. CASE probe.usable /\ probe.account = "other"
  <2>1. conditions = ProbeElsewhere(plan)
    BY <1>2, <1>5 DEF Conditions
  <2>2. "mismatch" \in States(conditions)
    BY <2>1, EndStates
  <2>3. QED
    BY <1>2, <1>3, <1>5, <2>2
<1>6. CASE probe = Target /\ ~Resolved(reading, shown)
  <2>1. conditions = ReadbackFailed(plan, reading.readback)
    BY <1>2, <1>6 DEF Conditions
  <2>2. "unavailable" \in States(conditions)
    BY <1>1, <2>1, EndStates
  <2>3. "mismatch" \in States(conditions) <=> reading.readback = "identityError"
    BY <1>1, <2>1, EndStates
  <2>4. QED
    BY <1>2, <1>3, <1>6, <2>2, <2>3
<1>7. CASE probe = Target /\ Resolved(reading, shown)
  <2>1. conditions = ReadBack(plan, reading.readback, shown)
    BY <1>2, <1>7 DEF Conditions
  <2>2. "unavailable" \notin States(conditions)
    BY <2>1, EndStates, ReadBackStates
  <2>3. "mismatch" \notin States(conditions) <=>
            reading.readback = "read" /\ Postconditions(plan, shown)
    BY <2>1, EndStates, ReadBackStates
  <2>4. reading.readback \in {"read", "readOther"}
    BY <1>7 DEF Resolved
  <2>5. QED
    BY <1>2, <1>3, <1>7, <2>2, <2>3, <2>4
<1>8. QED
  BY <1>2, <1>4, <1>5, <1>6, <1>7

\* In whatever state sessions, faults, crashes and the owner leave the
\* account, `github verify` says "verified" exactly when it read the right
\* account and every promise holds, and "failed" exactly when it saw another
\* account or a broken promise (verified, _verify_status).
THEOREM VerdictsAreHonest == Spec => []VerdictIsHonest
<1>1. Plan \in PlanRecord
  BY PlanAssumption DEF PlanRecord
<1>2. VerdictIsHonest
  BY <1>1, VerdictOfEveryPlan DEF VerdictIsHonest
<1>3. QED
  BY <1>2, PTL

-----------------------------------------------------------------------------
(* What a verify receipt lists.  Each of the four ends of verified() is a  *)
(* report: a state for each promise of the plan.  The functions give the   *)
(* states of the families of promises.                                     *)

Report(plan, states, list, star, member, kept) ==
    {Capability(states.capability), Identity(states.identity),
     Condition("target-state-integrity", <<>>, states.integrity)}
    \cup {Condition("public-list", <<slug>>, list[slug]) : slug \in Slugs}
    \cup {Condition("star", <<repo>>, star[repo]) : repo \in Repos}
    \cup {Condition("membership", pair, member[pair]) : pair \in Desired(plan)}
    \cup {Condition("preserved-membership", pair, kept[pair]) :
            pair \in Preserved(plan)}

Promise(kind, subject) == [kind |-> kind, subject |-> subject]

Promised(plan) ==
    {Promise("capability", <<>>), Promise("target-identity", <<>>),
     Promise("target-state-integrity", <<>>)}
    \cup {Promise("public-list", <<slug>>) : slug \in Slugs}
    \cup {Promise("star", <<repo>>) : repo \in Repos}
    \cup {Promise("membership", pair) : pair \in Desired(plan)}
    \cup {Promise("preserved-membership", pair) : pair \in Preserved(plan)}

Promises(conditions) ==
    {[kind |-> c.kind, subject |-> c.subject] : c \in conditions}

EachOnce(conditions) ==
    \A c, d \in conditions : c.kind = d.kind /\ c.subject = d.subject => c = d

\* A report says one thing of each promise, whatever it says.
LEMMA ReportShape ==
    ASSUME NEW plan, NEW states, NEW list, NEW star, NEW member, NEW kept
    PROVE  LET report == Report(plan, states, list, star, member, kept)
           IN  EachOnce(report) /\ Promises(report) = Promised(plan)
<1> DEFINE report == Report(plan, states, list, star, member, kept)
           Lists == {Condition("public-list", <<slug>>, list[slug]) : slug \in Slugs}
           Stars == {Condition("star", <<repo>>, star[repo]) : repo \in Repos}
           Members == {Condition("membership", pair, member[pair]) : pair \in Desired(plan)}
           Kept == {Condition("preserved-membership", pair, kept[pair]) :
                       pair \in Preserved(plan)}
           One == Capability(states.capability)
           Two == Identity(states.identity)
           Three == Condition("target-state-integrity", <<>>, states.integrity)
<1>1. report = {One, Two, Three} \cup Lists \cup Stars \cup Members \cup Kept
  BY DEF Report
<1>2. \A kind, subject, state :
          LET c == Condition(kind, subject, state)
          IN  c.kind = kind /\ c.subject = subject /\ c.state = state
  BY DEF Condition
<1>3. /\ One = Condition("capability", <<>>, states.capability)
      /\ Two = Condition("target-identity", <<>>, states.identity)
  BY DEF Capability, Identity
<1>4. EachOnce(report)
  <2>1. /\ \A c \in {One, Two, Three} :
              /\ c.kind \in {"capability", "target-identity", "target-state-integrity"}
              /\ c.kind = "capability" => c = One
              /\ c.kind = "target-identity" => c = Two
              /\ c.kind = "target-state-integrity" => c = Three
        /\ \A c \in Lists : c.kind = "public-list"
        /\ \A c \in Stars : c.kind = "star"
        /\ \A c \in Members : c.kind = "membership"
        /\ \A c \in Kept : c.kind = "preserved-membership"
    <3> HIDE DEF One, Two, Three
    <3>1. /\ One.kind = "capability" /\ Two.kind = "target-identity"
          /\ Three.kind = "target-state-integrity"
      BY <1>2, <1>3 DEF Three
    <3>2. \A c \in {One, Two, Three} :
              /\ c.kind \in {"capability", "target-identity", "target-state-integrity"}
              /\ c.kind = "capability" => c = One
              /\ c.kind = "target-identity" => c = Two
              /\ c.kind = "target-state-integrity" => c = Three
      BY <3>1
    <3>3. ASSUME NEW c \in Lists PROVE c.kind = "public-list"
      <4>1. PICK s \in Slugs : c = Condition("public-list", <<s>>, list[s])
        OBVIOUS
      <4>2. QED
        BY <1>2, <4>1
    <3>4. ASSUME NEW c \in Stars PROVE c.kind = "star"
      <4>1. PICK s \in Repos : c = Condition("star", <<s>>, star[s])
        OBVIOUS
      <4>2. QED
        BY <1>2, <4>1
    <3>5. \A c \in Members : c.kind = "membership"
      BY <1>2
    <3>6. \A c \in Kept : c.kind = "preserved-membership"
      BY <1>2
    <3>7. QED
      BY <3>2, <3>3, <3>4, <3>5, <3>6
  <2>2. \A c, d \in Lists : c.subject = d.subject => c = d
    <3>1. SUFFICES ASSUME NEW c \in Lists, NEW d \in Lists, c.subject = d.subject
                   PROVE  c = d
      OBVIOUS
    <3>2. PICK s \in Slugs : c = Condition("public-list", <<s>>, list[s])
      OBVIOUS
    <3>3. PICK t \in Slugs : d = Condition("public-list", <<t>>, list[t])
      OBVIOUS
    <3>4. <<s>> = <<t>>
      BY <1>2, <3>1, <3>2, <3>3
    <3>5. s = t
      BY <3>4
    <3>6. QED
      BY <3>2, <3>3, <3>5
  <2>3. \A c, d \in Stars : c.subject = d.subject => c = d
    <3>1. SUFFICES ASSUME NEW c \in Stars, NEW d \in Stars, c.subject = d.subject
                   PROVE  c = d
      OBVIOUS
    <3>2. PICK s \in Repos : c = Condition("star", <<s>>, star[s])
      OBVIOUS
    <3>3. PICK t \in Repos : d = Condition("star", <<t>>, star[t])
      OBVIOUS
    <3>4. <<s>> = <<t>>
      BY <1>2, <3>1, <3>2, <3>3
    <3>5. s = t
      BY <3>4
    <3>6. QED
      BY <3>2, <3>3, <3>5
  <2>4. \A c, d \in Members : c.subject = d.subject => c = d
    BY <1>2
  <2>5. \A c, d \in Kept : c.subject = d.subject => c = d
    BY <1>2
  <2> HIDE DEF report, Lists, Stars, Members, Kept, One, Two, Three
  <2>6. SUFFICES ASSUME NEW c \in report, NEW d \in report,
                        c.kind = d.kind, c.subject = d.subject
                 PROVE  c = d
    BY DEF EachOnce
  <2>7. CASE c \in {One, Two, Three}
    <3>1. d \in {One, Two, Three}
      BY <1>1, <2>1, <2>6, <2>7
    <3>2. QED
      BY <2>1, <2>6, <2>7, <3>1
  <2>8. CASE c \in Lists
    BY <1>1, <2>1, <2>2, <2>6, <2>8
  <2>9. CASE c \in Stars
    BY <1>1, <2>1, <2>3, <2>6, <2>9
  <2>10. CASE c \in Members
    BY <1>1, <2>1, <2>4, <2>6, <2>10
  <2>11. CASE c \in Kept
    BY <1>1, <2>1, <2>5, <2>6, <2>11
  <2>12. QED
    BY <1>1, <2>6, <2>7, <2>8, <2>9, <2>10, <2>11
<1>5. Promises(report) = Promised(plan)
  <2>1. \A S, T : Promises(S \cup T) = Promises(S) \cup Promises(T)
    BY DEF Promises
  <2>2. Promises({One, Two, Three}) = {Promise("capability", <<>>),
            Promise("target-identity", <<>>), Promise("target-state-integrity", <<>>)}
    <3> HIDE DEF One, Two
    <3>1. \A a, b, c : Promises({a, b, c}) = {Promise(a.kind, a.subject),
              Promise(b.kind, b.subject), Promise(c.kind, c.subject)}
      BY DEF Promises, Promise
    <3>2. QED
      BY <1>2, <1>3, <3>1
  <2>a. \A kind, subject, state :
            LET c == Condition(kind, subject, state)
            IN  [kind |-> c.kind, subject |-> c.subject] = Promise(kind, subject)
    BY <1>2 DEF Promise
  <2>3. Promises(Lists) = {Promise("public-list", <<slug>>) : slug \in Slugs}
    BY <2>a DEF Promises
  <2>4. Promises(Stars) = {Promise("star", <<repo>>) : repo \in Repos}
    BY <2>a DEF Promises
  <2>5. Promises(Members) = {Promise("membership", pair) : pair \in Desired(plan)}
    BY <1>2 DEF Promises, Promise
  <2>6. Promises(Kept) = {Promise("preserved-membership", pair) : pair \in Preserved(plan)}
    BY <1>2 DEF Promises, Promise
  <2> HIDE DEF report, Lists, Stars, Members, Kept, One, Two, Three
  <2>7. Promises(report) = Promises({One, Two, Three}) \cup Promises(Lists)
            \cup Promises(Stars) \cup Promises(Members) \cup Promises(Kept)
    <3>1. PICK a : a = {One, Two, Three} \cup Lists
      OBVIOUS
    <3>2. PICK b : b = a \cup Stars
      OBVIOUS
    <3>3. PICK c : c = b \cup Members
      OBVIOUS
    <3>4. report = c \cup Kept
      BY <1>1, <3>1, <3>2, <3>3
    <3>5. Promises(a) = Promises({One, Two, Three}) \cup Promises(Lists)
      BY <2>1, <3>1, Zenon
    <3>6. Promises(b) = Promises(a) \cup Promises(Stars)
      BY <2>1, <3>2, Zenon
    <3>7. Promises(c) = Promises(b) \cup Promises(Members)
      BY <2>1, <3>3, Zenon
    <3>8. Promises(report) = Promises(c) \cup Promises(Kept)
      BY <2>1, <3>4, Zenon
    <3>9. QED
      BY <3>5, <3>6, <3>7, <3>8, Zenon
  <2>8. QED
    BY <2>2, <2>3, <2>4, <2>5, <2>6, <2>7 DEF Promised
<1>6. QED
  BY <1>4, <1>5

\* Where nothing of the projection could be read, every promise is unavailable.
LEMMA UnavailableReport ==
    ASSUME NEW plan, NEW capability, NEW identity
    PROVE  LET conditions == {Capability(capability), Identity(identity)}
                                 \cup UnavailablePostconditions(plan)
           IN  EachOnce(conditions) /\ Promises(conditions) = Promised(plan)
<1> DEFINE conditions == {Capability(capability), Identity(identity)}
                             \cup UnavailablePostconditions(plan)
<1>1. PICK states : states = [capability |-> capability, identity |-> identity,
                              integrity |-> "unavailable"]
  OBVIOUS
<1>2. PICK list : list = [slug \in Slugs |-> "unavailable"]
  OBVIOUS
<1>3. PICK star : star = [repo \in Repos |-> "unavailable"]
  OBVIOUS
<1>4. PICK member : member = [pair \in Desired(plan) |-> "unavailable"]
  OBVIOUS
<1>5. PICK kept : kept = [pair \in Preserved(plan) |-> "unavailable"]
  OBVIOUS
<1>6. conditions = Report(plan, states, list, star, member, kept)
  BY <1>1, <1>2, <1>3, <1>4, <1>5 DEF UnavailablePostconditions, Report
<1>7. QED
  BY <1>6, ReportShape

\* A complete readback decides every promise.
LEMMA ReadBackReport ==
    ASSUME NEW plan, NEW readback, NEW shown
    PROVE  LET conditions == ReadBack(plan, readback, shown)
           IN  EachOnce(conditions) /\ Promises(conditions) = Promised(plan)
<1> DEFINE conditions == ReadBack(plan, readback, shown)
<1>1. PICK states : states = [capability |-> "verified",
                              identity |-> Found(readback = "read"),
                              integrity |-> Found(AllowedProgress(plan, shown))]
  OBVIOUS
<1>2. PICK list : list = [slug \in Slugs |-> Found(Named(shown.lists, slug) # {})]
  OBVIOUS
<1>3. PICK star : star = [repo \in Repos |-> Found(repo \in shown.starred)]
  OBVIOUS
<1>4. PICK member : member = [pair \in Desired(plan) |->
                                  Found(IsMember(pair[2], pair[1], shown.lists))]
  OBVIOUS
<1>5. PICK kept : kept = [pair \in Preserved(plan) |->
                              Found(pair[2] \in MembershipsOf(pair[1], shown.lists))]
  OBVIOUS
<1>6. conditions = Report(plan, states, list, star, member, kept)
  BY <1>1, <1>2, <1>3, <1>4, <1>5 DEF ReadBack, VerifyPostconditions, Report
<1>7. QED
  BY <1>6, ReportShape

\* Every verification of every plan and account lists the plan's promises.
LEMMA PromisesOfEveryPlan ==
    ASSUME NEW plan, NEW shown
    PROVE  SamePromises(plan, shown)
<1>1. /\ EachOnce(ProbeElsewhere(plan))
      /\ Promises(ProbeElsewhere(plan)) = Promised(plan)
  BY UnavailableReport DEF ProbeElsewhere
<1>2. ASSUME NEW reading \in Readings
      PROVE  /\ EachOnce(Conditions(plan, reading, shown))
             /\ Promises(Conditions(plan, reading, shown)) = Promised(plan)
  <2>1. PICK account : account = reading.probe.account
    OBVIOUS
  <2>2. \E conditions : /\ Conditions(plan, reading, shown) = conditions
                        /\ \/ conditions = ProbeUnusable(plan, account)
                           \/ conditions = ProbeElsewhere(plan)
                           \/ conditions = ReadbackFailed(plan, reading.readback)
                           \/ conditions = ReadBack(plan, reading.readback, shown)
    BY <2>1 DEF Conditions
  <2>3. /\ EachOnce(ProbeUnusable(plan, account))
        /\ Promises(ProbeUnusable(plan, account)) = Promised(plan)
    <3>1. PICK found : found = (CASE account = "none" -> "unavailable"
                                  [] account = "target" -> "verified"
                                  [] account = "other" -> "mismatch")
      OBVIOUS
    <3>2. ProbeUnusable(plan, account) = {Capability("unavailable"), Identity(found)}
                                             \cup UnavailablePostconditions(plan)
      BY <3>1 DEF ProbeUnusable
    <3>3. QED
      BY <3>2, UnavailableReport
  <2>4. /\ EachOnce(ReadbackFailed(plan, reading.readback))
        /\ Promises(ReadbackFailed(plan, reading.readback)) = Promised(plan)
    BY UnavailableReport DEF ReadbackFailed
  <2>5. QED
    BY <1>1, <2>2, <2>3, <2>4, ReadBackReport
<1>3. QED
  BY <1>1, <1>2 DEF SamePromises, EachOnce, Promises

\* Every receipt of `github verify` lists the same promises of the plan, each
\* of them once, in whatever state sessions, faults, crashes and the owner
\* leave the account (verified, verify_postconditions,
\* unavailable_postconditions).
THEOREM VerificationsListAll == Spec => []VerifierListsAll
<1>1. VerifierListsAll
  BY PromisesOfEveryPlan DEF VerifierListsAll
<1>2. QED
  BY <1>1, PTL
==============================================================================
