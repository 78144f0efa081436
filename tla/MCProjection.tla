---------------------------- MODULE MCProjection ----------------------------
(***************************************************************************)
(* Every plan the projection seals over a small universe of account        *)
(* states, followed through its own operations, in order, on an account    *)
(* nobody else touches: the sealed sequence must be exactly what leads     *)
(* from the observed state to the projected one.  (GitHubApply adds the    *)
(* failures; here the question is whether the PLAN is right.)              *)
(***************************************************************************)
EXTENDS Projection, FiniteSets

CONSTANTS SlugOrder, RepoOrder,   \* the orders the code sorts by
          BaselineIds,            \* IDs the owner's Lists may have
          Caps                    \* the profile's operation caps

VARIABLES plan, account, next
vars == <<plan, account, next>>

ASSUME OrdersAssumption ==
    /\ SlugOrder \in Seq(Slugs) /\ ToSet(SlugOrder) = Slugs /\ IsInjective(SlugOrder)
    /\ RepoOrder \in Seq(Repos) /\ ToSet(RepoOrder) = Repos /\ IsInjective(RepoOrder)

\* The values the cfg gives to the constants above.
MCSlugOrder == <<"a", "b">>
MCRepoOrder == <<"r", "s">>
MCCaps == [k \in Kinds \cup {"total"} |->
              IF k = "total" THEN 6 ELSE IF k = "add-membership" THEN 3 ELSE 2]

LiveList == [status : {"live"}, name : Names,
             conforming : BOOLEAN, members : SUBSET Repos]

Baselines ==
    {[starred |-> starred,
      lists   |-> [l \in ListIds |-> IF l \in BaselineIds THEN lists[l] ELSE Unborn]] :
        starred \in SUBSET Repos,
        lists \in [BaselineIds -> LiveList \cup {Unborn}]}

\* Every projected repository belongs to at least one selected collection.
Desires == [Repos -> SUBSET Slugs \ {{}}]

Init ==
    /\ \E baseline \in {b \in Baselines : Projectable(b)}, desired \in Desires :
        /\ WithinCaps(ProjectionOperations(baseline, desired, SlugOrder, RepoOrder),
                      Caps)
        /\ plan = SealedPlan(baseline, desired, SlugOrder, RepoOrder)
    /\ account = plan.baseline
    /\ next = 1

\* ListIds bounds the Lists an account may ever have: a List is only created
\* while an ID is left.
UnbornLists(lists) == {l \in ListIds : lists[l].status = "unborn"}
Fresh(lists) == CHOOSE l \in UnbornLists(lists) : TRUE

\* The effect of one operation on an account nobody else edits.
After(op, state) ==
    CASE op.kind = "create-list" ->
            [state EXCEPT !.lists[Fresh(state.lists)] =
                [status |-> "live", name |-> op.slug,
                 conforming |-> TRUE, members |-> {}]]
      [] op.kind = "star-repository" ->
            [state EXCEPT !.starred = @ \cup {op.repo}]
      [] OTHER ->
            LET sent == RequestedUnion(op, state)
            IN  [state EXCEPT !.lists = [l \in ListIds |->
                    IF l \notin Live(state.lists) THEN state.lists[l]
                    ELSE IF l \in sent
                    THEN [state.lists[l] EXCEPT !.members = @ \cup {op.repo}]
                    ELSE [state.lists[l] EXCEPT !.members = @ \ {op.repo}]]]

Perform ==
    /\ next \in DOMAIN plan.ops
    /\ plan.ops[next].kind = "create-list" => UnbornLists(account.lists) # {}
    /\ account' = After(plan.ops[next], account)
    /\ next' = next + 1
    /\ UNCHANGED plan

Next == Perform
Spec == Init /\ [][Next]_vars

-----------------------------------------------------------------------------
\* The sealed sequence names exactly what is wanted and missing: what
\* GitHubApply assumes of its plan holds of every plan the projection builds.
PlanIsWellSealed == WellSealed(plan)

\* Every prefix of the plan is an allowed progress, so that a session that dies
\* or fails after any operation leaves a state a later one may resume from, and
\* the whole of it ends in a state that verifies.
PlanLeadsThere ==
    /\ AllowedProgress(plan, account)
    /\ next = Len(plan.ops) + 1 => VerifyStatus(plan, account) = "verified"

\* No operation is done already or premature when its turn comes: the caps and
\* the approval a human gives count only operations that change something, and
\* the runbook's order is "create, star, add that starred repository".
EveryOperationIsDue ==
    next \in DOMAIN plan.ops =>
        /\ ~Satisfied(plan.ops[next], account)
        /\ plan.ops[next].kind = "add-membership" =>
               /\ plan.ops[next].repo \in account.starred
               /\ Named(account.lists, plan.ops[next].slug) # {}
=============================================================================
