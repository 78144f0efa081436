------------------------------ MODULE ApplyPlan ------------------------------
(***************************************************************************)
(* The pure half of github_apply.py: what a sealed GitHub projection plan  *)
(* asks for, when one of its operations counts as done, which account      *)
(* states are an allowed progress from the state the plan was sealed on,   *)
(* which set of Lists a membership write sends, and what an independent    *)
(* verification concludes.                                                 *)
(*                                                                         *)
(* An account state (GitHubCurationState) is reduced to what these         *)
(* functions compare: the starred repositories and, for every List node    *)
(* ID, its name, its members and whether it is public with the very        *)
(* description the plan projects for that name ("conforming").  A          *)
(* collection's slug stands for its casefolded List name as well.          *)
(*                                                                         *)
(* A plan is [baseline, desired, ops]: the account state it was sealed on, *)
(* the collections each projected repository shall be a member of, and the *)
(* sealed sequence of additive operations (the Projection module builds    *)
(* it).  Account identity is a constant of the model: a drift of identity  *)
(* is one of the errors a read may return, see GitHubApply.                *)
(***************************************************************************)
EXTENDS Naturals, Sequences

CONSTANTS
    Repos,      \* repositories relevant to the plan
    Slugs,      \* collections the plan projects to Lists
    OtherName,  \* the name of every List that is none of the plan's
    ListIds     \* List node IDs GitHub may ever hand out

Names == Slugs \cup {OtherName}

ASSUME OtherNameAssumption == OtherName \notin Slugs
ASSUME ListIdsAssumption == ListIds \subseteq Nat

-----------------------------------------------------------------------------
(* Account states. *)

\* "unborn": the node ID was never handed out; "gone": the owner deleted it.
ListState == [status     : {"unborn", "live", "gone"},
              name       : Names,
              conforming : BOOLEAN,
              members    : SUBSET Repos]

ListTable == [ListIds -> ListState]

AccountState == [starred : SUBSET Repos, lists : ListTable]

Unborn == [status |-> "unborn", name |-> OtherName,
           conforming |-> FALSE, members |-> {}]

Live(lists) == {l \in ListIds : lists[l].status = "live"}

Named(lists, name) == {l \in Live(lists) : lists[l].name = name}

\* The Lists a repository is a member of.
MembershipsOf(repo, lists) == {l \in Live(lists) : repo \in lists[l].members}

IsMember(repo, slug, lists) ==
    \E l \in Named(lists, slug) : repo \in lists[l].members

-----------------------------------------------------------------------------
(* Plans. *)

Operation == [kind : {"create-list"}, slug : Slugs]
             \cup [kind : {"star-repository"}, repo : Repos]
             \cup [kind : {"add-membership"}, slug : Slugs, repo : Repos]

Kinds == {"create-list", "star-repository", "add-membership"}

PlanRecord == [baseline : AccountState,
               desired  : [Repos -> SUBSET Slugs],
               ops      : Seq(Operation)]

OpIds(plan) == DOMAIN plan.ops

StarOperations(plan) ==
    {plan.ops[n].repo :
        n \in {m \in OpIds(plan) : plan.ops[m].kind = "star-repository"}}

-----------------------------------------------------------------------------
(* Resolving a projected collection to the List that realises it.  The     *)
(* code raises github_list_name_ambiguous for two Lists of the name and    *)
(* github_list_conflict for one that is private or described differently.  *)

TargetsResolve(lists) ==
    \A slug \in Slugs : \A l, m \in Named(lists, slug) :
        l = m /\ lists[l].conforming

\* Meaningful where TargetsResolve holds: at most one List has the name.
Satisfied(op, state) ==
    \/ /\ op.kind = "star-repository"
       /\ op.repo \in state.starred
    \/ /\ op.kind = "create-list"
       /\ Named(state.lists, op.slug) # {}
    \/ /\ op.kind = "add-membership"
       /\ IsMember(op.repo, op.slug, state.lists)

\* Mutant: memberships are forgotten.
PendingWithoutMemberships(plan, state) ==
    {n \in OpIds(plan) : /\ plan.ops[n].kind # "add-membership"
                         /\ ~Satisfied(plan.ops[n], state)}

Pending(plan, state) ==
    {n \in OpIds(plan) : ~Satisfied(plan.ops[n], state)}

\* Mutants: only Lists the plan projects; the Lists of every repository instead
\* of this one's.
RequestedProjectedOnly(op, state) ==
    {l \in MembershipsOf(op.repo, state.lists) : state.lists[l].name \in Slugs}
        \cup Named(state.lists, op.slug)

RequestedOfAnyRepo(op, state) ==
    UNION {MembershipsOf(repo, state.lists) : repo \in Repos}
        \cup Named(state.lists, op.slug)

\* updateUserListsForItem REPLACES the item's Lists, so the request carries
\* every List the given state shows for the repository, plus the target.
RequestedUnion(op, state) ==
    MembershipsOf(op.repo, state.lists) \cup Named(state.lists, op.slug)

-----------------------------------------------------------------------------
(* What sealing guarantees (Projection builds such plans): an operation    *)
(* for everything the projection wants and the baseline lacks, none that   *)
(* the projection does not want, and none twice; Lists are created first,  *)
(* memberships are added last.                                             *)

Plans(plan, op) == \E n \in OpIds(plan) : plan.ops[n] = op

CreateOp(slug) == [kind |-> "create-list", slug |-> slug]
StarOp(repo) == [kind |-> "star-repository", repo |-> repo]
MembershipOp(slug, repo) ==
    [kind |-> "add-membership", slug |-> slug, repo |-> repo]

KindsInOrder(ops) ==
    \A m, n \in DOMAIN ops : m < n =>
        /\ ops[n].kind = "create-list" => ops[m].kind = "create-list"
        /\ ops[m].kind = "add-membership" => ops[n].kind = "add-membership"

WellSealed(plan) ==
    /\ TargetsResolve(plan.baseline.lists)
    /\ KindsInOrder(plan.ops)
    /\ \A m, n \in OpIds(plan) : plan.ops[m] = plan.ops[n] => m = n
    /\ \A slug \in Slugs :
          Named(plan.baseline.lists, slug) # {} <=> ~Plans(plan, CreateOp(slug))
    /\ \A repo \in Repos :
          repo \in plan.baseline.starred <=> ~Plans(plan, StarOp(repo))
    /\ \A repo \in Repos, slug \in Slugs :
          Plans(plan, MembershipOp(slug, repo))
              <=> /\ slug \in plan.desired[repo]
                  /\ ~IsMember(repo, slug, plan.baseline.lists)

-----------------------------------------------------------------------------
(* assert_allowed_progress: current differs from the plan's baseline by    *)
(* nothing but some of the plan's own additions.                           *)

StarsProgress(plan, current) ==
    /\ plan.baseline.starred \subseteq current.starred
    /\ current.starred \ plan.baseline.starred \subseteq StarOperations(plan)

\* No baseline List disappeared or changed its metadata.
BaselineListsKept(plan, current) ==
    \A l \in Live(plan.baseline.lists) :
        /\ l \in Live(current.lists)
        /\ current.lists[l].name = plan.baseline.lists[l].name
        /\ current.lists[l].conforming = plan.baseline.lists[l].conforming

\* Every new List is one the plan creates (existing_node_id is None).
NewListsPlanned(plan, current) ==
    \A l \in Live(current.lists) \ Live(plan.baseline.lists) :
        /\ current.lists[l].name \in Slugs
        /\ Named(plan.baseline.lists, current.lists[l].name) = {}
        /\ current.lists[l].conforming

BaselineMembers(plan, l) ==
    IF l \in Live(plan.baseline.lists)
    THEN plan.baseline.lists[l].members
    ELSE {}

AllowedMembers(plan, current, l) ==
    {repo \in Repos : current.lists[l].name \in plan.desired[repo]}

MembersProgress(plan, current) ==
    \A l \in Live(current.lists) :
        /\ BaselineMembers(plan, l) \subseteq current.lists[l].members
        /\ current.lists[l].members \ BaselineMembers(plan, l)
               \subseteq AllowedMembers(plan, current, l)

AllowedProgress(plan, current) ==
    /\ StarsProgress(plan, current)
    /\ BaselineListsKept(plan, current)
    /\ NewListsPlanned(plan, current)
    /\ TargetsResolve(current.lists)
    /\ MembersProgress(plan, current)

-----------------------------------------------------------------------------
(* verify_postconditions: every projected List is there and public, every  *)
(* projected repository is starred and a member where it should be, every  *)
(* membership the plan promised to preserve is still there.                *)

Postconditions(plan, current) ==
    /\ AllowedProgress(plan, current)
    /\ \A slug \in Slugs : Named(current.lists, slug) # {}
    /\ \A repo \in Repos :
        /\ repo \in current.starred
        /\ \A slug \in plan.desired[repo] :
              IsMember(repo, slug, current.lists)
        /\ MembershipsOf(repo, plan.baseline.lists)
               \subseteq MembershipsOf(repo, current.lists)

\* _target_lists raises past verify_postconditions' own handler when a name
\* does not resolve; verified() then reports the plan as unavailable.
VerifyStatus(plan, current) ==
    IF ~TargetsResolve(current.lists) THEN "partial"
    ELSE IF Postconditions(plan, current) THEN "verified"
    ELSE "failed"
=============================================================================
