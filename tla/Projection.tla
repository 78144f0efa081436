----------------------------- MODULE Projection -----------------------------
(***************************************************************************)
(* build_projection_plan (projection.py): the additive operations sealed   *)
(* for a curation snapshot and an observed account state.  The snapshot is *)
(* reduced to the collections each projectable repository belongs to;      *)
(* slugOrder and repoOrder are the lexical orders the code sorts by.       *)
(***************************************************************************)
EXTENDS ApplyPlan, Selection, SequencesExt

\* Mutant: a private or differently described List is reused as well.
ProjectableIfUnique(baseline) ==
    \A slug \in Slugs : \A l, m \in Named(baseline.lists, slug) : l = m

\* A List of a collection's name is reused as the projection's target only
\* when it is unique, public and described identically; otherwise planning
\* raises github_list_name_ambiguous or github_list_conflict.  (OtherName stands
\* for any number of distinct names: two unrelated Lists of one name, which
\* planning refuses too, are not told apart from two of different names.)
Projectable(baseline) == TargetsResolve(baseline.lists)

CreateOperations(baseline, slugOrder) ==
    LET missing == Select(slugOrder,
                       {slug \in Slugs : Named(baseline.lists, slug) = {}})
    IN  [i \in 1 .. Len(missing) |-> CreateOp(missing[i])]

StarOperationSeq(baseline, repoOrder) ==
    LET unstarred == Select(repoOrder, Repos \ baseline.starred)
    IN  [i \in 1 .. Len(unstarred) |-> StarOp(unstarred[i])]

\* A membership the baseline already holds is preserved, not planned again.
MembershipOperations(baseline, desired, slugOrder, repo) ==
    LET absent == Select(slugOrder,
                      {slug \in desired[repo] :
                          Named(baseline.lists, slug)
                              \cap MembershipsOf(repo, baseline.lists) = {}})
    IN  [i \in 1 .. Len(absent) |-> MembershipOp(absent[i], repo)]

\* Mutants: memberships come before the Lists they need; stars are left out.
OperationsMembershipsFirst(baseline, desired, slugOrder, repoOrder) ==
    FlattenSeq([i \in 1 .. Len(repoOrder) |->
        MembershipOperations(baseline, desired, slugOrder, repoOrder[i])])
    \o CreateOperations(baseline, slugOrder)
    \o StarOperationSeq(baseline, repoOrder)

OperationsWithoutStars(baseline, desired, slugOrder, repoOrder) ==
    CreateOperations(baseline, slugOrder)
    \o FlattenSeq([i \in 1 .. Len(repoOrder) |->
           MembershipOperations(baseline, desired, slugOrder, repoOrder[i])])

ProjectionOperations(baseline, desired, slugOrder, repoOrder) ==
    CreateOperations(baseline, slugOrder)
    \o StarOperationSeq(baseline, repoOrder)
    \o FlattenSeq([i \in 1 .. Len(repoOrder) |->
           MembershipOperations(baseline, desired, slugOrder, repoOrder[i])])

SealedPlan(baseline, desired, slugOrder, repoOrder) ==
    [baseline |-> baseline,
     desired  |-> desired,
     ops      |-> ProjectionOperations(baseline, desired, slugOrder, repoOrder)]

-----------------------------------------------------------------------------
(* _enforce_caps at sealing and again, on the same counts, at apply. *)

OperationCount(ops, kind) ==
    Len(SelectSeq(ops, LAMBDA op : op.kind = kind))

WithinCaps(ops, caps) ==
    /\ Len(ops) <= caps["total"]
    /\ \A kind \in Kinds : OperationCount(ops, kind) <= caps[kind]
=============================================================================
