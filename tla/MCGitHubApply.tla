--------------------------- MODULE MCGitHubApply ---------------------------
(***************************************************************************)
(* Small instances of GitHubApply.  The plan is the one Projection seals   *)
(* for the baseline below (PlansAreSealed), so that the operations checked *)
(* are the ones the code would plan.                                       *)
(***************************************************************************)
EXTENDS GitHubApply, Projection

\* The owner keeps "r" in an unrelated List 1; collection "b" already has its
\* List 2; collection "a" has none.  Sealed operations: create a, star r,
\* add r to a, add r to b.
MCBaselineOneRepo ==
    [starred |-> {},
     lists   |-> [l \in ListIds |->
         CASE l = 1 -> [status |-> "live", name |-> OtherName,
                        conforming |-> TRUE, members |-> {"r"}]
           [] l = 2 -> [status |-> "live", name |-> "b",
                        conforming |-> TRUE, members |-> {}]
           [] OTHER -> Unborn]]

MCPlanOneRepo ==
    [baseline |-> MCBaselineOneRepo,
     desired  |-> [repo \in Repos |-> {"a", "b"}],
     ops      |-> <<CreateOp("a"), StarOp("r"),
                    MembershipOp("a", "r"), MembershipOp("b", "r")>>]

\* The owner keeps "r" in List 1 and has starred "s" only; collection "a" has
\* no List.  Sealed operations: create a, star r, add r to a, add s to a.
MCBaselineTwoRepos ==
    [starred |-> {"s"},
     lists   |-> [l \in ListIds |->
         IF l = 1 THEN [status |-> "live", name |-> OtherName,
                        conforming |-> TRUE, members |-> {"r"}]
         ELSE Unborn]]

MCPlanTwoRepos ==
    [baseline |-> MCBaselineTwoRepos,
     desired  |-> [repo \in Repos |-> {"a"}],
     ops      |-> <<CreateOp("a"), StarOp("r"),
                    MembershipOp("a", "r"), MembershipOp("a", "s")>>]

\* Written out above so that TLC evaluates them once, the plans are the ones
\* the code seals.
ASSUME PlansAreSealed ==
    /\ Plan.baseline = MCBaselineOneRepo =>
          Plan = SealedPlan(MCBaselineOneRepo, MCPlanOneRepo.desired,
                            <<"a", "b">>, <<"r">>)
    /\ Plan.baseline = MCBaselineTwoRepos =>
          Plan = SealedPlan(MCBaselineTwoRepos, MCPlanTwoRepos.desired,
                            <<"a">>, <<"r", "s">>)
    /\ Plan.baseline \in {MCBaselineOneRepo, MCBaselineTwoRepos}
=============================================================================
