----------------------------- MODULE MCCatalog ------------------------------
(***************************************************************************)
(* A workspace with two profiles: "p" in two revisions that compile and    *)
(* one that does not (its sources disagree), "q" in one.                   *)
(***************************************************************************)
EXTENDS PublicExport

Evidence(checked) == [key |-> "r", checked |-> checked, freshness |-> "current"]

\* A corpus about one repository and a second source that repeats its evidence.
MCSources(first, second) ==
    << [EmptyDocument EXCEPT
            !.evidence = <<Evidence(first)>>,
            !.screenings = <<[key |-> "r", domains |-> {"a"}]>>,
            !.projections = <<[key |-> "r", inbox |-> FALSE, memberships |-> {"a"}]>>],
       [EmptyDocument EXCEPT !.evidence = <<Evidence(second)>>] >>

MCProfile(id, first, second) ==
    [id |-> id, asOf |-> 3, maxAge |-> 1, budgets |-> [slug \in {"a"} |-> 1],
     sources |-> MCSources(first, second)]

MCRevisions == {MCProfile("p", 1, 1), MCProfile("p", 3, 3), MCProfile("p", 1, 3),
                MCProfile("q", 1, 1)}

\* For the runs about one profile and its history.
MCTwoRevisions == {MCProfile("p", 1, 1), MCProfile("p", 3, 3)}
=============================================================================
