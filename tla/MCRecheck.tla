----------------------------- MODULE MCRecheck ------------------------------
(***************************************************************************)
(* Two sources about two repositories.  Repository 1 is visible at first;  *)
(* what sources say later refreshes it, changes a gate, drops a fact,      *)
(* contradicts the other source or reorders the result.                    *)
(***************************************************************************)
EXTENDS Recheck

Candidate(repository, license, pushed, stars) ==
    [repository |-> repository, platforms |-> {"linux"}, conflicts |-> {},
     facts |-> [license |-> license, pushed |-> pushed, stars |-> stars]]

MCBatches ==
    {<<Candidate(1, {1}, {-1}, {1})>>,
     <<Candidate(1, {}, {-1}, {}), Candidate(2, {1}, {0}, {1})>>,
     <<Candidate(1, {2}, {}, {2})>>}

Key(fact, descending) == [fact |-> fact, descending |-> descending]

NoGates == [deny |-> {}, allow |-> {}, platforms |-> {}, maxAge |-> {}, minStars |-> {},
            sort |-> <<Key("stars", TRUE), Key("pushed", FALSE)>>, limit |-> 1]

Gated == [NoGates EXCEPT !.deny = {2}, !.allow = {1}, !.platforms = {"linux"},
                         !.maxAge = {1}, !.minStars = {1}, !.limit = 2,
                         !.sort = <<Key("pushed", TRUE)>>]

MCSpecs == {NoGates, Gated}
=============================================================================
