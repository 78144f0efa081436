----------------------------- MODULE MCCuration -----------------------------
(***************************************************************************)
(* Every compilation of two corpora that may overlap and one context       *)
(* document, and the same profile compiled again at later review times     *)
(* against the snapshot of the time before.                                *)
(***************************************************************************)
EXTENDS CurationReview

\* "r" is o/x--y; a GitHub owner's name has no "--".
MCNameParts == [r |-> <<<<"o">>, <<"x", "y">>>>, s |-> <<<<"o">>, <<"x">>>>,
                t |-> <<<<"p">>, <<"x", "y">>>>, u |-> <<<<"p">>, <<"y", "x">>>>]

\* Evidence on "r" in each freshness, old and recent; the others are recent.
REvidence == [key : {"r"}, checked : {0, 1}, freshness : {"current", "stale"}]
                \cup [key : {"r"}, checked : {3}, freshness : {"current"}]
Evidence(repository) == [key |-> repository, checked |-> 2, freshness |-> "current"]

Screening(repository, domains) == [key |-> repository, domains |-> domains]
Entry(repository, memberships) ==
    [key |-> repository, inbox |-> memberships = {}, memberships |-> memberships]

RepositoryDocument(evidence, domains, memberships) ==
    [EmptyDocument EXCEPT
        !.evidence = <<evidence>>,
        !.screenings = <<Screening(evidence.key, domains)>>,
        !.projections = <<Entry(evidence.key, memberships)>>]

Joined(one, other) == [kind \in Kinds |-> one[kind] \o other[kind]]

\* A corpus about "r", about "s", "t" and "u", about all, or one that only
\* screens "s".
Corpora ==
    LET ofR == {RepositoryDocument(evidence, domains, memberships) :
                    evidence \in REvidence,
                    domains \in {{"a"}, {"b"}}, memberships \in {{}, {"a"}}}
        others == Joined(RepositoryDocument(Evidence("s"), {"a", "b"}, {"a"}),
                         Joined(RepositoryDocument(Evidence("t"), {"a"}, {}),
                                RepositoryDocument(Evidence("u"), {"b"}, {})))
    IN  ofR \cup {Joined(document, others) : document \in ofR}
            \cup {EmptyDocument, others,
                  [EmptyDocument EXCEPT !.screenings = <<Screening("s", {"a"})>>,
                                        !.excluded = <<[key |-> "x", reason |-> 1]>>]}

Assessed(repository, complete) == [key |-> <<"p", repository>>, complete |-> complete]

OthersAssessed == <<Assessed("s", TRUE), Assessed("t", TRUE)>>

\* Two problems whose briefs share two of their candidates.
TwoBriefs ==
    [EmptyDocument EXCEPT
        !.problems = <<[key |-> "p", domains |-> {"a"}], [key |-> "q", domains |-> {"b"}]>>,
        !.assessments = OthersAssessed \o
            <<Assessed("u", TRUE), [key |-> <<"q", "s">>, complete |-> TRUE],
              [key |-> <<"q", "t">>, complete |-> TRUE],
              [key |-> <<"q", "r">>, complete |-> TRUE]>>,
        !.briefs = <<[key |-> "p", candidates |-> {"s", "t", "u"}, checked |-> 2],
                     [key |-> "q", candidates |-> {"r", "s", "t"}, checked |-> 2]>>]

\* A problem, its assessments, and a brief, which names at least three.
Contexts ==
    {[EmptyDocument EXCEPT
        !.problems = <<[key |-> "p", domains |-> {"a"}]>>,
        !.assessments = assessments,
        !.briefs = briefs] :
        assessments \in {<<>>, OthersAssessed, Append(OthersAssessed, Assessed("u", TRUE)),
                         Append(OthersAssessed, Assessed("r", TRUE)),
                         Append(OthersAssessed, Assessed("r", FALSE))},
        briefs \in {<<>>} \cup
            {<<[key |-> "p", candidates |-> candidates, checked |-> 2]>> :
                candidates \in {{"r", "s", "t"}, {"s", "t", "u"}}}}
    \cup {EmptyDocument, TwoBriefs}

MCInputs ==
    {<<one, other, context>> : one \in Corpora, other \in Corpora, context \in Contexts}

\* A tight budget, and a wide one with each collection hidden in turn.
MCProfiles ==
    {[asOf |-> 2, maxAge |-> 1, visible |-> visible,
      budgets |-> [slug \in {"a", "b"} |-> IF visible = {} THEN 1 ELSE 2]] :
        visible \in {{}, {"a"}, {"b"}}}
=============================================================================
