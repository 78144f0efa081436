------------------------------ MODULE Research ------------------------------
(***************************************************************************)
(* The pure part of `shoulda check` and `shoulda recheck`: the merge of    *)
(* source batches (sources.py), gates, order and limit (filters.py), and   *)
(* the typed differences of a recheck (services.py).                       *)
(*                                                                         *)
(* A candidate has a repository, optional scalar facts and a set fact.     *)
(* The facts stand for the fields the rules treat in the same way:         *)
(*   license    a gate by membership, material for a recheck               *)
(*   pushed     a gate by age (a day), refreshed freely                    *)
(*   stars      a gate by threshold and a sort key, refreshed freely       *)
(*   platforms  a set, united by the merge, a gate, material               *)
(* An optional value is a set of at most one element.  A filter            *)
(* specification leaves a gate out by naming no value for it.  Sort keys   *)
(* other than "repo", which is always the last one, name a fact and a      *)
(* direction.  A batch is a sequence of candidates.                        *)
(*                                                                         *)
(* Left out of the merge: the evidence state, of which the stronger wins,  *)
(* source ranks, of which the smaller wins, and metadata, where the first  *)
(* source wins without a conflict.  Set fields are compared as sets; the   *)
(* code compares the sorted lists a candidate holds.                       *)
(***************************************************************************)
EXTENDS Integers, FiniteSets, Sequences, SequencesExt, Selection

Facts == {"license", "pushed", "stars"}
MaterialFacts == {"license"}

\* What the schemas of a candidate and of a filter specification guarantee.
Candidates ==
    {c \in [repository : Int, platforms : SUBSET STRING, conflicts : SUBSET Facts,
            facts : [Facts -> SUBSET Int]] :
        \A f \in Facts : \A known, other \in c.facts[f] : known = other}

WellFormed(spec) ==
    /\ spec.sort \in Seq([fact : Facts, descending : BOOLEAN])
    /\ spec.maxAge \subseteq Nat /\ spec.limit \in Nat \ {0}

Repositories(candidates) == {c.repository : c \in candidates}

-----------------------------------------------------------------------------
(* sources.py: one candidate per repository                                *)

\* Mutant: the first source wins even where it knows nothing.
MergeFirstWins(first, second) ==
    [first EXCEPT !.platforms = @ \cup second.platforms]

Merge(first, second) ==
    [first EXCEPT
        !.facts = [f \in Facts |-> IF @[f] = {} THEN second.facts[f] ELSE @[f]],
        !.platforms = @ \cup second.platforms,
        !.conflicts = @ \cup {f \in Facts : /\ first.facts[f] # {}
                                            /\ second.facts[f] # {}
                                            /\ first.facts[f] # second.facts[f]}]

\* The dictionary entry of one repository after all that is told about it.
Merged(told) ==
    LET upTo[n \in 1 .. Len(told)] ==
            IF n = 1 THEN told[1] ELSE Merge(upTo[n - 1], told[n])
    IN  upTo[Len(told)]

MergeBatches(batches) ==
    LET all == FlattenSeq(batches)
        Of(repository) == Select(all, {c \in ToSet(all) : c.repository = repository})
    IN  {Merged(Of(r)) : r \in Repositories(ToSet(all))}

-----------------------------------------------------------------------------
(* filters.py: gates, order, limit                                         *)

LicensePasses(c, spec) ==
    /\ spec.deny # {} => c.facts.license # {} /\ c.facts.license \cap spec.deny = {}
    /\ spec.allow # {} => c.facts.license \cap spec.allow # {}

PlatformPasses(c, spec) ==
    spec.platforms # {} => c.platforms \cap spec.platforms # {}

FreshEnough(c, spec, day) ==
    \A limit \in spec.maxAge : \E pushed \in c.facts.pushed : pushed >= day - limit

StarsPass(c, spec) ==
    \A least \in spec.minStars : \E stars \in c.facts.stars : stars >= least

Passes(c, spec, day) ==
    /\ LicensePasses(c, spec)
    /\ FreshEnough(c, spec, day)
    /\ PlatformPasses(c, spec)
    /\ StarsPass(c, spec)

Value(c, key) == CHOOSE value \in c.facts[key.fact] : TRUE

Precedes(a, b, key) ==
    IF key.descending THEN Value(a, key) > Value(b, key) ELSE Value(a, key) < Value(b, key)

KeyBefore(a, b, key) ==
    \/ a.facts[key.fact] # {} /\ b.facts[key.fact] = {}
    \/ a.facts[key.fact] # {} /\ b.facts[key.fact] # {} /\ Precedes(a, b, key)

\* A list of candidates is the order of its elements: a set of pairs.
ByRepository(candidates) ==
    {pair \in candidates \X candidates : pair[1].repository <= pair[2].repository}

\* Python's sort is stable: a pair is turned round where the key says so, and
\* keeps its order otherwise, reversed or not.  What is unknown goes last.
StableSortBy(order, key) ==
    {IF KeyBefore(pair[2], pair[1], key) THEN <<pair[2], pair[1]>> ELSE pair : pair \in order}

InOrder(candidates, order) ==
    [n \in 1 .. Cardinality(candidates) |->
        CHOOSE c \in candidates : Cardinality({d \in candidates : <<d, c>> \in order}) = n]

\* Mutant: the last key named is the first one compared.
SortLastKeyFirst(candidates, sort) ==
    LET order[n \in 0 .. Len(sort)] ==
            IF n = 0 THEN ByRepository(candidates)
            ELSE StableSortBy(order[n - 1], sort[n])
    IN  InOrder(candidates, order[Len(sort)])

\* One stable pass per key, the last key first.
StableSort(candidates, sort) ==
    LET order[n \in 0 .. Len(sort)] ==
            IF n = 0 THEN ByRepository(candidates)
            ELSE StableSortBy(order[n - 1], sort[Len(sort) + 1 - n])
    IN  InOrder(candidates, order[Len(sort)])

Passing(candidates, spec, day) == {c \in candidates : Passes(c, spec, day)}

Visible(candidates, spec, day) ==
    LET ordered == StableSort(Passing(candidates, spec, day), spec.sort)
    IN  SubSeq(ordered, 1, IF Len(ordered) < spec.limit THEN Len(ordered) ELSE spec.limit)

-----------------------------------------------------------------------------
(* services.py: the receipt of a check, and how two of them differ         *)

CheckOf(spec, day, batches) ==
    [spec |-> spec, day |-> day, observed |-> batches,
     visible |-> Visible(MergeBatches(batches), spec, day)]

Shown(check) == ToSet(check.visible)

\* The same repositories are visible, with the same values of the fields that
\* can invalidate a hard gate.
Gates(check) ==
    {[repository |-> c.repository, platforms |-> c.platforms,
      facts |-> [f \in MaterialFacts |-> c.facts[f]]] : c \in Shown(check)}

\* Fields other than sources, conflicts and metadata.
Compared(check) ==
    {[repository |-> c.repository, platforms |-> c.platforms, facts |-> c.facts] :
        c \in Shown(check)}

\* Mutant: a candidate that left or entered the result is not a difference.
MaterialIfBothShow(prior, current) ==
    \E old \in Gates(prior), new \in Gates(current) :
        old.repository = new.repository /\ old # new

MaterialDiff(prior, current) == Gates(prior) # Gates(current)

\* Mutant: equal comparable fields are taken for equal evidence.
OutcomeOfFields(prior, current) ==
    IF MaterialDiff(prior, current) THEN "material"
    ELSE IF Compared(prior) # Compared(current) THEN "refresh" ELSE "noop"

Outcome(prior, current) ==
    IF MaterialDiff(prior, current) THEN "material"
    ELSE IF Compared(prior) # Compared(current) \/ prior.observed # current.observed
         THEN "refresh" ELSE "noop"
=============================================================================
