------------------------------ MODULE Curation ------------------------------
(***************************************************************************)
(* The curation compiler of curation.py as pure operators.                 *)
(*                                                                         *)
(* A profile revision fixes everything a compilation reads: the review     *)
(* time, the freshness limit, the collections with their budgets, and the  *)
(* digest of every source.  A source document is a list of records of each *)
(* kind; a record carries its merge key and the fields the rules look at:  *)
(*   evidence     key = repository, checked, freshness                     *)
(*   screenings   key = repository, domains                                *)
(*   projections  key = repository, inbox, memberships                     *)
(*   excluded     key = repository, reason                                 *)
(*   problems     key = problem, domains                                   *)
(*   assessments  key = <<problem, repository>>, complete                  *)
(*   briefs       key = problem, candidates, checked                       *)
(* "complete" stands for the wording rules a brief's assessment obeys      *)
(* (covers, a watch item or an unknown, the word budget, copy repeated     *)
(* among them); that a problem's question is no bare domain label is left  *)
(* out.  Times are days.                                                   *)
(* An identity (fingerprint, short ID) is the content it is a digest of.   *)
(* An optional value is a set of at most one element.                      *)
(***************************************************************************)
EXTENDS Integers, FiniteSets, Sequences, SequencesExt

Kinds == {"evidence", "screenings", "projections", "excluded",
          "problems", "assessments", "briefs"}

EmptyDocument == [kind \in Kinds |-> <<>>]

Keys(records) == {record.key : record \in records}

Find(records, key) == CHOOSE record \in records : record.key = key

ByKey(records) == [key \in Keys(records) |-> Find(records, key)]

-----------------------------------------------------------------------------
(* Merging the sources                                                     *)

NormalizeFreshness(evidence, profile) ==
    IF evidence.freshness = "current" /\ profile.asOf - evidence.checked > profile.maxAge
    THEN [evidence EXCEPT !.freshness = "stale"]
    ELSE evidence

\* Mutant: a later source silently replaces an earlier one.
MergeLastWins(target, record) ==
    [target EXCEPT !.records =
        {other \in @ : other.key # record.key} \cup {record}]

\* Mutant: the first source to name a key silently wins.
MergeFirstWins(target, record) ==
    IF record.key \in Keys(target.records) THEN target
    ELSE [target EXCEPT !.records = @ \cup {record}]

\* The dictionary keeps one record per key; a second source may only repeat it.
MergeRecord(target, record) ==
    IF \E other \in target.records : other.key = record.key /\ other # record
    THEN [target EXCEPT !.conflict = TRUE]
    ELSE [target EXCEPT !.records = @ \cup {record}]

RecordsOf(kind, profile, documents) ==
    LET raw == FlattenSeq([i \in DOMAIN documents |-> documents[i][kind]])
    IN  IF kind = "evidence"
        THEN [i \in DOMAIN raw |-> NormalizeFreshness(raw[i], profile)]
        ELSE raw

Merged(kind, profile, documents) ==
    FoldLeft(MergeRecord, [conflict |-> FALSE, records |-> {}],
             RecordsOf(kind, profile, documents))

Corpus(profile, documents) ==
    [kind \in Kinds |-> Merged(kind, profile, documents).records]

-----------------------------------------------------------------------------
(* What a corpus must satisfy                                              *)

ScopesAgree(corpus) ==
    /\ Keys(corpus.screenings) = Keys(corpus.evidence)
    /\ Keys(corpus.projections) = Keys(corpus.evidence)

DomainsKnown(corpus, slugs) ==
    /\ \A screening \in corpus.screenings : screening.domains \subseteq slugs
    /\ \A entry \in corpus.projections : entry.memberships \subseteq slugs
    /\ \A problem \in corpus.problems : problem.domains \subseteq slugs

AssessmentsResolve(corpus) ==
    \A assessment \in corpus.assessments :
        /\ assessment.key[1] \in Keys(corpus.problems)
        /\ assessment.key[2] \in Keys(corpus.evidence)

\* Mutant: a brief is checked against the problems only.
BriefsResolveProblem(corpus) ==
    \A brief \in corpus.briefs : brief.key \in Keys(corpus.problems)

BriefsResolve(corpus) ==
    \A brief \in corpus.briefs :
        /\ brief.key \in Keys(corpus.problems)
        /\ \A repository \in brief.candidates :
            \E assessment \in corpus.assessments :
                assessment.key = <<brief.key, repository>> /\ assessment.complete

ContextRelated(corpus, slugs) ==
    /\ ScopesAgree(corpus)
    /\ DomainsKnown(corpus, slugs)
    /\ AssessmentsResolve(corpus)
    /\ BriefsResolve(corpus)

MembershipMap(corpus, slugs) ==
    [slug \in slugs |->
        {entry.key : entry \in {e \in corpus.projections : slug \in e.memberships}}]

NothingFromFuture(profile, documents) ==
    \A i \in DOMAIN documents :
        /\ \A j \in DOMAIN documents[i].evidence :
            documents[i].evidence[j].checked <= profile.asOf
        /\ \A j \in DOMAIN documents[i].briefs :
            documents[i].briefs[j].checked <= profile.asOf

WithinBudgets(corpus, profile) ==
    LET map == MembershipMap(corpus, DOMAIN profile.budgets)
    IN  \A slug \in DOMAIN map : Cardinality(map[slug]) <= profile.budgets[slug]

\* Every way compile_profile may raise once the sources match their digests.
Compilable(profile, documents) ==
    LET corpus == Corpus(profile, documents)
    IN  /\ NothingFromFuture(profile, documents)
        /\ \A kind \in Kinds : ~Merged(kind, profile, documents).conflict
        /\ ContextRelated(corpus, DOMAIN profile.budgets)
        /\ WithinBudgets(corpus, profile)

-----------------------------------------------------------------------------
(* The snapshot                                                            *)

WithFreshness(corpus, state) ==
    {e.key : e \in {e \in corpus.evidence : e.freshness = state}}

\* What the snapshot's fingerprint and ID are digests of: the diff is not in it.
Semantic(profile, documents) ==
    LET corpus == Corpus(profile, documents)
    IN  [profile |-> profile,
         corpus  |-> corpus,
         memberships |-> MembershipMap(corpus, DOMAIN profile.budgets)]

\* Mutant: the diff compares what the operator wrote, not the evidence.
SemanticsWithoutEvidence(corpus) ==
    [repository \in Keys(corpus.evidence) |->
        [screening  |-> Find(corpus.screenings, repository),
         projection |-> Find(corpus.projections, repository)]]

\* A repository with everything known about it: a change of any part counts.
RepositorySemantics(corpus) ==
    [repository \in Keys(corpus.evidence) |->
        [evidence   |-> Find(corpus.evidence, repository),
         screening  |-> Find(corpus.screenings, repository),
         projection |-> Find(corpus.projections, repository),
         assessments |->
            {[problem |-> Find(corpus.problems, a.key[1]), assessment |-> a] :
                a \in {a \in corpus.assessments : a.key[2] = repository}}]]

KeyedDiff(before, after) ==
    [added   |-> DOMAIN after \ DOMAIN before,
     removed |-> DOMAIN before \ DOMAIN after,
     changed |-> {key \in DOMAIN before \cap DOMAIN after : before[key] # after[key]}]

SemanticDiff(previous, semantic) ==
    LET old == [kind \in Kinds |-> UNION {s.semantic.corpus[kind] : s \in previous}]
        new == semantic.corpus
    IN  [previous |-> {s.semantic : s \in previous},
         profileChanged |-> \E s \in previous : s.semantic.profile # semantic.profile,
         repositories |-> KeyedDiff(RepositorySemantics(old), RepositorySemantics(new)),
         exclusions   |-> KeyedDiff(ByKey(old.excluded), ByKey(new.excluded)),
         briefs       |-> KeyedDiff(ByKey(old.briefs), ByKey(new.briefs))]

\* Mutant: the previous snapshot is never returned as it is.
CompileAfresh(profile, documents, previous) ==
    LET semantic == Semantic(profile, documents)
    IN  [semantic |-> semantic, diff |-> SemanticDiff(previous, semantic)]

Compile(profile, documents, previous) ==
    LET semantic == Semantic(profile, documents)
        same == {s \in previous : s.semantic = semantic}
    IN  IF same # {} THEN CHOOSE s \in same : TRUE
        ELSE [semantic |-> semantic, diff |-> SemanticDiff(previous, semantic)]
=============================================================================
