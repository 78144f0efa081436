-------------------------- MODULE ProjectionProofs --------------------------
(***************************************************************************)
(* What build_projection_plan seals, for every account state, snapshot and *)
(* order of names: the plan is well sealed, and performing it step by step *)
(* leads from the observed state to the projected one.                     *)
(***************************************************************************)
EXTENDS MCProjection, DataInduction

\* s puts the elements of S in an order.
OrderOf(s, S) == s \in Seq(S) /\ Elements(s) = S /\ Distinct(s)

LEMMA OrdersAreOrders ==
    OrderOf(SlugOrder, Slugs) /\ OrderOf(RepoOrder, Repos)
<1>1. ASSUME NEW S, NEW s \in Seq(S), ToSet(s) = S, IsInjective(s)
      PROVE  OrderOf(s, S)
  <2>1. DOMAIN s = 1 .. Len(s)
    OBVIOUS
  <2>2. QED
    BY <1>1, <2>1 DEF OrderOf, Elements, Distinct, ToSet, IsInjective
<1>2. QED
  BY <1>1, OrdersAssumption

-----------------------------------------------------------------------------
(* The operations of each kind.                                            *)

Missing(baseline) == {slug \in Slugs : Named(baseline.lists, slug) = {}}

\* The collections the repository shall enter and is in no List of.
Absent(baseline, desired, repo) ==
    {slug \in desired[repo] :
        Named(baseline.lists, slug) \cap MembershipsOf(repo, baseline.lists) = {}}

Creates(baseline) == {CreateOp(slug) : slug \in Missing(baseline)}
Stars(baseline) == {StarOp(repo) : repo \in Repos \ baseline.starred}
Additions(baseline, desired, repo) ==
    {MembershipOp(slug, repo) : slug \in Absent(baseline, desired, repo)}

OneToOne(op, X, Y) == op \in [X -> Y] /\ \A x, y \in X : op[x] = op[y] => x = y

MappedBy(op, s) == [i \in 1 .. Len(s) |-> op[s[i]]]

\* A sequence that holds op[x] for each x of a distinct sequence.
LEMMA MappedSequence ==
    ASSUME NEW X, NEW Y, NEW s \in Seq(X), Distinct(s), NEW op, OneToOne(op, X, Y)
    PROVE  /\ MappedBy(op, s) \in Seq(Y)
           /\ Elements(MappedBy(op, s)) = {op[x] : x \in Elements(s)}
           /\ Distinct(MappedBy(op, s))
<1> DEFINE t == MappedBy(op, s)
<1>1. /\ Len(s) \in Nat
      /\ \A i \in 1 .. Len(s) : s[i] \in X
  OBVIOUS
<1>2. \A i \in 1 .. Len(s) : op[s[i]] \in Y
  BY <1>1 DEF OneToOne
<1>3. t \in Seq(Y) /\ Len(t) = Len(s) /\ \A i \in 1 .. Len(s) : t[i] = op[s[i]]
  BY <1>1, <1>2 DEF MappedBy
<1> HIDE DEF t
<1>4. Elements(t) = {op[x] : x \in Elements(s)}
  BY <1>1, <1>3 DEF Elements
<1>5. Distinct(t)
  BY <1>1, <1>3 DEF Distinct, OneToOne
<1>6. QED
  BY <1>3, <1>4, <1>5 DEF t

LEMMA OperationTypes ==
    /\ \A slug \in Slugs : CreateOp(slug) \in Operation
    /\ \A repo \in Repos : StarOp(repo) \in Operation
    /\ \A repo \in Repos, slug \in Slugs : MembershipOp(slug, repo) \in Operation
BY DEF CreateOp, StarOp, MembershipOp, Operation

LEMMA OperationsTellApart ==
    /\ \A slug : CreateOp(slug).kind = "create-list" /\ CreateOp(slug).slug = slug
    /\ \A repo : StarOp(repo).kind = "star-repository" /\ StarOp(repo).repo = repo
    /\ \A slug, repo : /\ MembershipOp(slug, repo).kind = "add-membership"
                       /\ MembershipOp(slug, repo).slug = slug
                       /\ MembershipOp(slug, repo).repo = repo
BY DEF CreateOp, StarOp, MembershipOp

LEMMA CreatesAreSealed ==
    ASSUME NEW baseline, NEW slugOrder, OrderOf(slugOrder, Slugs)
    PROVE  LET ops == CreateOperations(baseline, slugOrder)
           IN  /\ ops \in Seq(Operation)
               /\ Elements(ops) = Creates(baseline)
               /\ Distinct(ops)
<1> DEFINE ops == CreateOperations(baseline, slugOrder)
           missing == Select(slugOrder, Missing(baseline))
           op == [slug \in Slugs |-> CreateOp(slug)]
<1>1. missing \in Seq(Slugs) /\ Elements(missing) = Missing(baseline) /\ Distinct(missing)
  <2>1. Slugs \cap Missing(baseline) = Missing(baseline)
    BY DEF Missing
  <2>2. QED
    BY <2>1, SelectProperties DEF OrderOf
<1>2. OneToOne(op, Slugs, Operation)
  BY OperationTypes DEF OneToOne, CreateOp
<1>4. ops = MappedBy(op, missing)
  <2>1. ops = [i \in 1 .. Len(missing) |-> CreateOp(missing[i])]
    BY DEF CreateOperations, Missing
  <2>2. \A i \in 1 .. Len(missing) : missing[i] \in Slugs
    BY <1>1
  <2> HIDE DEF missing, ops
  <2>3. QED
    BY <2>1, <2>2 DEF MappedBy
<1>5. /\ ops \in Seq(Operation)
      /\ Elements(ops) = {op[x] : x \in Elements(missing)}
      /\ Distinct(ops)
  <2> HIDE DEF missing, ops, op
  <2>1. QED
    BY <1>1, <1>2, <1>4, MappedSequence
<1>6. {op[x] : x \in Elements(missing)} = Creates(baseline)
  BY <1>1 DEF Creates, Missing
<1>7. QED
  BY <1>5, <1>6

LEMMA StarsAreSealed ==
    ASSUME NEW baseline, NEW repoOrder, OrderOf(repoOrder, Repos)
    PROVE  LET ops == StarOperationSeq(baseline, repoOrder)
           IN  /\ ops \in Seq(Operation)
               /\ Elements(ops) = Stars(baseline)
               /\ Distinct(ops)
<1> DEFINE ops == StarOperationSeq(baseline, repoOrder)
           unstarred == Select(repoOrder, Repos \ baseline.starred)
           op == [repo \in Repos |-> StarOp(repo)]
<1>1. /\ unstarred \in Seq(Repos)
      /\ Elements(unstarred) = Repos \ baseline.starred
      /\ Distinct(unstarred)
  <2>1. Repos \cap (Repos \ baseline.starred) = Repos \ baseline.starred
    OBVIOUS
  <2>2. QED
    BY <2>1, SelectProperties DEF OrderOf
<1>2. OneToOne(op, Repos, Operation)
  BY OperationTypes DEF OneToOne, StarOp
<1>4. ops = MappedBy(op, unstarred)
  <2>1. ops = [i \in 1 .. Len(unstarred) |-> StarOp(unstarred[i])]
    BY DEF StarOperationSeq
  <2>2. \A i \in 1 .. Len(unstarred) : unstarred[i] \in Repos
    BY <1>1
  <2> HIDE DEF unstarred, ops
  <2>3. QED
    BY <2>1, <2>2 DEF MappedBy
<1>5. /\ ops \in Seq(Operation)
      /\ Elements(ops) = {op[x] : x \in Elements(unstarred)}
      /\ Distinct(ops)
  <2> HIDE DEF unstarred, ops, op
  <2>1. QED
    BY <1>1, <1>2, <1>4, MappedSequence
<1>6. {op[x] : x \in Elements(unstarred)} = Stars(baseline)
  BY <1>1 DEF Stars
<1>7. QED
  BY <1>5, <1>6

LEMMA AdditionsAreSealed ==
    ASSUME NEW baseline, NEW desired \in [Repos -> SUBSET Slugs],
           NEW slugOrder, OrderOf(slugOrder, Slugs), NEW repo \in Repos
    PROVE  LET ops == MembershipOperations(baseline, desired, slugOrder, repo)
           IN  /\ ops \in Seq(Operation)
               /\ Elements(ops) = Additions(baseline, desired, repo)
               /\ Distinct(ops)
<1> DEFINE ops == MembershipOperations(baseline, desired, slugOrder, repo)
           absent == Select(slugOrder, Absent(baseline, desired, repo))
           op == [slug \in Slugs |-> MembershipOp(slug, repo)]
<1>1. /\ absent \in Seq(Slugs)
      /\ Elements(absent) = Absent(baseline, desired, repo)
      /\ Distinct(absent)
  <2>1. Slugs \cap Absent(baseline, desired, repo) = Absent(baseline, desired, repo)
    BY DEF Absent
  <2>2. QED
    BY <2>1, SelectProperties DEF OrderOf
<1>2. OneToOne(op, Slugs, Operation)
  BY OperationTypes DEF OneToOne, MembershipOp
<1>4. ops = MappedBy(op, absent)
  <2>1. ops = [i \in 1 .. Len(absent) |-> MembershipOp(absent[i], repo)]
    BY DEF MembershipOperations, Absent
  <2>2. \A i \in 1 .. Len(absent) : absent[i] \in Slugs
    BY <1>1
  <2> HIDE DEF absent, ops
  <2>3. QED
    BY <2>1, <2>2 DEF MappedBy
<1>5. /\ ops \in Seq(Operation)
      /\ Elements(ops) = {op[x] : x \in Elements(absent)}
      /\ Distinct(ops)
  <2> HIDE DEF absent, ops, op
  <2>1. QED
    BY <1>1, <1>2, <1>4, MappedSequence
<1>6. {op[x] : x \in Elements(absent)} = Additions(baseline, desired, repo)
  BY <1>1 DEF Additions, Absent
<1>7. QED
  BY <1>5, <1>6

-----------------------------------------------------------------------------
(* The whole sequence.                                                     *)

AllAdditions(baseline, desired) ==
    UNION {Additions(baseline, desired, repo) : repo \in Repos}

\* Lists are created and repositories starred before any membership is added.
MembershipsComeLast(ops) ==
    \A m, n \in 1 .. Len(ops) :
        ops[m].kind = "add-membership" /\ ops[n].kind # "add-membership" => n < m

LEMMA AllAdditionsAreSealed ==
    ASSUME NEW baseline, NEW desired \in [Repos -> SUBSET Slugs],
           NEW slugOrder, OrderOf(slugOrder, Slugs),
           NEW repoOrder, OrderOf(repoOrder, Repos)
    PROVE  LET ops == FlattenSeq([i \in 1 .. Len(repoOrder) |->
                          MembershipOperations(baseline, desired, slugOrder, repoOrder[i])])
           IN  /\ ops \in Seq(Operation)
               /\ Elements(ops) = AllAdditions(baseline, desired)
               /\ Distinct(ops)
<1> DEFINE parts == [i \in 1 .. Len(repoOrder) |->
                        MembershipOperations(baseline, desired, slugOrder, repoOrder[i])]
<1>1. /\ Len(repoOrder) \in Nat
      /\ \A i \in 1 .. Len(repoOrder) : repoOrder[i] \in Repos
      /\ \A repo \in Repos : \E i \in 1 .. Len(repoOrder) : repoOrder[i] = repo
      /\ \A i, j \in 1 .. Len(repoOrder) : repoOrder[i] = repoOrder[j] => i = j
  BY DEF OrderOf, Elements, Distinct
<1>2. \A i \in 1 .. Len(repoOrder) :
          /\ parts[i] \in Seq(Operation)
          /\ Elements(parts[i]) = Additions(baseline, desired, repoOrder[i])
          /\ Distinct(parts[i])
  <2>1. TAKE i \in 1 .. Len(repoOrder)
  <2>2. repoOrder[i] \in Repos
    BY <1>1
  <2>3. parts[i] = MembershipOperations(baseline, desired, slugOrder, repoOrder[i])
    OBVIOUS
  <2>4. QED
    BY <2>2, <2>3, AdditionsAreSealed, Zenon
<1>3. parts \in Seq(Seq(Operation)) /\ Len(parts) = Len(repoOrder)
  <2>1. parts = [i \in 1 .. Len(repoOrder) |-> parts[i]]
    OBVIOUS
  <2> HIDE DEF parts
  <2>2. QED
    BY <1>1, <1>2, <2>1
<1> HIDE DEF parts
<1>4. \A i, j \in 1 .. Len(parts) :
          i # j => Elements(parts[i]) \cap Elements(parts[j]) = {}
  <2>1. \A r, s \in Repos :
            r # s => Additions(baseline, desired, r) \cap Additions(baseline, desired, s) = {}
    BY DEF Additions, MembershipOp
  <2>2. QED
    BY <1>1, <1>2, <1>3, <2>1
<1>5. /\ FlattenSeq(parts) \in Seq(Operation)
      /\ Elements(FlattenSeq(parts)) = UNION {Elements(parts[i]) : i \in 1 .. Len(parts)}
      /\ Distinct(FlattenSeq(parts))
  <2>1. \A i \in 1 .. Len(parts) : Distinct(parts[i])
    BY <1>2, <1>3
  <2>2. QED
    BY <1>3, <1>4, <2>1, FlattenProperties
<1>6. UNION {Elements(parts[i]) : i \in 1 .. Len(parts)} = AllAdditions(baseline, desired)
  <2>1. \A op : op \in AllAdditions(baseline, desired)
                   <=> \E repo \in Repos : op \in Additions(baseline, desired, repo)
    BY DEF AllAdditions
  <2>2. \A op : op \in UNION {Elements(parts[i]) : i \in 1 .. Len(parts)}
                   <=> \E i \in 1 .. Len(repoOrder) :
                          op \in Additions(baseline, desired, repoOrder[i])
    BY <1>2, <1>3
  <2>3. QED
    BY <1>1, <2>1, <2>2
<1>7. QED
  BY <1>5, <1>6 DEF parts

LEMMA OperationsAreSealed ==
    ASSUME NEW baseline, NEW desired \in [Repos -> SUBSET Slugs],
           NEW slugOrder, OrderOf(slugOrder, Slugs),
           NEW repoOrder, OrderOf(repoOrder, Repos)
    PROVE  LET ops == ProjectionOperations(baseline, desired, slugOrder, repoOrder)
           IN  /\ ops \in Seq(Operation)
               /\ Elements(ops) = Creates(baseline) \cup Stars(baseline)
                                     \cup AllAdditions(baseline, desired)
               /\ Distinct(ops)
               /\ MembershipsComeLast(ops)
               /\ KindsInOrder(ops)
<1> DEFINE creates == CreateOperations(baseline, slugOrder)
           stars == StarOperationSeq(baseline, repoOrder)
           additions == FlattenSeq([i \in 1 .. Len(repoOrder) |->
                           MembershipOperations(baseline, desired, slugOrder, repoOrder[i])])
           ops == ProjectionOperations(baseline, desired, slugOrder, repoOrder)
<1>1. ops = (creates \o stars) \o additions
  BY DEF ProjectionOperations
<1>2. creates \in Seq(Operation) /\ Elements(creates) = Creates(baseline) /\ Distinct(creates)
  BY CreatesAreSealed
<1>3. stars \in Seq(Operation) /\ Elements(stars) = Stars(baseline) /\ Distinct(stars)
  BY StarsAreSealed
<1>4. /\ additions \in Seq(Operation)
      /\ Elements(additions) = AllAdditions(baseline, desired)
      /\ Distinct(additions)
  BY AllAdditionsAreSealed
<1> HIDE DEF creates, stars, additions, ops
<1>5. /\ \A op \in Creates(baseline) : op.kind = "create-list"
      /\ \A op \in Stars(baseline) : op.kind = "star-repository"
      /\ \A op \in AllAdditions(baseline, desired) : op.kind = "add-membership"
  BY DEF Creates, Stars, AllAdditions, Additions, CreateOp, StarOp, MembershipOp
<1>6. /\ Creates(baseline) \cap Stars(baseline) = {}
      /\ (Creates(baseline) \cup Stars(baseline)) \cap AllAdditions(baseline, desired) = {}
  BY <1>5
<1> DEFINE first == creates \o stars
<1>7. /\ first \in Seq(Operation) /\ Distinct(first)
      /\ Elements(first) = Creates(baseline) \cup Stars(baseline)
  BY <1>2, <1>3, <1>6, ConcatElements
<1> HIDE DEF first
<1>8. ops = first \o additions
  BY <1>1 DEF first
<1>9. /\ ops \in Seq(Operation) /\ Distinct(ops)
      /\ Elements(ops) = Elements(first) \cup Elements(additions)
  BY <1>4, <1>6, <1>7, <1>8, ConcatElements
<1>10. MembershipsComeLast(ops)
  <2>1. SUFFICES ASSUME NEW m \in 1 .. Len(ops), NEW n \in 1 .. Len(ops),
                        ops[m].kind = "add-membership", ops[n].kind # "add-membership"
                 PROVE  n < m
    BY DEF MembershipsComeLast
  <2>2. /\ Len(first) \in Nat /\ Len(additions) \in Nat
        /\ Len(ops) = Len(first) + Len(additions)
        /\ \A i \in 1 .. Len(first) : ops[i] = first[i]
        /\ \A i \in 1 .. Len(additions) : ops[Len(first) + i] = additions[i]
    BY <1>4, <1>7, <1>8
  <2>3. \A i \in 1 .. Len(first) : ops[i].kind # "add-membership"
    <3>1. TAKE i \in 1 .. Len(first)
    <3>2. ops[i] \in Elements(first)
      BY <2>2 DEF Elements
    <3>3. QED
      BY <1>5, <1>7, <3>2
  <2>4. \A i \in 1 .. Len(additions) : ops[Len(first) + i].kind = "add-membership"
    <3>1. TAKE i \in 1 .. Len(additions)
    <3>2. ops[Len(first) + i] \in Elements(additions)
      BY <2>2 DEF Elements
    <3>3. QED
      BY <1>4, <1>5, <3>2
  <2>5. Len(first) < m
    BY <2>1, <2>2, <2>3
  <2>6. n <= Len(first)
    <3>1. CASE n > Len(first)
      <4>1. n - Len(first) \in 1 .. Len(additions) /\ Len(first) + (n - Len(first)) = n
        BY <2>2, <3>1
      <4>2. QED
        BY <2>1, <2>4, <4>1
    <3>2. QED
      BY <2>2, <3>1
  <2>7. QED
    BY <2>2, <2>5, <2>6
<1>11. ASSUME NEW m \in 1 .. Len(ops), NEW n \in 1 .. Len(ops), m < n,
              ops[n].kind = "create-list"
       PROVE  ops[m].kind = "create-list"
  <2>1. /\ Len(first) \in Nat /\ Len(additions) \in Nat
        /\ Len(ops) = Len(first) + Len(additions)
        /\ \A i \in 1 .. Len(first) : ops[i] = first[i]
        /\ \A i \in 1 .. Len(additions) : ops[Len(first) + i] = additions[i]
    BY <1>4, <1>7, <1>8
  <2>2. /\ Len(creates) \in Nat /\ Len(stars) \in Nat
        /\ Len(first) = Len(creates) + Len(stars)
        /\ \A i \in 1 .. Len(creates) : first[i] = creates[i]
        /\ \A i \in 1 .. Len(stars) : first[Len(creates) + i] = stars[i]
    BY <1>2, <1>3 DEF first
  <2>3. n <= Len(first)
    <3>1. CASE n > Len(first)
      <4>1. n - Len(first) \in 1 .. Len(additions) /\ Len(first) + (n - Len(first)) = n
        BY <2>1, <3>1
      <4>2. ops[n] \in Elements(additions)
        BY <2>1, <4>1 DEF Elements
      <4>3. QED
        BY <1>4, <1>5, <1>11, <4>2
    <3>2. QED
      BY <2>1, <3>1
  <2>4. n <= Len(creates)
    <3>1. CASE n > Len(creates)
      <4>1. PICK i \in 1 .. Len(stars) : n = Len(creates) + i
        <5>1. n - Len(creates) \in 1 .. Len(stars) /\ n = Len(creates) + (n - Len(creates))
          BY <2>2, <2>3, <3>1
        <5>2. QED
          BY <5>1
      <4>2. ops[n] = first[n]
        BY <2>1, <2>3
      <4>3. first[n] = stars[i] /\ stars[i] \in Elements(stars)
        BY <2>2, <4>1 DEF Elements
      <4>4. QED
        BY <1>3, <1>5, <1>11, <4>2, <4>3
    <3>2. QED
      BY <2>2, <3>1
  <2>5. m \in 1 .. Len(creates) /\ ops[m] = creates[m]
    BY <1>11, <2>1, <2>2, <2>3, <2>4
  <2>6. creates[m] \in Elements(creates)
    BY <2>5 DEF Elements
  <2>7. QED
    BY <1>2, <1>5, <2>5, <2>6
<1>12. KindsInOrder(ops)
  <2>1. DOMAIN ops = 1 .. Len(ops) /\ Len(ops) \in Nat
    BY <1>9
  <2>2. SUFFICES ASSUME NEW m \in 1 .. Len(ops), NEW n \in 1 .. Len(ops), m < n
                 PROVE  /\ ops[n].kind = "create-list" => ops[m].kind = "create-list"
                        /\ ops[m].kind = "add-membership"
                               => ops[n].kind = "add-membership"
    BY <2>1 DEF KindsInOrder
  <2>3. ops[m].kind = "add-membership" => ops[n].kind = "add-membership"
    BY <1>10, <2>1, <2>2 DEF MembershipsComeLast
  <2>4. QED
    BY <1>11, <2>2, <2>3
<1>13. QED
  BY <1>4, <1>7, <1>9, <1>10, <1>12 DEF ops

-----------------------------------------------------------------------------
(* The sealed plan.                                                        *)

\* Every plan build_projection_plan seals for a baseline whose Lists resolve is
\* a plan, and is well sealed: GitHubApply's PlanAssumption holds of it, for
\* every account state, every selection of collections and every order of names.
THEOREM SealedPlansAreWellSealed ==
    ASSUME NEW baseline \in AccountState, Projectable(baseline),
           NEW desired \in [Repos -> SUBSET Slugs],
           NEW slugOrder, OrderOf(slugOrder, Slugs),
           NEW repoOrder, OrderOf(repoOrder, Repos)
    PROVE  LET sealed == SealedPlan(baseline, desired, slugOrder, repoOrder)
           IN  sealed \in PlanRecord /\ WellSealed(sealed)
<1> DEFINE ops == ProjectionOperations(baseline, desired, slugOrder, repoOrder)
           sealed == SealedPlan(baseline, desired, slugOrder, repoOrder)
<1>1. /\ ops \in Seq(Operation)
      /\ Elements(ops) = Creates(baseline) \cup Stars(baseline)
                            \cup AllAdditions(baseline, desired)
      /\ Distinct(ops) /\ KindsInOrder(ops)
  BY OperationsAreSealed
<1>2. sealed.baseline = baseline /\ sealed.desired = desired /\ sealed.ops = ops
  BY DEF SealedPlan
<1>3. sealed \in PlanRecord
  BY <1>1 DEF SealedPlan, PlanRecord
<1> HIDE DEF ops, sealed
<1>4. OpIds(sealed) = 1 .. Len(ops)
  BY <1>1, <1>2 DEF OpIds
<1>5. \A op : Plans(sealed, op) <=> op \in Elements(ops)
  BY <1>2, <1>4 DEF Plans, Elements
<1>6. TargetsResolve(baseline.lists)
  BY DEF Projectable
<1>7. \A m, n \in OpIds(sealed) : sealed.ops[m] = sealed.ops[n] => m = n
  BY <1>1, <1>2, <1>4 DEF Distinct
<1>8. \A slug \in Slugs : CreateOp(slug) \in Elements(ops) <=> slug \in Missing(baseline)
  BY <1>1, OperationsTellApart DEF Creates, Stars, AllAdditions, Additions
<1>9. \A repo \in Repos : StarOp(repo) \in Elements(ops) <=> repo \notin baseline.starred
  <2>1. TAKE repo \in Repos
  <2>2. StarOp(repo) \notin Creates(baseline) \cup AllAdditions(baseline, desired)
    BY OperationsTellApart DEF Creates, AllAdditions, Additions
  <2>3. StarOp(repo) \in Stars(baseline) <=> repo \notin baseline.starred
    BY OperationsTellApart DEF Stars
  <2>4. QED
    BY <1>1, <2>2, <2>3
<1>10. \A repo \in Repos, slug \in Slugs :
          MembershipOp(slug, repo) \in Elements(ops)
              <=> slug \in Absent(baseline, desired, repo)
  BY <1>1, OperationsTellApart DEF Creates, Stars, AllAdditions, Additions
<1>11. \A repo \in Repos, slug \in Slugs :
          slug \in Absent(baseline, desired, repo)
              <=> slug \in desired[repo] /\ ~IsMember(repo, slug, baseline.lists)
  BY DEF Absent, IsMember, MembershipsOf, Named
<1>12. WellSealed(sealed)
  BY <1>1, <1>2, <1>5, <1>6, <1>7, <1>8, <1>9, <1>10, <1>11 DEF WellSealed, Missing
<1>13. QED
  BY <1>3, <1>12 DEF sealed

-----------------------------------------------------------------------------
(* Performing the plan: after the first next - 1 operations the account is *)
(* the baseline plus exactly what these operations add.                    *)

Finished == {plan.ops[n] : n \in 1 .. next - 1}

PlanInv ==
    /\ plan \in PlanRecord
    /\ WellSealed(plan)
    /\ MembershipsComeLast(plan.ops)

StarsDone ==
    account.starred = plan.baseline.starred \cup {repo \in Repos : StarOp(repo) \in Finished}

ListsDone ==
    /\ \A l \in Live(account.lists) \ Live(plan.baseline.lists) :
          /\ account.lists[l].name \in Slugs
          /\ account.lists[l].conforming
          /\ CreateOp(account.lists[l].name) \in Finished
    /\ \A slug \in Slugs :
          Named(account.lists, slug) # {}
              <=> Named(plan.baseline.lists, slug) # {} \/ CreateOp(slug) \in Finished

MembersDone ==
    \A l \in Live(account.lists) :
        account.lists[l].members =
            BaselineMembers(plan, l)
            \cup {repo \in Repos : /\ account.lists[l].name \in Slugs
                                   /\ MembershipOp(account.lists[l].name, repo) \in Finished}

AccountInv ==
    /\ account \in AccountState
    /\ next \in 1 .. Len(plan.ops) + 1
    /\ StarsDone
    /\ BaselineListsKept(plan, account)
    /\ ListsDone
    /\ MembersDone
    /\ TargetsResolve(account.lists)

IInv == PlanInv /\ AccountInv

LEMMA PlanFacts ==
    ASSUME PlanInv
    PROVE  /\ plan.baseline \in AccountState
           /\ plan.desired \in [Repos -> SUBSET Slugs]
           /\ plan.ops \in Seq(Operation)
           /\ Len(plan.ops) \in Nat
           /\ OpIds(plan) = 1 .. Len(plan.ops)
           /\ DOMAIN plan.ops = 1 .. Len(plan.ops)
           /\ \A n \in 1 .. Len(plan.ops) : plan.ops[n] \in Operation
BY DEF PlanInv, PlanRecord, OpIds

\* An operation is one of the three kinds.
LEMMA OperationCases ==
    ASSUME NEW op \in Operation
    PROVE  \/ \E slug \in Slugs : op = CreateOp(slug)
           \/ \E repo \in Repos : op = StarOp(repo)
           \/ \E slug \in Slugs, repo \in Repos : op = MembershipOp(slug, repo)
BY DEF Operation, CreateOp, StarOp, MembershipOp

\* What comes before a membership is done when the membership's turn has come.
LEMMA EarlierIsDone ==
    ASSUME PlanInv, NEW m \in 1 .. Len(plan.ops), m <= next, next \in Nat,
           plan.ops[m].kind = "add-membership",
           NEW op, op.kind # "add-membership", Plans(plan, op)
    PROVE  op \in Finished
<1>1. PICK n \in 1 .. Len(plan.ops) : plan.ops[n] = op
  BY PlanFacts DEF Plans
<1>2. n < m
  BY <1>1 DEF PlanInv, MembershipsComeLast
<1>3. n \in 1 .. next - 1
  BY <1>2, PlanFacts
<1>4. QED
  BY <1>1, <1>3 DEF Finished

\* A List of the name exists when a membership's turn has come.
LEMMA TargetExists ==
    ASSUME IInv, NEW m \in 1 .. Len(plan.ops), m <= next,
           NEW slug \in Slugs, NEW repo \in Repos,
           plan.ops[m] = MembershipOp(slug, repo)
    PROVE  Named(account.lists, slug) # {} /\ (repo \in account.starred)
<1>1. plan.ops[m].kind = "add-membership" /\ next \in Nat /\ Len(plan.ops) \in Nat
  BY OperationsTellApart, PlanFacts DEF IInv, AccountInv
<1>2. Named(account.lists, slug) # {}
  <2>1. CASE Named(plan.baseline.lists, slug) = {}
    <3>1. Plans(plan, CreateOp(slug))
      BY <2>1 DEF IInv, PlanInv, WellSealed
    <3>2. CreateOp(slug) \in Finished
      BY <1>1, <3>1, EarlierIsDone, OperationsTellApart DEF IInv
    <3>3. QED
      BY <3>2 DEF IInv, AccountInv, ListsDone
  <2>2. QED
    BY <2>1 DEF IInv, AccountInv, ListsDone
<1>3. repo \in account.starred
  <2>1. CASE repo \notin plan.baseline.starred
    <3>1. Plans(plan, StarOp(repo))
      BY <2>1 DEF IInv, PlanInv, WellSealed
    <3>2. StarOp(repo) \in Finished
      BY <1>1, <3>1, EarlierIsDone, OperationsTellApart DEF IInv
    <3>3. QED
      BY <3>2 DEF IInv, AccountInv, StarsDone
  <2>2. QED
    BY <2>1 DEF IInv, AccountInv, StarsDone
<1>4. QED
  BY <1>2, <1>3

\* Every membership the account has was in the baseline or has been added.
LEMMA MembershipsAreAccounted ==
    ASSUME IInv, NEW slug \in Slugs, NEW repo \in Repos
    PROVE  IsMember(repo, slug, account.lists)
               <=> \/ IsMember(repo, slug, plan.baseline.lists)
                   \/ MembershipOp(slug, repo) \in Finished
<1>1. ASSUME IsMember(repo, slug, account.lists),
             MembershipOp(slug, repo) \notin Finished
      PROVE  IsMember(repo, slug, plan.baseline.lists)
  <2>1. PICK l \in Named(account.lists, slug) : repo \in account.lists[l].members
    BY <1>1 DEF IsMember
  <2>2. l \in Live(account.lists) /\ account.lists[l].name = slug
    BY <2>1 DEF Named
  <2>3. repo \in BaselineMembers(plan, l)
    BY <1>1, <2>1, <2>2 DEF IInv, AccountInv, MembersDone
  <2>4. l \in Live(plan.baseline.lists) /\ repo \in plan.baseline.lists[l].members
    BY <2>3 DEF BaselineMembers
  <2>5. plan.baseline.lists[l].name = slug
    BY <2>2, <2>4 DEF IInv, AccountInv, BaselineListsKept
  <2>6. QED
    BY <2>4, <2>5 DEF IsMember, Named
<1>2. ASSUME IsMember(repo, slug, plan.baseline.lists)
      PROVE  IsMember(repo, slug, account.lists)
  <2>1. PICK l \in Live(plan.baseline.lists) :
                /\ plan.baseline.lists[l].name = slug
                /\ repo \in plan.baseline.lists[l].members
    BY <1>2 DEF IsMember, Named
  <2>2. l \in Live(account.lists) /\ account.lists[l].name = slug
    BY <2>1 DEF IInv, AccountInv, BaselineListsKept
  <2>3. repo \in account.lists[l].members
    BY <2>1, <2>2 DEF IInv, AccountInv, MembersDone, BaselineMembers
  <2>4. QED
    BY <2>2, <2>3 DEF IsMember, Named
<1>3. ASSUME MembershipOp(slug, repo) \in Finished
      PROVE  IsMember(repo, slug, account.lists)
  <2>1. PICK m \in 1 .. next - 1 : plan.ops[m] = MembershipOp(slug, repo)
    BY <1>3 DEF Finished
  <2>2. m \in 1 .. Len(plan.ops) /\ m <= next
    BY PlanFacts DEF IInv, AccountInv
  <2>3. PICK l \in Named(account.lists, slug) : TRUE
    BY <2>1, <2>2, TargetExists
  <2>4. l \in Live(account.lists) /\ account.lists[l].name = slug
    BY <2>3 DEF Named
  <2>5. repo \in account.lists[l].members
    BY <1>3, <2>4 DEF IInv, AccountInv, MembersDone
  <2>6. QED
    BY <2>3, <2>5 DEF IsMember
<1>4. QED
  BY <1>1, <1>2, <1>3

\* No operation is done before its turn.
LEMMA NextIsNotDone ==
    ASSUME IInv, next \in DOMAIN plan.ops
    PROVE  plan.ops[next] \notin Finished
<1>1. SUFFICES ASSUME NEW n \in 1 .. next - 1, plan.ops[n] = plan.ops[next]
               PROVE  FALSE
  BY DEF Finished
<1>2. next \in 1 .. Len(plan.ops) /\ n \in 1 .. Len(plan.ops) /\ n # next
  BY PlanFacts DEF IInv
<1>3. QED
  BY <1>1, <1>2, PlanFacts DEF IInv, PlanInv, WellSealed

LEMMA DueByInvariant ==
    ASSUME IInv
    PROVE  EveryOperationIsDue
<1>1. SUFFICES ASSUME next \in DOMAIN plan.ops
               PROVE  /\ ~Satisfied(plan.ops[next], account)
                      /\ plan.ops[next].kind = "add-membership" =>
                            /\ plan.ops[next].repo \in account.starred
                            /\ Named(account.lists, plan.ops[next].slug) # {}
  BY DEF EveryOperationIsDue
<1> DEFINE op == plan.ops[next]
<1>2. /\ next \in 1 .. Len(plan.ops) /\ next \in OpIds(plan) /\ next <= next
      /\ op \in Operation /\ Plans(plan, op)
  BY <1>1, PlanFacts DEF IInv, Plans
<1>3. op \notin Finished
  BY <1>1, NextIsNotDone
<1>4. ASSUME NEW slug \in Slugs, op = CreateOp(slug)
      PROVE  ~Satisfied(op, account) /\ op.kind # "add-membership"
  <2>1. Named(plan.baseline.lists, slug) = {}
    BY <1>2, <1>4 DEF IInv, PlanInv, WellSealed
  <2>2. Named(account.lists, slug) = {}
    BY <1>3, <1>4, <2>1 DEF IInv, AccountInv, ListsDone
  <2>3. QED
    BY <1>4, <2>2, OperationsTellApart DEF Satisfied
<1>5. ASSUME NEW repo \in Repos, op = StarOp(repo)
      PROVE  ~Satisfied(op, account) /\ op.kind # "add-membership"
  <2>1. repo \notin plan.baseline.starred
    BY <1>2, <1>5 DEF IInv, PlanInv, WellSealed
  <2>2. repo \notin account.starred
    BY <1>3, <1>5, <2>1 DEF IInv, AccountInv, StarsDone
  <2>3. QED
    BY <1>5, <2>2, OperationsTellApart DEF Satisfied
<1>6. ASSUME NEW slug \in Slugs, NEW repo \in Repos, op = MembershipOp(slug, repo)
      PROVE  /\ ~Satisfied(op, account)
             /\ op.repo \in account.starred
             /\ Named(account.lists, op.slug) # {}
  <2>1. ~IsMember(repo, slug, plan.baseline.lists)
    BY <1>2, <1>6 DEF IInv, PlanInv, WellSealed
  <2>2. ~IsMember(repo, slug, account.lists)
    BY <1>3, <1>6, <2>1, MembershipsAreAccounted
  <2>3. Named(account.lists, slug) # {} /\ (repo \in account.starred)
    BY <1>2, <1>6, TargetExists
  <2>4. QED
    BY <1>6, <2>2, <2>3, OperationsTellApart DEF Satisfied
<1>7. QED
  BY <1>2, <1>4, <1>5, <1>6, OperationCases

LEMMA LeadsThereByInvariant ==
    ASSUME IInv
    PROVE  PlanLeadsThere
<1>1. \A op : op \in Finished => Plans(plan, op)
  <2>1. ASSUME NEW op, NEW n \in 1 .. next - 1, plan.ops[n] = op
        PROVE  Plans(plan, op)
    <3>1. n \in 1 .. Len(plan.ops)
      BY PlanFacts DEF IInv, AccountInv
    <3>2. QED
      BY <2>1, <3>1, PlanFacts DEF IInv, Plans
  <2>2. QED
    BY <2>1 DEF Finished
<1>2. StarsProgress(plan, account)
  <2>1. ASSUME NEW repo \in Repos, StarOp(repo) \in Finished
        PROVE  repo \in StarOperations(plan)
    <3>1. PICK n \in OpIds(plan) : plan.ops[n] = StarOp(repo)
      BY <1>1, <2>1 DEF Plans
    <3>2. plan.ops[n].kind = "star-repository" /\ plan.ops[n].repo = repo
      BY <3>1, OperationsTellApart
    <3>3. QED
      BY <3>2 DEF StarOperations
  <2>2. QED
    BY <2>1 DEF StarsProgress, IInv, AccountInv, StarsDone
<1>3. NewListsPlanned(plan, account)
  <2>1. ASSUME NEW l \in Live(account.lists) \ Live(plan.baseline.lists)
        PROVE  /\ account.lists[l].name \in Slugs
               /\ Named(plan.baseline.lists, account.lists[l].name) = {}
               /\ account.lists[l].conforming
    <3>1. /\ account.lists[l].name \in Slugs
          /\ account.lists[l].conforming
          /\ CreateOp(account.lists[l].name) \in Finished
      BY <2>1 DEF IInv, AccountInv, ListsDone
    <3>2. QED
      BY <1>1, <3>1 DEF IInv, PlanInv, WellSealed
  <2>2. QED
    BY <2>1 DEF NewListsPlanned
<1>4. MembersProgress(plan, account)
  <2>1. ASSUME NEW l \in Live(account.lists)
        PROVE  /\ BaselineMembers(plan, l) \subseteq account.lists[l].members
               /\ account.lists[l].members \ BaselineMembers(plan, l)
                      \subseteq AllowedMembers(plan, account, l)
    <3>1. account.lists[l].members =
              BaselineMembers(plan, l)
              \cup {repo \in Repos : /\ account.lists[l].name \in Slugs
                                     /\ MembershipOp(account.lists[l].name, repo) \in Finished}
      BY <2>1 DEF IInv, AccountInv, MembersDone
    <3>2. \A slug \in Slugs, repo \in Repos :
              MembershipOp(slug, repo) \in Finished => slug \in plan.desired[repo]
      BY <1>1 DEF IInv, PlanInv, WellSealed
    <3>3. QED
      BY <3>1, <3>2 DEF AllowedMembers
  <2>2. QED
    BY <2>1 DEF MembersProgress
<1>5. AllowedProgress(plan, account)
  BY <1>2, <1>3, <1>4 DEF AllowedProgress, IInv, AccountInv
<1>6. ASSUME next = Len(plan.ops) + 1
      PROVE  VerifyStatus(plan, account) = "verified"
  <2>1. \A op : Plans(plan, op) => op \in Finished
    <3>1. 1 .. next - 1 = OpIds(plan)
      BY <1>6, PlanFacts DEF IInv
    <3>2. QED
      BY <3>1 DEF Finished, Plans
  <2>2. \A slug \in Slugs : Named(account.lists, slug) # {}
    BY <2>1 DEF IInv, PlanInv, WellSealed, AccountInv, ListsDone
  <2>3. \A repo \in Repos : repo \in account.starred
    BY <2>1 DEF IInv, PlanInv, WellSealed, AccountInv, StarsDone
  <2>4. ASSUME NEW repo \in Repos, NEW slug \in plan.desired[repo]
        PROVE  IsMember(repo, slug, account.lists)
    <3>1. slug \in Slugs
      BY PlanFacts DEF IInv
    <3>2. \/ IsMember(repo, slug, plan.baseline.lists)
          \/ Plans(plan, MembershipOp(slug, repo))
      BY <3>1 DEF IInv, PlanInv, WellSealed
    <3>3. QED
      BY <2>1, <3>1, <3>2, MembershipsAreAccounted
  <2>5. ASSUME NEW repo \in Repos
        PROVE  MembershipsOf(repo, plan.baseline.lists)
                   \subseteq MembershipsOf(repo, account.lists)
    <3>1. SUFFICES ASSUME NEW l \in Live(plan.baseline.lists),
                          repo \in plan.baseline.lists[l].members
                   PROVE  l \in Live(account.lists) /\ repo \in account.lists[l].members
      BY DEF MembershipsOf
    <3>2. l \in Live(account.lists)
      BY DEF IInv, AccountInv, BaselineListsKept
    <3>3. QED
      BY <3>1, <3>2 DEF IInv, AccountInv, MembersDone, BaselineMembers
  <2>6. Postconditions(plan, account)
    BY <1>5, <2>2, <2>3, <2>4, <2>5 DEF Postconditions
  <2>7. QED
    BY <2>6 DEF VerifyStatus, IInv, AccountInv
<1>7. QED
  BY <1>5, <1>6 DEF PlanLeadsThere

-----------------------------------------------------------------------------
(* The run.                                                                *)

LEMMA InvariantInitially ==
    ASSUME Init
    PROVE  IInv
<1>1. PICK baseline \in {b \in Baselines : Projectable(b)}, desired \in Desires :
          plan = SealedPlan(baseline, desired, SlugOrder, RepoOrder)
  BY DEF Init
<1>2. account = plan.baseline /\ next = 1
  BY DEF Init
<1>3. baseline \in AccountState
  <2>1. PICK starred \in SUBSET Repos, lists \in [BaselineIds -> LiveList \cup {Unborn}] :
            baseline = [starred |-> starred,
                        lists |-> [l \in ListIds |->
                                      IF l \in BaselineIds THEN lists[l] ELSE Unborn]]
    BY <1>1 DEF Baselines
  <2>2. LiveList \subseteq ListState
    BY DEF LiveList, ListState
  <2>3. Unborn \in ListState
    BY DEF Unborn, ListState, Names
  <2>4. QED
    BY <2>1, <2>2, <2>3 DEF AccountState, ListTable
<1>4. Projectable(baseline)
  BY <1>1
<1>5. desired \in [Repos -> SUBSET Slugs]
  BY <1>1 DEF Desires
<1>6. plan \in PlanRecord /\ WellSealed(plan)
  BY <1>1, <1>3, <1>4, <1>5, OrdersAreOrders, SealedPlansAreWellSealed
<1>7. MembershipsComeLast(plan.ops)
  BY <1>1, <1>5, OrdersAreOrders, OperationsAreSealed DEF SealedPlan
<1>8. PlanInv
  BY <1>6, <1>7 DEF PlanInv
<1>9. \A op : op \notin Finished
  BY <1>2 DEF Finished
<1>10. account \in AccountState /\ next \in 1 .. Len(plan.ops) + 1
  BY <1>2, <1>8, PlanFacts
<1>11. StarsDone
  BY <1>2, <1>9 DEF StarsDone
<1>12. BaselineListsKept(plan, account)
  BY <1>2 DEF BaselineListsKept
<1>13. ListsDone
  BY <1>2, <1>9 DEF ListsDone
<1>14. MembersDone
  BY <1>2, <1>9 DEF MembersDone, BaselineMembers
<1>15. TargetsResolve(account.lists)
  BY <1>2, <1>6 DEF WellSealed
<1>16. QED
  BY <1>8, <1>10, <1>11, <1>12, <1>13, <1>14, <1>15 DEF IInv, AccountInv

\* One more operation is done after a step, and nothing else.
LEMMA OneMoreDone ==
    ASSUME IInv, Perform
    PROVE  /\ plan' = plan
           /\ next' = next + 1
           /\ next \in 1 .. Len(plan.ops)
           /\ plan.ops[next] \in Operation
           /\ plan.ops[next] \notin Finished
           /\ Finished' = Finished \cup {plan.ops[next]}
<1>1. /\ plan' = plan /\ next' = next + 1 /\ next \in DOMAIN plan.ops
      /\ next \in 1 .. Len(plan.ops) /\ next \in Nat /\ next >= 1
      /\ plan.ops[next] \in Operation
  BY PlanFacts DEF Perform, IInv
<1>2. plan.ops[next] \notin Finished
  BY <1>1, NextIsNotDone
<1>3. 1 .. next' - 1 = (1 .. next - 1) \cup {next}
  BY <1>1
<1>4. \A op : op \in Finished' <=> \E n \in 1 .. next' - 1 : plan'.ops[n] = op
  BY DEF Finished
<1>5. Finished' = Finished \cup {plan.ops[next]}
  BY <1>1, <1>3, <1>4 DEF Finished
<1>6. QED
  BY <1>1, <1>2, <1>5

LEMMA CreateKeeps ==
    ASSUME IInv, Perform, NEW slug \in Slugs, plan.ops[next] = CreateOp(slug)
    PROVE  AccountInv'
<1> DEFINE fresh == Fresh(account.lists)
           created == [status |-> "live", name |-> slug,
                       conforming |-> TRUE, members |-> {}]
<1>1. /\ account \in AccountState
      /\ plan.ops[next].kind = "create-list" /\ plan.ops[next].slug = slug
  BY OperationsTellApart DEF IInv, AccountInv
<1>2. fresh \in ListIds /\ account.lists[fresh].status = "unborn"
  <2>1. UnbornLists(account.lists) # {}
    BY <1>1 DEF Perform
  <2>2. fresh \in UnbornLists(account.lists)
    BY <2>1 DEF Fresh
  <2>3. QED
    BY <2>2 DEF UnbornLists
<1> HIDE DEF fresh
<1>3. account' = [account EXCEPT !.lists[fresh] = created]
  BY <1>1 DEF Perform, After, fresh
<1>4. /\ account' \in AccountState
      /\ account'.starred = account.starred
      /\ account'.lists[fresh] = created
      /\ \A l \in ListIds \ {fresh} : account'.lists[l] = account.lists[l]
  <2>1. created \in ListState
    BY DEF ListState, Names
  <2>2. QED
    BY <1>1, <1>2, <1>3, <2>1 DEF AccountState, ListTable
<1>5. fresh \notin Live(account.lists) /\ Live(account'.lists) = Live(account.lists) \cup {fresh}
  BY <1>2, <1>4 DEF Live
<1>6. Live(plan.baseline.lists) \subseteq Live(account.lists)
  BY DEF IInv, AccountInv, BaselineListsKept
<1>7. /\ plan' = plan /\ next' = next + 1 /\ next \in 1 .. Len(plan.ops)
      /\ CreateOp(slug) \notin Finished
      /\ Finished' = Finished \cup {CreateOp(slug)}
  BY OneMoreDone
<1>8. Named(account.lists, slug) = {}
  <2>1. ~Satisfied(plan.ops[next], account)
    BY <1>7, DueByInvariant, PlanFacts DEF EveryOperationIsDue, IInv
  <2>2. QED
    BY <1>1, <2>1 DEF Satisfied
<1>9. \A name \in Slugs : Named(account'.lists, name) =
          IF name = slug THEN {fresh} ELSE Named(account.lists, name)
  BY <1>2, <1>4, <1>5, <1>8 DEF Named, Live
<1>10. next' \in 1 .. Len(plan'.ops) + 1
  BY <1>7, PlanFacts DEF IInv
<1>11. StarsDone'
  <2>1. \A repo \in Repos : StarOp(repo) \in Finished' <=> StarOp(repo) \in Finished
    BY <1>7, OperationsTellApart
  <2>2. StarsDone' <=> account'.starred = plan'.baseline.starred
                          \cup {repo \in Repos : StarOp(repo) \in Finished'}
    BY DEF StarsDone
  <2>3. QED
    BY <1>4, <1>7, <2>1, <2>2 DEF IInv, AccountInv, StarsDone
<1>12. BaselineListsKept(plan, account)'
  <2>1. SUFFICES ASSUME NEW l \in Live(plan.baseline.lists)
                 PROVE  /\ l \in Live(account'.lists)
                        /\ account'.lists[l].name = plan.baseline.lists[l].name
                        /\ account'.lists[l].conforming = plan.baseline.lists[l].conforming
    BY <1>7 DEF BaselineListsKept
  <2>2. l \in Live(account'.lists) /\ account'.lists[l] = account.lists[l]
    BY <1>4, <1>5, <1>6 DEF Live
  <2>3. QED
    BY <2>2 DEF IInv, AccountInv, BaselineListsKept
<1>13. ListsDone'
  <2>1. \A l \in Live(account'.lists) \ Live(plan.baseline.lists) :
            /\ account'.lists[l].name \in Slugs
            /\ account'.lists[l].conforming
            /\ CreateOp(account'.lists[l].name) \in Finished'
    <3>1. TAKE l \in Live(account'.lists) \ Live(plan.baseline.lists)
    <3>2. CASE l = fresh
      BY <1>4, <1>7, <3>2
    <3>3. CASE l # fresh
      <4>1. l \in Live(account.lists) /\ l \in ListIds
        BY <1>5, <3>3 DEF Live
      <4>2. account'.lists[l] = account.lists[l]
        BY <1>4, <3>3, <4>1
      <4>3. QED
        BY <1>7, <4>1, <4>2 DEF IInv, AccountInv, ListsDone
    <3>4. QED
      BY <3>2, <3>3
  <2>2. \A name \in Slugs : CreateOp(name) = CreateOp(slug) <=> name = slug
    BY OperationsTellApart
  <2>3. \A name \in Slugs :
            Named(account'.lists, name) # {}
                <=> Named(plan.baseline.lists, name) # {} \/ CreateOp(name) \in Finished'
    BY <1>7, <1>9, <2>2 DEF IInv, AccountInv, ListsDone
  <2>4. QED
    BY <1>7, <2>1, <2>3 DEF ListsDone
<1>14. MembersDone'
  <2>1. \A name \in Slugs, repo \in Repos :
            MembershipOp(name, repo) \in Finished' <=> MembershipOp(name, repo) \in Finished
    BY <1>7, OperationsTellApart
  <2>2. \A repo \in Repos : MembershipOp(slug, repo) \notin Finished
    <3>1. SUFFICES ASSUME NEW repo \in Repos, NEW m \in 1 .. next - 1,
                          plan.ops[m] = MembershipOp(slug, repo)
                   PROVE  FALSE
      BY DEF Finished
    <3>2. m \in 1 .. Len(plan.ops) /\ m < next
      BY <1>7, PlanFacts DEF IInv
    <3>3. plan.ops[m].kind = "add-membership" /\ plan.ops[next].kind # "add-membership"
      BY <1>1, <3>1, OperationsTellApart
    <3>4. next < m
      BY <1>7, <3>2, <3>3 DEF IInv, PlanInv, MembershipsComeLast
    <3>5. QED
      BY <1>7, <3>2, <3>4
  <2>3. \A l : BaselineMembers(plan, l)' = BaselineMembers(plan, l)
    BY <1>7 DEF BaselineMembers
  <2>4. \A l \in Live(account'.lists) :
            account'.lists[l].members =
                BaselineMembers(plan, l)
                \cup {repo \in Repos : /\ account'.lists[l].name \in Slugs
                                       /\ MembershipOp(account'.lists[l].name, repo) \in Finished'}
    <3>1. TAKE l \in Live(account'.lists)
    <3>2. CASE l = fresh
      <4>1. BaselineMembers(plan, l) = {}
        BY <1>5, <1>6, <3>2 DEF BaselineMembers
      <4>2. account'.lists[l].members = {} /\ account'.lists[l].name = slug
        BY <1>4, <3>2
      <4>3. QED
        BY <2>1, <2>2, <4>1, <4>2
    <3>3. CASE l # fresh
      <4>1. l \in Live(account.lists) /\ account'.lists[l] = account.lists[l]
        BY <1>4, <1>5, <3>3 DEF Live
      <4>2. QED
        BY <2>1, <4>1 DEF IInv, AccountInv, MembersDone
    <3>4. QED
      BY <3>2, <3>3
  <2>5. QED
    BY <2>3, <2>4 DEF MembersDone
<1>15. TargetsResolve(account.lists)'
  <2>1. SUFFICES ASSUME NEW name \in Slugs, NEW l \in Named(account'.lists, name),
                        NEW m \in Named(account'.lists, name)
                 PROVE  l = m /\ account'.lists[l].conforming
    BY DEF TargetsResolve
  <2>2. CASE name = slug
    BY <1>4, <1>9, <2>2
  <2>3. CASE name # slug
    <3>1. l \in Named(account.lists, name) /\ m \in Named(account.lists, name)
      BY <1>9, <2>3
    <3>2. l = m /\ account.lists[l].conforming
      BY <3>1 DEF IInv, AccountInv, TargetsResolve
    <3>3. account'.lists[l] = account.lists[l]
      BY <1>4, <1>5, <3>1 DEF Named, Live
    <3>4. QED
      BY <3>2, <3>3
  <2>4. QED
    BY <2>2, <2>3
<1>16. QED
  BY <1>4, <1>10, <1>11, <1>12, <1>13, <1>14, <1>15 DEF AccountInv

LEMMA StarKeeps ==
    ASSUME IInv, Perform, NEW repo \in Repos, plan.ops[next] = StarOp(repo)
    PROVE  AccountInv'
<1>1. /\ account \in AccountState
      /\ plan.ops[next].kind = "star-repository" /\ plan.ops[next].repo = repo
  BY OperationsTellApart DEF IInv, AccountInv
<1>2. /\ account' \in AccountState
      /\ account'.lists = account.lists
      /\ account'.starred = account.starred \cup {repo}
  <2>1. account' = [account EXCEPT !.starred = @ \cup {repo}]
    BY <1>1 DEF Perform, After
  <2>2. QED
    BY <1>1, <2>1 DEF AccountState
<1>3. /\ plan' = plan /\ next' = next + 1 /\ next \in 1 .. Len(plan.ops)
      /\ Finished' = Finished \cup {StarOp(repo)}
  BY OneMoreDone
<1>4. \A slug \in Slugs, r \in Repos :
          /\ CreateOp(slug) \in Finished' <=> CreateOp(slug) \in Finished
          /\ MembershipOp(slug, r) \in Finished' <=> MembershipOp(slug, r) \in Finished
  BY <1>3, OperationsTellApart
<1>5. next' \in 1 .. Len(plan'.ops) + 1
  BY <1>3, PlanFacts DEF IInv
<1>6. StarsDone'
  <2>1. account'.starred = (plan.baseline.starred \cup {r \in Repos : StarOp(r) \in Finished})
                               \cup {repo}
    BY <1>2 DEF IInv, AccountInv, StarsDone
  <2>2. {r \in Repos : StarOp(r) \in Finished'} =
            {r \in Repos : StarOp(r) \in Finished} \cup {repo}
    BY <1>3, OperationsTellApart
  <2>3. QED
    BY <1>3, <2>1, <2>2 DEF StarsDone
<1>7. BaselineListsKept(plan, account)'
  BY <1>2, <1>3 DEF IInv, AccountInv, BaselineListsKept
<1>8. ListsDone'
  BY <1>2, <1>3, <1>4 DEF IInv, AccountInv, ListsDone
<1>9. MembersDone'
  <2>1. \A l : BaselineMembers(plan, l)' = BaselineMembers(plan, l)
    BY <1>3 DEF BaselineMembers
  <2>2. QED
    BY <1>2, <1>4, <2>1 DEF IInv, AccountInv, MembersDone
<1>10. TargetsResolve(account.lists)'
  BY <1>2 DEF IInv, AccountInv
<1>11. QED
  BY <1>2, <1>5, <1>6, <1>7, <1>8, <1>9, <1>10 DEF AccountInv

LEMMA AdditionKeeps ==
    ASSUME IInv, Perform, NEW slug \in Slugs, NEW repo \in Repos,
           plan.ops[next] = MembershipOp(slug, repo)
    PROVE  AccountInv'
<1> DEFINE op == plan.ops[next]
           sent == RequestedUnion(op, account)
<1>1. /\ account \in AccountState
      /\ op.kind = "add-membership" /\ op.slug = slug /\ op.repo = repo
  BY OperationsTellApart DEF IInv, AccountInv
<1>2. account' = [account EXCEPT !.lists = [l \in ListIds |->
          IF l \notin Live(account.lists) THEN account.lists[l]
          ELSE IF l \in sent
          THEN [account.lists[l] EXCEPT !.members = @ \cup {repo}]
          ELSE [account.lists[l] EXCEPT !.members = @ \ {repo}]]]
  BY <1>1 DEF Perform, After
<1>3. sent = MembershipsOf(repo, account.lists) \cup Named(account.lists, slug)
  BY <1>1 DEF RequestedUnion
<1> HIDE DEF sent
<1>4. /\ account' \in AccountState
      /\ account'.starred = account.starred
      /\ \A l \in ListIds :
            /\ account'.lists[l].status = account.lists[l].status
            /\ account'.lists[l].name = account.lists[l].name
            /\ account'.lists[l].conforming = account.lists[l].conforming
  <2> DEFINE table == [l \in ListIds |->
          IF l \notin Live(account.lists) THEN account.lists[l]
          ELSE IF l \in sent
          THEN [account.lists[l] EXCEPT !.members = @ \cup {repo}]
          ELSE [account.lists[l] EXCEPT !.members = @ \ {repo}]]
  <2>1. account.starred \in SUBSET Repos /\ account.lists \in [ListIds -> ListState]
    BY <1>1 DEF AccountState, ListTable
  <2>2. ASSUME NEW l \in ListIds
        PROVE  /\ table[l] \in ListState
               /\ table[l].status = account.lists[l].status
               /\ table[l].name = account.lists[l].name
               /\ table[l].conforming = account.lists[l].conforming
    <3>1. PICK list \in ListState : list = account.lists[l]
      BY <2>1
    <3>2. table[l] \in {list, [list EXCEPT !.members = @ \cup {repo}],
                       [list EXCEPT !.members = @ \ {repo}]}
      BY <3>1
    <3> HIDE DEF table
    <3>3. QED
      BY <3>1, <3>2 DEF ListState
  <2>3. table \in ListTable
    <3>1. table \in [ListIds -> ListState]
      BY <2>2
    <3>2. QED
      BY <3>1 DEF ListTable
  <2>4. account' = [account EXCEPT !.lists = table]
    BY <1>2
  <2> HIDE DEF table
  <2>5. account' = [starred |-> account.starred, lists |-> table]
    BY <1>1, <2>4 DEF AccountState
  <2>6. QED
    BY <2>1, <2>2, <2>3, <2>5 DEF AccountState
<1>5. /\ Live(account'.lists) = Live(account.lists)
      /\ \A name \in Slugs : Named(account'.lists, name) = Named(account.lists, name)
  BY <1>4 DEF Live, Named
\* The Lists the request leaves out are ones the repository is in no way in.
<1>6. \A l \in Live(account.lists) :
          account'.lists[l].members =
              account.lists[l].members
              \cup (IF account.lists[l].name = slug THEN {repo} ELSE {})
  <2>1. TAKE l \in Live(account.lists)
  <2>2. l \in ListIds /\ account.lists[l] \in ListState
    BY <1>1 DEF Live, AccountState, ListTable
  <2>3. CASE l \in sent
    <3>1. account'.lists[l].members = account.lists[l].members \cup {repo}
      BY <1>1, <1>2, <2>2, <2>3 DEF AccountState, ListTable, ListState
    <3>2. repo \in account.lists[l].members \/ account.lists[l].name = slug
      BY <1>3, <2>3 DEF MembershipsOf, Named
    <3>3. QED
      BY <3>1, <3>2
  <2>4. CASE l \notin sent
    <3>1. account'.lists[l].members = account.lists[l].members \ {repo}
      BY <1>1, <1>2, <2>2, <2>4 DEF AccountState, ListTable, ListState
    <3>2. repo \notin account.lists[l].members /\ account.lists[l].name # slug
      BY <1>3, <2>4 DEF MembershipsOf, Named
    <3>3. QED
      BY <3>1, <3>2
  <2>5. QED
    BY <2>3, <2>4
<1>7. /\ plan' = plan /\ next' = next + 1 /\ next \in 1 .. Len(plan.ops)
      /\ Finished' = Finished \cup {MembershipOp(slug, repo)}
  BY OneMoreDone
<1>8. \A name \in Slugs, r \in Repos :
          /\ CreateOp(name) \in Finished' <=> CreateOp(name) \in Finished
          /\ StarOp(r) \in Finished' <=> StarOp(r) \in Finished
          /\ MembershipOp(name, r) \in Finished'
                <=> MembershipOp(name, r) \in Finished \/ (name = slug /\ r = repo)
  BY <1>7, OperationsTellApart
<1>9. next' \in 1 .. Len(plan'.ops) + 1
  BY <1>7, PlanFacts DEF IInv
<1>10. StarsDone'
  BY <1>4, <1>7, <1>8 DEF IInv, AccountInv, StarsDone
<1>11. BaselineListsKept(plan, account)'
  <2>1. Live(account.lists) \subseteq ListIds
    BY DEF Live
  <2>2. QED
    BY <1>4, <1>5, <1>7, <2>1 DEF IInv, AccountInv, BaselineListsKept
<1>12. ListsDone'
  <2>1. Live(account.lists) \subseteq ListIds
    BY DEF Live
  <2>2. QED
    BY <1>4, <1>5, <1>7, <1>8, <2>1 DEF IInv, AccountInv, ListsDone
<1>13. MembersDone'
  <2>1. SUFFICES ASSUME NEW l \in Live(account.lists)
                 PROVE  account'.lists[l].members =
                            BaselineMembers(plan, l)
                            \cup {r \in Repos :
                                    /\ account'.lists[l].name \in Slugs
                                    /\ MembershipOp(account'.lists[l].name, r) \in Finished'}
    BY <1>5, <1>7 DEF MembersDone, BaselineMembers
  <2>2. account'.lists[l].name = account.lists[l].name
    BY <1>4 DEF Live
  <2>3. account.lists[l].members =
            BaselineMembers(plan, l)
            \cup {r \in Repos : /\ account.lists[l].name \in Slugs
                                /\ MembershipOp(account.lists[l].name, r) \in Finished}
    BY DEF IInv, AccountInv, MembersDone
  <2>4. QED
    BY <1>6, <1>8, <2>2, <2>3
<1>14. TargetsResolve(account.lists)'
  <2>1. SUFFICES ASSUME NEW name \in Slugs, NEW l \in Named(account.lists, name),
                        NEW m \in Named(account.lists, name)
                 PROVE  l = m /\ account'.lists[l].conforming
    BY <1>5 DEF TargetsResolve
  <2>2. l = m /\ account.lists[l].conforming
    BY DEF IInv, AccountInv, TargetsResolve
  <2>3. l \in ListIds
    BY DEF Named, Live
  <2>4. QED
    BY <1>4, <2>2, <2>3
<1>15. QED
  BY <1>4, <1>9, <1>10, <1>11, <1>12, <1>13, <1>14 DEF AccountInv

LEMMA InvariantKept ==
    ASSUME IInv, [Next]_vars
    PROVE  IInv'
<1>1. CASE Perform
  <2>1. plan' = plan /\ next \in 1 .. Len(plan.ops) /\ plan.ops[next] \in Operation
    BY <1>1, OneMoreDone
  <2>2. PlanInv'
    BY <2>1 DEF IInv, PlanInv
  <2>3. AccountInv'
    BY <1>1, <2>1, OperationCases, CreateKeeps, StarKeeps, AdditionKeeps
  <2>4. QED
    BY <2>2, <2>3 DEF IInv
<1>2. CASE UNCHANGED vars
  <2>1. plan' = plan /\ account' = account /\ next' = next /\ Finished' = Finished
    BY <1>2 DEF vars, Finished
  <2>2. PlanInv'
    BY <2>1 DEF IInv, PlanInv
  <2>3. StarsDone' /\ ListsDone' /\ MembersDone'
    BY <2>1 DEF IInv, AccountInv, StarsDone, ListsDone, MembersDone, BaselineMembers
  <2>4. QED
    BY <2>1, <2>2, <2>3 DEF IInv, AccountInv, BaselineListsKept, TargetsResolve
<1>3. QED
  BY <1>1, <1>2 DEF Next

THEOREM InductiveInvariant == Spec => []IInv
<1>1. Init => IInv
  BY InvariantInitially
<1>2. IInv /\ [Next]_vars => IInv'
  BY InvariantKept
<1>3. QED
  BY <1>1, <1>2, PTL DEF Spec

\* Every plan the projection seals names exactly what is wanted and missing
\* (_projection_operations), and keeps doing so while it is performed.
THEOREM SealedWell == Spec => []PlanIsWellSealed
<1>1. IInv => PlanIsWellSealed
  BY DEF IInv, PlanInv, PlanIsWellSealed
<1>2. QED
  BY <1>1, InductiveInvariant, PTL

\* A session may stop after any operation of the sealed sequence: the account it
\* leaves is an allowed progress (assert_allowed_progress), and after the last
\* operation verify_postconditions finds nothing missing.
THEOREM LeadsThere == Spec => []PlanLeadsThere
<1>1. IInv => PlanLeadsThere
  BY LeadsThereByInvariant
<1>2. QED
  BY <1>1, InductiveInvariant, PTL

\* Every operation still changes something when its turn comes, and a membership
\* finds its repository starred and its List there.
THEOREM OperationsAreDue == Spec => []EveryOperationIsDue
<1>1. IInv => EveryOperationIsDue
  BY DueByInvariant
<1>2. QED
  BY <1>1, InductiveInvariant, PTL
=============================================================================
