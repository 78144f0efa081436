--------------------------- MODULE ListReadProofs ---------------------------
(***************************************************************************)
(* The read of an account, for every account, page size and interference.  *)
(*                                                                         *)
(* The first part is about connections: what a page holds, whatever a      *)
(* cursor means, and where the next one starts.  The second takes the      *)
(* steps of the read and of the owner apart.  Then come the invariants:    *)
(* BracketInv, that what was true all along is collected or still ahead;   *)
(* Snapshots, that up to one edit everything collected is of the account   *)
(* before it or of the one after it, and only one List could tell; and     *)
(* Quiet, that without an edit full pages follow one another.              *)
(***************************************************************************)
EXTENDS ListRead, DataInduction

-----------------------------------------------------------------------------
(* Connections.                                                            *)

\* The elements of a page come before those that are left.
LEMMA Segments ==
    ASSUME NEW S \in SUBSET Nat, IsFiniteSet(S), NEW n \in Nat,
           NEW x \in AtMost(S, n), NEW e \in S \ AtMost(S, n)
    PROVE  x < e
<1> SUFFICES ASSUME ~(x < e) PROVE FALSE
  OBVIOUS
<1> DEFINE low(m) == {y \in S : y <= m}
<1>1. /\ x \in S /\ x \in Nat /\ e \in Nat
      /\ Cardinality(low(x)) <= n /\ ~(Cardinality(low(e)) <= n)
  BY DEF AtMost
<1>2. low(e) \subseteq low(x) /\ low(x) \subseteq S
  <2>1. \A y \in Nat : y <= e => y <= x
    BY <1>1
  <2>2. QED
    BY <2>1
<1>3. Cardinality(low(e)) <= Cardinality(low(x))
      /\ Cardinality(low(e)) \in Nat /\ Cardinality(low(x)) \in Nat
  <2> HIDE DEF low
  <2>1. IsFiniteSet(low(x)) /\ IsFiniteSet(low(e))
    BY <1>2, FS_Subset
  <2>2. QED
    BY <1>2, <2>1, FS_Subset, FS_CardinalityType
<1> HIDE DEF low
<1>4. QED
  BY <1>1, <1>3

\* The smallest elements of a set are found again by their number.
LEMMA SegmentFound ==
    ASSUME NEW S \in SUBSET Nat, IsFiniteSet(S), NEW T \in SUBSET S,
           \A t \in T, e \in S \ T : t < e
    PROVE  AtMost(S, Cardinality(T)) = T
<1> DEFINE low(m) == {y \in S : y <= m}
<1>1. IsFiniteSet(T) /\ Cardinality(T) \in Nat
  BY FS_Subset, FS_CardinalityType
<1>2. \A m \in S : IsFiniteSet(low(m)) /\ Cardinality(low(m)) \in Nat
  <2> TAKE m \in S
  <2>1. low(m) \in SUBSET S
    OBVIOUS
  <2> HIDE DEF low
  <2>2. QED
    BY <2>1, FS_Subset, FS_CardinalityType
<1>3. ASSUME NEW t \in T PROVE Cardinality(low(t)) <= Cardinality(T)
  <2>1. low(t) \subseteq T
    <3>1. ASSUME NEW y \in S, y <= t, y \notin T PROVE FALSE
      <4>1. t < y /\ y \in Nat /\ t \in Nat
        BY <3>1
      <4>2. QED
        BY <3>1, <4>1
    <3>2. QED
      BY <3>1
  <2> HIDE DEF low
  <2>2. QED
    BY <1>1, <2>1, FS_Subset
<1>4. ASSUME NEW e \in S \ T PROVE ~(Cardinality(low(e)) <= Cardinality(T))
  <2>1. T \cup {e} \subseteq low(e)
    OBVIOUS
  <2>2. IsFiniteSet(T \cup {e}) /\ Cardinality(T \cup {e}) = Cardinality(T) + 1
    BY <1>1, <1>4, FS_AddElement
  <2> HIDE DEF low
  <2>3. Cardinality(T \cup {e}) <= Cardinality(low(e))
    BY <1>2, <2>1, FS_Subset
  <2>4. QED
    BY <1>1, <1>2, <2>2, <2>3
<1>5. QED
  BY <1>3, <1>4 DEF AtMost

\* There are as many of them as were asked for, or it is all of the set.
LEMMA SegmentCounts ==
    ASSUME NEW S \in SUBSET Nat, IsFiniteSet(S), NEW n \in Nat
    PROVE  /\ Cardinality(AtMost(S, n)) <= n
           /\ AtMost(S, n) # S => Cardinality(AtMost(S, n)) = n
<1> PICK T : T = AtMost(S, n)
  OBVIOUS
<1> DEFINE low(m) == {y \in S : y <= m}
<1>1. T \in SUBSET S /\ T \in SUBSET Nat
  BY DEF AtMost
<1>2. IsFiniteSet(T) /\ Cardinality(T) \in Nat
  BY <1>1, FS_Subset, FS_CardinalityType
<1>3. \A m \in S : /\ IsFiniteSet(low(m)) /\ Cardinality(low(m)) \in Nat
                   /\ m \in T <=> Cardinality(low(m)) <= n
  <2> TAKE m \in S
  <2>1. low(m) \in SUBSET S
    OBVIOUS
  <2>2. m \in T <=> Cardinality(low(m)) <= n
    BY DEF AtMost
  <2> HIDE DEF low
  <2>3. QED
    BY <2>1, <2>2, FS_Subset, FS_CardinalityType
<1>4. Cardinality(T) <= n
  <2>1. CASE T = {}
    BY <2>1, FS_EmptySet
  <2>2. CASE T # {}
    <3>1. PICK m \in T : \A y \in T : y <= m
      BY <1>1, <1>2, <2>2, MaxOfFinite
    <3>2. T \subseteq low(m) /\ m \in S
      BY <1>1, <3>1
    <3> HIDE DEF low
    <3>3. Cardinality(T) <= Cardinality(low(m))
      BY <1>3, <3>2, FS_Subset
    <3>4. QED
      BY <1>2, <1>3, <3>1, <3>2, <3>3
  <2>3. QED
    BY <2>1, <2>2
<1>5. ASSUME T # S PROVE Cardinality(T) >= n
  <2>1. PICK e \in S \ T : \A y \in S \ T : e <= y
    <3>1. S \ T \in SUBSET Nat /\ S \ T # {}
      BY <1>1, <1>5
    <3>2. QED
      BY <3>1, SmallestExists
  <2>2. low(e) \subseteq T \cup {e}
    <3>1. ASSUME NEW y \in S, y <= e, y \notin T PROVE y = e
      <4>1. e <= y /\ y \in Nat /\ e \in Nat
        BY <2>1, <3>1
      <4>2. QED
        BY <3>1, <4>1
    <3>2. QED
      BY <3>1
  <2>3. IsFiniteSet(T \cup {e}) /\ Cardinality(T \cup {e}) = Cardinality(T) + 1
    BY <1>2, <2>1, FS_AddElement
  <2> HIDE DEF low
  <2>4. Cardinality(low(e)) <= Cardinality(T) + 1
    BY <2>2, <2>3, FS_Subset
  <2>5. ~(Cardinality(low(e)) <= n)
    BY <1>3, <2>1
  <2>6. QED
    BY <1>2, <1>3, <2>1, <2>4, <2>5
<1>6. QED
  BY <1>2, <1>4, <1>5

\* A page holds elements after the cursor, as many as asked for or all; where a
\* cursor names an element, what the page leaves is after the new cursor.
LEMMA ConnectionMeans ==
    ASSUME NEW S \in SUBSET (Nat \ {0}), IsFiniteSet(S),
           NEW cursor \in Nat, NEW size \in Nat,
           NEW answer, answer = Connection(S, cursor, size)
    PROVE  /\ answer.nodes \subseteq S /\ IsFiniteSet(answer.nodes)
           /\ answer.nodes \subseteq After(S, cursor)
           /\ answer.more <=> answer.nodes # After(S, cursor)
           /\ Cardinality(answer.nodes) <= size
           /\ answer.total = Cardinality(S) /\ answer.total \in Nat
           /\ answer.more \in BOOLEAN /\ answer.cursor \in Nat
           /\ cursors = "key" => \A e \in S : e > cursor =>
                 e \in answer.nodes \/ (answer.more /\ e > answer.cursor)
<1> PICK rest : rest = After(S, cursor)
  OBVIOUS
<1> PICK nodes : nodes = AtMost(rest, size)
  OBVIOUS
<1>1. rest \subseteq S /\ nodes \subseteq rest
  BY DEF After, AtMost
<1>2. /\ IsFiniteSet(S \ rest) /\ IsFiniteSet(nodes) /\ IsFiniteSet(rest)
      /\ Cardinality(S) \in Nat /\ Cardinality(S \ rest) \in Nat
      /\ Cardinality(nodes) \in Nat
  <2>1. IsFiniteSet(S \ rest) /\ IsFiniteSet(nodes) /\ IsFiniteSet(rest)
    BY <1>1, FS_Subset
  <2>2. QED
    BY <2>1, FS_CardinalityType
<1>3. /\ answer.nodes = nodes /\ answer.total = Cardinality(S)
      /\ answer.more = (nodes # rest)
      /\ answer.cursor = IF cursors = "key" THEN Max(nodes \cup {0})
                         ELSE Cardinality(S \ rest) + Cardinality(nodes)
  BY DEF Connection
<1>4. /\ Max(nodes \cup {0}) \in nodes \cup {0}
      /\ Max(nodes \cup {0}) \in Nat
  <2>1. IsFiniteSet(nodes \cup {0})
    BY <1>2, FS_AddElement
  <2>2. nodes \cup {0} \in SUBSET Nat
    <3>1. nodes \subseteq Nat
      BY <1>1, Zenon
    <3>2. \A y \in nodes \cup {0} : y \in Nat
      BY <3>1
    <3>3. QED
      BY <3>2, Zenon
  <2>3. QED
    BY <2>1, <2>2, MaxOfFinite
<1>5. answer.cursor \in Nat
  BY <1>2, <1>3, <1>4
<1>6. ASSUME cursors = "key", NEW e \in S, e > cursor, e \notin nodes
      PROVE  answer.more /\ e > answer.cursor
  <2>1. e \in rest
    BY <1>6 DEF After
  <2>2. answer.more /\ answer.cursor = Max(nodes \cup {0})
    BY <1>3, <1>6, <2>1
  <2>3. CASE answer.cursor = 0
    BY <2>2, <2>3
  <2>4. CASE answer.cursor \in nodes
    <3>1. answer.cursor < e
      BY <1>1, <1>2, <1>6, <2>1, <2>4, Segments
    <3>2. QED
      BY <1>5, <2>2, <3>1
  <2>5. QED
    BY <1>4, <2>2, <2>3, <2>4
<1>7. Cardinality(nodes) <= size
  <2>1. rest \in SUBSET Nat
    BY <1>1
  <2>2. QED
    BY <1>2, <2>1, SegmentCounts
<1>8. QED
  BY <1>1, <1>2, <1>3, <1>5, <1>6, <1>7

\* The next request starts where the page ends.
LEMMA NextPage ==
    ASSUME NEW S \in SUBSET (Nat \ {0}), IsFiniteSet(S),
           NEW cursor \in Nat, NEW size \in Nat \ {0},
           NEW answer, answer = Connection(S, cursor, size), answer.more
    PROVE  /\ After(S, answer.cursor) = After(S, cursor) \ answer.nodes
           /\ Cardinality(answer.nodes) = size
<1> PICK rest : rest = After(S, cursor)
  OBVIOUS
<1> PICK nodes : nodes = AtMost(rest, size)
  OBVIOUS
<1>1. rest \subseteq S /\ nodes \subseteq rest /\ S \in SUBSET Nat
  BY DEF After, AtMost
<1>2. /\ IsFiniteSet(S \ rest) /\ IsFiniteSet(nodes) /\ IsFiniteSet(rest)
      /\ Cardinality(S \ rest) \in Nat /\ Cardinality(nodes) \in Nat
  <2>1. IsFiniteSet(S \ rest) /\ IsFiniteSet(nodes) /\ IsFiniteSet(rest)
    BY <1>1, FS_Subset
  <2>2. QED
    BY <2>1, FS_CardinalityType
<1>3. /\ answer.nodes = nodes /\ nodes # rest
      /\ answer.cursor = IF cursors = "key" THEN Max(nodes \cup {0})
                         ELSE Cardinality(S \ rest) + Cardinality(nodes)
  BY DEF Connection
<1>4. Cardinality(nodes) = size
  BY <1>1, <1>2, <1>3, SegmentCounts
<1>5. \A t \in nodes, e \in rest \ nodes : t < e
  BY <1>1, <1>2, Segments
<1>6. CASE cursors = "key"
  <2>1. /\ Max(nodes \cup {0}) \in nodes \cup {0}
        /\ \A y \in nodes \cup {0} : y <= Max(nodes \cup {0})
    <3>1. IsFiniteSet(nodes \cup {0})
      BY <1>2, FS_AddElement
    <3>2. nodes \cup {0} \in SUBSET Nat
      <4>1. nodes \subseteq Nat
        BY <1>1, Zenon
      <4>2. \A y \in nodes \cup {0} : y \in Nat
        BY <4>1
      <4>3. QED
        BY <4>2, Zenon
    <3>3. QED
      BY <3>1, <3>2, MaxOfFinite
  <2>2. PICK top : top = Max(nodes \cup {0})
    OBVIOUS
  <2>3. nodes # {}
    BY <1>4, FS_EmptySet
  <2>4. top \in nodes /\ \A y \in nodes : y <= top
    <3>1. PICK y \in nodes : y \in Nat /\ y # 0
      BY <1>1, <2>3
    <3>2. QED
      BY <2>1, <2>2, <3>1
  <2>5. rest = {e \in S : e > cursor}
    BY <1>6 DEF After
  <2>6. \A e \in S : e > top <=> e \in rest \ nodes
    <3>1. TAKE e \in S
    <3>2. e \in Nat /\ top \in Nat /\ top > cursor
      BY <1>1, <2>4, <2>5
    <3>3. ASSUME e > top PROVE e \in rest /\ e \notin nodes
      BY <2>4, <2>5, <3>2, <3>3
    <3>4. ASSUME e \in rest \ nodes PROVE e > top
      BY <1>5, <2>4, <3>2, <3>4
    <3>5. QED
      BY <3>3, <3>4
  <2>7. After(S, answer.cursor) = {e \in S : e > top}
    BY <1>3, <1>6, <2>2 DEF After
  <2>8. After(S, answer.cursor) = rest \ nodes
    BY <1>1, <2>6, <2>7
  <2>9. QED
    BY <1>3, <1>4, <2>8
<1>7. CASE cursors # "key"
  <2> PICK T : T = (S \ rest) \cup nodes
    OBVIOUS
  <2>1. S \ rest = AtMost(S, cursor)
    BY <1>7 DEF After, AtMost
  <2>2. \A t \in S \ rest, e \in rest : t < e
    BY <1>1, <2>1, Segments
  <2>3. \A t \in T, e \in S \ T : t < e
    BY <1>1, <1>5, <2>2
  <2>4. Cardinality(T) = Cardinality(S \ rest) + Cardinality(nodes)
    <3>1. (S \ rest) \cap nodes = {}
      BY <1>1
    <3>2. QED
      BY <1>2, <3>1, FS_Union, FS_EmptySet
  <2>5. AtMost(S, Cardinality(T)) = T
    <3>1. T \in SUBSET S
      BY <1>1
    <3>2. QED
      BY <1>1, <2>3, <3>1, SegmentFound
  <2>6. After(S, answer.cursor) = S \ T
    BY <1>3, <1>7, <2>4, <2>5 DEF After
  <2>7. S \ T = rest \ nodes
    BY <1>1
  <2>8. QED
    BY <1>3, <1>4, <2>6, <2>7
<1>8. QED
  BY <1>6, <1>7

-----------------------------------------------------------------------------
(* The owner.                                                              *)

\* What an account is made of.
LEMMA AccountParts ==
    ASSUME NEW a \in Account
    PROVE  /\ a.stars \in Seq(Repos)
           /\ DOMAIN a.lists \in SUBSET (Nat \ {0}) /\ DOMAIN a.lists \subseteq ListIds
           /\ IsFiniteSet(DOMAIN a.lists)
           /\ a.lists = [l \in DOMAIN a.lists |-> a.lists[l]]
           /\ a = [stars |-> a.stars, lists |-> a.lists]
           /\ \A l \in DOMAIN a.lists :
                 /\ a.lists[l] \in ListContents
                 /\ a.lists[l].name \in Names
                 /\ a.lists[l].items \subseteq Items
                 /\ a.lists[l].items \in SUBSET (Nat \ {0})
                 /\ IsFiniteSet(a.lists[l].items)
<1>1. /\ a.stars \in Seq(Repos)
      /\ a = [stars |-> a.stars, lists |-> a.lists]
      /\ a.lists \in UNION {[ids -> ListContents] : ids \in SUBSET ListIds}
  BY DEF Account
<1>2. PICK ids \in SUBSET ListIds : a.lists \in [ids -> ListContents]
  BY <1>1
<1>3. ids \in SUBSET (Nat \ {0}) /\ IsFiniteSet(ids)
  BY ReadAssumption, AccountsAssumption, FS_Subset DEF ReadAssumption, AccountsAssumption
<1>4. IsFiniteSet(Items) /\ Items \in SUBSET (Nat \ {0})
  <2>1. IsFiniteSet(Items)
    BY AccountsAssumption, FS_Union DEF AccountsAssumption, Items
  <2>2. QED
    BY <2>1, ReadAssumption DEF ReadAssumption, Items
<1>5. \A l \in ids : /\ a.lists[l] \in ListContents
                     /\ a.lists[l].name \in Names /\ a.lists[l].items \subseteq Items
  BY <1>2 DEF ListContents
<1>6. \A l \in ids : a.lists[l].items \in SUBSET (Nat \ {0}) /\ IsFiniteSet(a.lists[l].items)
  BY <1>4, <1>5, FS_Subset
<1>7. DOMAIN a.lists = ids /\ a.lists = [l \in ids |-> a.lists[l]]
  BY <1>2
<1>8. QED
  BY <1>1, <1>3, <1>5, <1>6, <1>7

\* All Lists but one are the same in both accounts.
InOneList(a, b) ==
    \E l \in ListIds \cup {0} : \A m \in ListIds \ {l} :
        /\ m \in DOMAIN a.lists <=> m \in DOMAIN b.lists
        /\ m \in DOMAIN a.lists => a.lists[m] = b.lists[m]

\* Two accounts apart by one edit: they have the same Lists, or all but one agree;
\* and where they differ in what they count, they differ in how many that are.
OneApart(a, b) ==
    /\ DOMAIN a.lists = DOMAIN b.lists \/ InOneList(a, b)
    /\ Cardinality(DOMAIN a.lists) = Cardinality(DOMAIN b.lists)
          => DOMAIN a.lists = DOMAIN b.lists
    /\ \A l \in DOMAIN a.lists \cap DOMAIN b.lists :
          Cardinality(a.lists[l].items) = Cardinality(b.lists[l].items)
              => a.lists[l].items = b.lists[l].items

\* Where the stars go: nowhere, to the next place, or one of them away.
StarsMove(a) ==
    \/ a.stars = account.stars
    \/ \E repo \in Repos : a.stars = <<repo>> \o account.stars
    \/ Range(account.stars) \ Range(a.stars) # {}

Edited(a) == a \in Account /\ StarsMove(a) /\ OneApart(account, a)

LEMMA AccountIs ==
    ASSUME NEW starred \in Seq(Repos), NEW ids \in SUBSET ListIds,
           NEW contents \in [ids -> ListContents],
           NEW a, a = [stars |-> starred, lists |-> contents]
    PROVE  a \in Account
BY DEF Account

LEMMA SameIsApart ==
    ASSUME NEW a, NEW b, a.lists = b.lists
    PROVE  OneApart(a, b)
BY DEF OneApart

\* An item put into a set or taken out of it leaves the set, or another number.
LEMMA OneMoreOrLess ==
    ASSUME NEW S, IsFiniteSet(S), NEW i, NEW T, T = S \cup {i} \/ T = S \ {i},
           Cardinality(T) = Cardinality(S)
    PROVE  T = S
<1>1. Cardinality(S) \in Nat
  BY FS_CardinalityType
<1>2. CASE i \in S /\ T = S \ {i}
  <2>1. Cardinality(S \ {i}) = Cardinality(S) - 1
    BY <1>2, FS_RemoveElement
  <2>2. QED
    BY <1>1, <1>2, <2>1
<1>3. CASE i \notin S /\ T = S \cup {i}
  <2>1. Cardinality(S \cup {i}) = Cardinality(S) + 1
    BY <1>3, FS_AddElement
  <2>2. QED
    BY <1>1, <1>3, <2>1
<1>4. QED
  BY <1>2, <1>3

LEMMA PlacedMeans ==
    ASSUME NEW ids, NEW contents \in [ids -> ListContents], NEW i \in Items, NEW into
    PROVE  /\ Placed(contents, i, into) \in [ids -> ListContents]
           /\ DOMAIN Placed(contents, i, into) = ids
           /\ \A l \in ids :
                 Placed(contents, i, into)[l].items = contents[l].items \cup {i}
                 \/ Placed(contents, i, into)[l].items = contents[l].items \ {i}
<1> PICK new : new = Placed(contents, i, into)
  OBVIOUS
<1>1. DOMAIN new = ids
      /\ new = [l \in ids |->
                   [contents[l] EXCEPT !.items = IF l \in into THEN @ \cup {i} ELSE @ \ {i}]]
  BY DEF Placed
<1>2. ASSUME NEW l \in ids
      PROVE  /\ new[l] \in ListContents
             /\ new[l].items = contents[l].items \cup {i}
                \/ new[l].items = contents[l].items \ {i}
  <2>1. /\ contents[l] \in ListContents /\ contents[l].items \subseteq Items
        /\ contents[l].items \cup {i} \subseteq Items
        /\ contents[l].items \ {i} \subseteq Items
    BY DEF ListContents
  <2>2. CASE l \in into
    <3>1. new[l] = [contents[l] EXCEPT !.items = contents[l].items \cup {i}]
      BY <1>1, <2>2
    <3>2. QED
      BY <2>1, <3>1 DEF ListContents
  <2>3. CASE l \notin into
    <3>1. new[l] = [contents[l] EXCEPT !.items = contents[l].items \ {i}]
      BY <1>1, <2>3
    <3>2. QED
      BY <2>1, <3>1 DEF ListContents
  <2>4. QED
    BY <2>2, <2>3
<1>3. new \in [ids -> ListContents]
  BY <1>1, <1>2
<1>4. QED
  BY <1>1, <1>2, <1>3

\* Whatever the owner does is one edit.
LEMMA OwnerEdits ==
    ASSUME account \in Account, Facts(account) \subseteq ever, OwnerActs
    PROVE  \E a : Commits(a) /\ Edited(a)
<1> PICK old : old = account
  OBVIOUS
<1>1. old \in Account
  OBVIOUS
<1>2. /\ old.stars \in Seq(Repos)
      /\ DOMAIN old.lists \subseteq ListIds /\ IsFiniteSet(DOMAIN old.lists)
      /\ old = [stars |-> old.stars, lists |-> old.lists]
      /\ old.lists = [l \in DOMAIN old.lists |-> old.lists[l]]
      /\ \A l \in DOMAIN old.lists :
            /\ old.lists[l] \in ListContents
            /\ old.lists[l].items \subseteq Items /\ IsFiniteSet(old.lists[l].items)
  BY <1>1, AccountParts
<1>3. /\ old.lists \in [DOMAIN old.lists -> ListContents]
      /\ DOMAIN old.lists \in SUBSET ListIds /\ old.stars \in Seq(Repos)
  BY <1>2
<1>4. CASE OwnerStars
  <2>1. PICK repo \in Repos : Commits([old EXCEPT !.stars = <<repo>> \o @])
    BY <1>4 DEF OwnerStars
  <2> PICK a : a = [old EXCEPT !.stars = <<repo>> \o @]
    OBVIOUS
  <2> PICK more : more = <<repo>> \o old.stars
    OBVIOUS
  <2>2. a = [stars |-> more, lists |-> old.lists] /\ more \in Seq(Repos)
    <3>1. <<repo>> \in Seq(Repos)
      OBVIOUS
    <3>2. more \in Seq(Repos)
      BY <1>3, <3>1
    <3>3. QED
      BY <1>2, <3>2
  <2>3. a.stars = <<repo>> \o old.stars /\ a.lists = old.lists
    BY <2>2
  <2>4. a \in Account
    BY <1>3, <2>2, AccountIs
  <2>5. StarsMove(a)
    BY <2>3 DEF StarsMove
  <2>6. QED
    BY <2>1, <2>3, <2>4, <2>5, SameIsApart DEF Edited
<1>5. CASE OwnerUnstars
  <2>1. PICK repo \in Range(old.stars) :
            Commits([old EXCEPT !.stars = Select(@, Repos \ {repo})])
    BY <1>5 DEF OwnerUnstars
  <2> PICK a : a = [old EXCEPT !.stars = Select(@, Repos \ {repo})]
    OBVIOUS
  <2> PICK kept : kept = Select(old.stars, Repos \ {repo})
    OBVIOUS
  <2>2. a = [stars |-> kept, lists |-> old.lists]
    BY <1>2
  <2>3. kept \in Seq(Repos) /\ Elements(kept) = Elements(old.stars) \cap (Repos \ {repo})
    BY <1>2, SelectProperties
  <2>4. a.stars = kept /\ a.lists = old.lists
    BY <2>2
  <2>5. a \in Account
    BY <1>3, <2>2, <2>3, AccountIs
  <2>6. StarsMove(a)
    <3>1. repo \notin Range(kept)
      <4>1. DOMAIN kept = 1 .. Len(kept)
        BY <2>3
      <4>2. QED
        BY <2>3, <4>1 DEF Range, Elements
    <3>2. QED
      BY <2>1, <2>4, <3>1 DEF StarsMove
  <2>7. QED
    BY <2>1, <2>4, <2>5, <2>6, SameIsApart DEF Edited
<1>6. CASE OwnerEditsItems
  <2>1. PICK i \in Items, into \in SUBSET DOMAIN old.lists :
            Commits([old EXCEPT !.lists = Placed(@, i, into)])
    BY <1>6 DEF OwnerEditsItems
  <2> PICK a : a = [old EXCEPT !.lists = Placed(@, i, into)]
    OBVIOUS
  <2> PICK new : new = Placed(old.lists, i, into)
    OBVIOUS
  <2>2. a = [stars |-> old.stars, lists |-> new]
    BY <1>2
  <2>3. /\ new \in [DOMAIN old.lists -> ListContents]
        /\ DOMAIN new = DOMAIN old.lists
        /\ \A l \in DOMAIN old.lists :
              new[l].items = old.lists[l].items \cup {i}
              \/ new[l].items = old.lists[l].items \ {i}
    BY <1>2, <2>1, PlacedMeans
  <2>4. ASSUME NEW l \in DOMAIN old.lists,
               Cardinality(new[l].items) = Cardinality(old.lists[l].items)
        PROVE  new[l].items = old.lists[l].items
    <3> PICK S : S = old.lists[l].items
      OBVIOUS
    <3> PICK T : T = new[l].items
      OBVIOUS
    <3>1. IsFiniteSet(S) /\ (T = S \cup {i} \/ T = S \ {i})
      BY <1>2, <2>3
    <3>2. Cardinality(T) = Cardinality(S)
      BY <2>4
    <3>3. T = S
      BY <3>1, <3>2, OneMoreOrLess
    <3>4. QED
      BY <3>3
  <2>5. a.stars = old.stars /\ a.lists = new
    BY <2>2
  <2>6. a \in Account
    BY <1>3, <2>2, <2>3, AccountIs
  <2>7. StarsMove(a)
    BY <2>5 DEF StarsMove
  <2>8. OneApart(old, a)
    BY <2>3, <2>4, <2>5 DEF OneApart
  <2>9. QED
    BY <2>1, <2>6, <2>7, <2>8 DEF Edited
<1>7. CASE OwnerRenames
  <2>1. PICK l \in DOMAIN old.lists, name \in Names :
            Commits([old EXCEPT !.lists[l].name = name])
    BY <1>7 DEF OwnerRenames
  <2> PICK a : a = [old EXCEPT !.lists[l].name = name]
    OBVIOUS
  <2> PICK new : new = [old.lists EXCEPT ![l] = [@ EXCEPT !.name = name]]
    OBVIOUS
  <2>2. a = [stars |-> old.stars, lists |-> new]
    BY <1>2
  <2>3. /\ new \in [DOMAIN old.lists -> ListContents]
        /\ DOMAIN new = DOMAIN old.lists
        /\ new[l].items = old.lists[l].items
        /\ \A m \in DOMAIN old.lists \ {l} : new[m] = old.lists[m]
    <3>1. [old.lists[l] EXCEPT !.name = name] \in ListContents
          /\ [old.lists[l] EXCEPT !.name = name].items = old.lists[l].items
      BY <1>2 DEF ListContents
    <3>2. QED
      BY <1>3, <3>1
  <2>4. a.stars = old.stars /\ a.lists = new
    BY <2>2
  <2>5. a \in Account
    BY <1>3, <2>2, <2>3, AccountIs
  <2>6. StarsMove(a)
    BY <2>4 DEF StarsMove
  <2>7. OneApart(old, a)
    <3>1. l \in ListIds \cup {0}
      BY <1>2
    <3>2. QED
      BY <2>3, <2>4, <3>1 DEF OneApart
  <2>8. QED
    BY <2>1, <2>5, <2>6, <2>7 DEF Edited
<1>8. CASE OwnerDeletes
  <2>1. PICK l \in DOMAIN old.lists :
            Commits([old EXCEPT !.lists = [m \in DOMAIN @ \ {l} |-> @[m]]])
    BY <1>8 DEF OwnerDeletes
  <2> PICK a : a = [old EXCEPT !.lists = [m \in DOMAIN @ \ {l} |-> @[m]]]
    OBVIOUS
  <2> PICK new : new = [m \in DOMAIN old.lists \ {l} |-> old.lists[m]]
    OBVIOUS
  <2>2. a = [stars |-> old.stars, lists |-> new]
    BY <1>2
  <2>3. /\ new \in [DOMAIN old.lists \ {l} -> ListContents]
        /\ DOMAIN new = DOMAIN old.lists \ {l}
        /\ \A m \in DOMAIN new : new[m] = old.lists[m]
    BY <1>2
  <2>4. a.stars = old.stars /\ a.lists = new
    BY <2>2
  <2>5. a \in Account
    <3> PICK ids : ids = DOMAIN old.lists \ {l}
      OBVIOUS
    <3>1. ids \in SUBSET ListIds
      BY <1>2
    <3>2. old.stars \in Seq(Repos) /\ new \in [ids -> ListContents]
      BY <1>3, <2>3
    <3>3. QED
      BY <2>2, <3>1, <3>2, AccountIs
  <2>6. StarsMove(a)
    BY <2>4 DEF StarsMove
  <2>7. OneApart(old, a)
    <3>1. l \in ListIds \cup {0}
      BY <1>2
    <3>2. Cardinality(DOMAIN new) # Cardinality(DOMAIN old.lists)
      <4> PICK ids : ids = DOMAIN old.lists
        OBVIOUS
      <4>1. IsFiniteSet(ids) /\ Cardinality(ids) \in Nat /\ l \in ids
        BY <1>2, FS_CardinalityType
      <4>2. Cardinality(ids \ {l}) = Cardinality(ids) - 1
        BY <4>1, FS_RemoveElement
      <4>3. QED
        BY <2>3, <4>1, <4>2
    <3>3. InOneList(old, a)
      BY <2>3, <2>4, <3>1 DEF InOneList
    <3>4. \A m \in DOMAIN old.lists \cap DOMAIN a.lists : a.lists[m] = old.lists[m]
      BY <2>3, <2>4
    <3>5. QED
      BY <2>4, <3>2, <3>3, <3>4 DEF OneApart
  <2>8. QED
    BY <2>1, <2>5, <2>6, <2>7 DEF Edited
<1>9. CASE OwnerCreates
  <2>1. PICK l \in ListIds, name \in Names :
            /\ \A known \in Names : <<"list", l, known>> \notin ever
            /\ Commits([old EXCEPT !.lists =
                   [m \in DOMAIN @ \cup {l} |->
                       IF m = l THEN [name |-> name, items |-> {}] ELSE @[m]]])
    BY <1>9 DEF OwnerCreates
  <2> PICK a : a = [old EXCEPT !.lists =
                   [m \in DOMAIN @ \cup {l} |->
                       IF m = l THEN [name |-> name, items |-> {}] ELSE @[m]]]
    OBVIOUS
  <2> PICK new : new = [m \in DOMAIN old.lists \cup {l} |->
                       IF m = l THEN [name |-> name, items |-> {}] ELSE old.lists[m]]
    OBVIOUS
  <2>2. a = [stars |-> old.stars, lists |-> new]
    BY <1>2
  <2>3. /\ new \in [DOMAIN old.lists \cup {l} -> ListContents]
        /\ DOMAIN new = DOMAIN old.lists \cup {l}
        /\ \A m \in DOMAIN old.lists \ {l} : new[m] = old.lists[m]
    <3>1. [name |-> name, items |-> {}] \in ListContents
      BY DEF ListContents
    <3>2. QED
      BY <1>2, <3>1
  <2>4. a.stars = old.stars /\ a.lists = new
    BY <2>2
  <2>5. a \in Account
    <3> PICK ids : ids = DOMAIN old.lists \cup {l}
      OBVIOUS
    <3>1. ids \in SUBSET ListIds
      BY <1>2
    <3>2. old.stars \in Seq(Repos) /\ new \in [ids -> ListContents]
      BY <1>3, <2>3
    <3>3. QED
      BY <2>2, <3>1, <3>2, AccountIs
  <2>6. StarsMove(a)
    BY <2>4 DEF StarsMove
  <2>7. l \notin DOMAIN old.lists
    <3>1. \A m \in DOMAIN old.lists : <<"list", m, old.lists[m].name>> \in ever
      BY DEF Facts
    <3>2. \A m \in DOMAIN old.lists : old.lists[m].name \in Names
      BY <1>2 DEF ListContents
    <3>3. QED
      BY <2>1, <3>1, <3>2
  <2>8. OneApart(old, a)
    <3>1. l \in ListIds \cup {0}
      OBVIOUS
    <3>2. Cardinality(DOMAIN new) # Cardinality(DOMAIN old.lists)
      <4> PICK ids : ids = DOMAIN old.lists
        OBVIOUS
      <4>1. IsFiniteSet(ids) /\ Cardinality(ids) \in Nat /\ l \notin ids
        BY <1>2, <2>7, FS_CardinalityType
      <4>2. Cardinality(ids \cup {l}) = Cardinality(ids) + 1
        BY <4>1, FS_AddElement
      <4>3. QED
        BY <2>3, <4>1, <4>2
    <3>3. \A m \in ListIds \ {l} : m \in DOMAIN old.lists <=> m \in DOMAIN new
      BY <2>3
    <3>4. \A m \in DOMAIN old.lists : new[m] = old.lists[m]
      BY <2>3, <2>7
    <3>5. InOneList(old, a)
      BY <2>3, <2>4, <3>1 DEF InOneList
    <3>6. QED
      BY <2>4, <3>2, <3>4, <3>5 DEF OneApart
  <2>9. QED
    BY <2>1, <2>5, <2>6, <2>8 DEF Edited
<1>10. QED
  BY <1>4, <1>5, <1>6, <1>7, <1>8, <1>9 DEF OwnerActs

-----------------------------------------------------------------------------
(* What is being parsed.                                                   *)

Raw == [id : ListIds, name : Names, total : Nat, members : SUBSET Repos,
        count : Nat, unknown : Nat, more : BOOLEAN, cursor : Nat, pages : Nat]

Page == [total : Nat, cursor : Nat, more : BOOLEAN, pages : Nat]

\* There is a List to parse as long as the queue holds one.
LEMMA InHandIs ==
    ASSUME queue \in SUBSET Raw, queue # {}
    PROVE  InHand \in queue
<1> DEFINE ids == {raw.id : raw \in queue}
<1>1. \A raw \in queue : raw.id \in Nat
  BY ReadAssumption DEF Raw, ReadAssumption
<1>2. ids \in SUBSET Nat /\ ids # {}
  BY <1>1
<1>3. PICK least \in ids : \A id \in ids : least <= id
  <2> HIDE DEF ids
  <2>1. QED
    BY <1>2, SmallestExists
<1>4. PICK raw \in queue : raw.id = least
  OBVIOUS
<1>5. \A other \in queue : raw.id <= other.id
  BY <1>3, <1>4
<1>6. QED
  BY <1>5 DEF InHand

\* After a page of its items a List holds what it got of them: all of it counted,
\* the repositories by name.  What it still asks for is the rest.
Got(raw, items, got) ==
    /\ raw.members = got \cap Repos
    /\ raw.unknown = Cardinality(got \cap Unknown)
    /\ raw.count = Cardinality(got)
    /\ raw.more <=> got # items
    /\ raw.more => After(items, raw.cursor) = items \ got

LEMMA ItemsAreFinite ==
    ASSUME NEW S \in SUBSET Items
    PROVE  /\ S \in SUBSET (Nat \ {0}) /\ IsFiniteSet(S) /\ Cardinality(S) \in Nat
           /\ IsFiniteSet(S \cap Unknown) /\ Cardinality(S \cap Unknown) \in Nat
<1>1. IsFiniteSet(Items)
  BY AccountsAssumption, FS_Union DEF AccountsAssumption, Items
<1>2. IsFiniteSet(S)
  BY <1>1, FS_Subset
<1>3. IsFiniteSet(S \cap Unknown)
  BY <1>2, FS_Subset
<1>4. S \in SUBSET (Nat \ {0})
  BY ReadAssumption DEF ReadAssumption, Items
<1>5. QED
  BY <1>2, <1>3, <1>4, FS_CardinalityType

LEMMA DisjointCounts ==
    ASSUME NEW S, NEW T, IsFiniteSet(S), IsFiniteSet(T), S \cap T = {}
    PROVE  Cardinality(S \cup T) = Cardinality(S) + Cardinality(T)
<1>1. Cardinality(S) \in Nat /\ Cardinality(T) \in Nat
  BY FS_CardinalityType
<1>a. Cardinality(S \cap T) = 0
  <2>1. S \cap T = {}
    OBVIOUS
  <2>2. QED
    BY <2>1, FS_EmptySet, Zenon
<1>2. Cardinality(S \cup T) = Cardinality(S) + Cardinality(T) - Cardinality(S \cap T)
  BY FS_Union
<1>3. QED
  BY <1>1, <1>a, <1>2

\* Without a cursor a connection starts from its beginning.
LEMMA AfterNothing ==
    ASSUME NEW S \in SUBSET (Nat \ {0}), IsFiniteSet(S)
    PROVE  After(S, 0) = S
<1>1. CASE cursors = "key"
  <2>1. \A e \in S : e > 0
    OBVIOUS
  <2>2. QED
    BY <1>1, <2>1 DEF After
<1>2. CASE cursors # "key"
  <2>1. IsFiniteSet(AtMost(S, 0)) /\ Cardinality(AtMost(S, 0)) <= 0
    <3>1. AtMost(S, 0) \in SUBSET S
      BY DEF AtMost
    <3>2. QED
      BY <3>1, SegmentCounts, FS_Subset
  <2>2. AtMost(S, 0) = {}
    BY <2>1, FS_EmptySet, FS_CardinalityType
  <2>3. QED
    BY <1>2, <2>2 DEF After
<1>3. QED
  BY <1>1, <1>2

\* A List as the outer query shows it.
LEMMA RawListMeans ==
    ASSUME account \in Account, NEW l \in DOMAIN account.lists,
           NEW items, items = account.lists[l].items,
           NEW raw, raw = RawList(l)
    PROVE  /\ raw \in Raw /\ raw.id = l /\ raw.name = account.lists[l].name
           /\ raw.members \subseteq items
           /\ raw.total = Cardinality(items) /\ raw.pages = 0
           /\ cursors = "key" => \A i \in items \cap Repos :
                 i \in raw.members \/ (raw.more /\ i > raw.cursor)
           /\ \E got \in SUBSET items : Got(raw, items, got)
           /\ raw.count <= ItemPage /\ (raw.more => raw.count = ItemPage)
<1>1. /\ l \in ListIds /\ account.lists[l].name \in Names
      /\ items \in SUBSET Items /\ items \in SUBSET (Nat \ {0}) /\ IsFiniteSet(items)
  BY AccountParts
<1>2. 0 \in Nat /\ ItemPage \in Nat /\ ItemPage \in Nat \ {0}
  BY ReadAssumption DEF ReadAssumption
<1> PICK answer : answer = Connection(items, 0, ItemPage)
  OBVIOUS
<1>3. /\ answer.nodes \subseteq items /\ IsFiniteSet(answer.nodes)
      /\ answer.total = Cardinality(items) /\ answer.total \in Nat
      /\ answer.more \in BOOLEAN /\ answer.cursor \in Nat
      /\ cursors = "key" => \A e \in items : e > 0 =>
            e \in answer.nodes \/ (answer.more /\ e > answer.cursor)
      /\ Cardinality(answer.nodes) <= ItemPage
      /\ answer.more <=> answer.nodes # items
  <2>1. After(items, 0) = items
    BY <1>1, AfterNothing
  <2>2. QED
    BY <1>1, <1>2, <2>1, ConnectionMeans
<1>4. raw = [id |-> l, name |-> account.lists[l].name, total |-> answer.total,
             members |-> answer.nodes \cap Repos,
             count   |-> Cardinality(answer.nodes),
             unknown |-> Cardinality(answer.nodes \cap Unknown),
             more |-> answer.more, cursor |-> answer.cursor, pages |-> 0]
  BY DEF RawList
<1>5. Cardinality(answer.nodes) \in Nat /\ Cardinality(answer.nodes \cap Unknown) \in Nat
  <2>1. answer.nodes \in SUBSET Items
    BY <1>1, <1>3
  <2>2. QED
    BY <2>1, ItemsAreFinite
<1>6. raw \in Raw
  BY <1>1, <1>3, <1>4, <1>5 DEF Raw
<1>7. /\ raw.id = l /\ raw.name = account.lists[l].name
      /\ raw.members = answer.nodes \cap Repos
      /\ raw.total = answer.total /\ raw.pages = 0
      /\ raw.count = Cardinality(answer.nodes)
      /\ raw.unknown = Cardinality(answer.nodes \cap Unknown)
      /\ raw.more = answer.more /\ raw.cursor = answer.cursor
  BY <1>4
<1>8. ASSUME answer.more
      PROVE  /\ After(items, answer.cursor) = items \ answer.nodes
             /\ Cardinality(answer.nodes) = ItemPage
  <2>1. /\ After(items, answer.cursor) = After(items, 0) \ answer.nodes
        /\ Cardinality(answer.nodes) = ItemPage
    BY <1>1, <1>2, <1>8, NextPage
  <2>2. After(items, 0) = items
    BY <1>1, AfterNothing
  <2>3. QED
    BY <2>1, <2>2
<1>9. Got(raw, items, answer.nodes)
  <2>1. raw.more <=> answer.nodes # items
    BY <1>3, <1>7
  <2>2. raw.more => After(items, raw.cursor) = items \ answer.nodes
    BY <1>3, <1>7, <1>8
  <2>3. QED
    BY <1>7, <2>1, <2>2 DEF Got
<1>10. ASSUME cursors = "key", NEW i \in items \cap Repos
       PROVE  i \in raw.members \/ (raw.more /\ i > raw.cursor)
  <2>1. i > 0
    BY <1>1
  <2>2. i \in answer.nodes \/ (answer.more /\ i > answer.cursor)
    BY <1>3, <1>10, <2>1
  <2>3. QED
    BY <1>7, <2>2
<1>11. QED
  BY <1>3, <1>6, <1>7, <1>8, <1>9, <1>10

\* What the answer to a further request makes of a List.
Follows(raw, items, answer, next) ==
    /\ next \in Raw /\ next.id = raw.id /\ next.name = raw.name
    /\ next.total = raw.total /\ next.pages = raw.pages + 1
    /\ next.members = raw.members \cup (answer.nodes \cap Repos)
    /\ answer.nodes \subseteq items
    /\ answer.total = Cardinality(items)
    /\ cursors = "key" => \A i \in items \cap Repos : i > raw.cursor =>
          i \in next.members \/ (next.more /\ i > next.cursor)
    /\ \A got \in SUBSET items :
          raw.more /\ Got(raw, items, got) => Got(next, items, got \cup answer.nodes)
    /\ next.count <= raw.count + ItemPage
    /\ next.more => next.count = raw.count + ItemPage

LEMMA FollowMeans ==
    ASSUME NEW raw \in Raw, NEW items \in SUBSET Items,
           NEW answer, answer = Connection(items, raw.cursor, ItemPage),
           NEW next, next = Follow(raw, answer)
    PROVE  Follows(raw, items, answer, next)
<1>1. items \in SUBSET (Nat \ {0}) /\ IsFiniteSet(items)
  BY ItemsAreFinite
<1>2. raw.cursor \in Nat /\ ItemPage \in Nat /\ ItemPage \in Nat \ {0}
  BY ReadAssumption DEF ReadAssumption, Raw
<1>3. /\ answer.nodes \subseteq items /\ IsFiniteSet(answer.nodes)
      /\ answer.total = Cardinality(items) /\ answer.total \in Nat
      /\ answer.more \in BOOLEAN /\ answer.cursor \in Nat
      /\ cursors = "key" => \A e \in items : e > raw.cursor =>
            e \in answer.nodes \/ (answer.more /\ e > answer.cursor)
      /\ Cardinality(answer.nodes) <= ItemPage
      /\ answer.nodes \subseteq After(items, raw.cursor)
      /\ answer.more <=> answer.nodes # After(items, raw.cursor)
  BY <1>1, <1>2, ConnectionMeans
<1>4. Cardinality(answer.nodes) \in Nat /\ Cardinality(answer.nodes \cap Unknown) \in Nat
  <2>1. answer.nodes \in SUBSET Items
    BY <1>3
  <2>2. QED
    BY <2>1, ItemsAreFinite
<1>a. next = [id |-> raw.id, name |-> raw.name, total |-> raw.total,
              members |-> raw.members \cup (answer.nodes \cap Repos),
              count |-> raw.count + Cardinality(answer.nodes),
              unknown |-> raw.unknown + Cardinality(answer.nodes \cap Unknown),
              more |-> answer.more, cursor |-> answer.cursor, pages |-> raw.pages + 1]
  BY DEF Follow, Raw
<1>b. /\ raw.members \cup (answer.nodes \cap Repos) \in SUBSET Repos
      /\ raw.count + Cardinality(answer.nodes) \in Nat
      /\ raw.unknown + Cardinality(answer.nodes \cap Unknown) \in Nat
      /\ raw.pages + 1 \in Nat
      /\ raw.id \in ListIds /\ raw.name \in Names /\ raw.total \in Nat
  BY <1>4 DEF Raw
<1>5. /\ next \in Raw
      /\ next.id = raw.id /\ next.name = raw.name /\ next.total = raw.total
      /\ next.members = raw.members \cup (answer.nodes \cap Repos)
      /\ next.count = raw.count + Cardinality(answer.nodes)
      /\ next.unknown = raw.unknown + Cardinality(answer.nodes \cap Unknown)
      /\ next.more = answer.more /\ next.cursor = answer.cursor
      /\ next.pages = raw.pages + 1
  BY <1>3, <1>a, <1>b DEF Raw
<1>6. ASSUME answer.more
      PROVE  /\ After(items, answer.cursor) = After(items, raw.cursor) \ answer.nodes
             /\ Cardinality(answer.nodes) = ItemPage
  BY <1>1, <1>2, <1>6, NextPage
<1>7. ASSUME NEW got \in SUBSET items, raw.more, Got(raw, items, got)
      PROVE  Got(next, items, got \cup answer.nodes)
  <2> PICK nodes : nodes = answer.nodes
    OBVIOUS
  <2>1. /\ raw.members = got \cap Repos
        /\ raw.unknown = Cardinality(got \cap Unknown)
        /\ raw.count = Cardinality(got)
        /\ After(items, raw.cursor) = items \ got
    BY <1>7 DEF Got
  <2>2. nodes \subseteq items \ got
    <3>1. nodes \subseteq After(items, raw.cursor)
      BY <1>3
    <3>2. QED
      BY <2>1, <3>1
  <2>3. /\ IsFiniteSet(got) /\ IsFiniteSet(nodes) /\ IsFiniteSet(got \cap Unknown)
        /\ IsFiniteSet(nodes \cap Unknown)
        /\ Cardinality(got) \in Nat /\ Cardinality(got \cap Unknown) \in Nat
    <3>1. got \in SUBSET Items /\ nodes \in SUBSET Items
      BY <1>3
    <3>2. QED
      BY <3>1, ItemsAreFinite
  <2>4. Cardinality(got \cup nodes) = Cardinality(got) + Cardinality(nodes)
    <3>1. got \cap nodes = {}
      BY <2>2
    <3>2. QED
      BY <2>3, <3>1, DisjointCounts
  <2>5. Cardinality((got \cup nodes) \cap Unknown)
            = Cardinality(got \cap Unknown) + Cardinality(nodes \cap Unknown)
    <3> PICK x : x = got \cap Unknown
      OBVIOUS
    <3> PICK y : y = nodes \cap Unknown
      OBVIOUS
    <3>1. x \cap y = {} /\ (got \cup nodes) \cap Unknown = x \cup y
      BY <2>2
    <3>2. IsFiniteSet(x) /\ IsFiniteSet(y) /\ Cardinality(x) \in Nat /\ Cardinality(y) \in Nat
      BY <1>4, <2>3
    <3>3. Cardinality(x \cup y) = Cardinality(x) + Cardinality(y)
      BY <3>1, <3>2, DisjointCounts
    <3>4. QED
      BY <3>1, <3>3
  <2>6. next.members = (got \cup nodes) \cap Repos
    BY <1>5, <2>1
  <2>7. next.more => After(items, next.cursor) = items \ (got \cup nodes)
    BY <1>5, <1>6, <2>1
  <2>8. next.more <=> got \cup nodes # items
    BY <1>3, <1>5, <2>1, <2>2
  <2>9. QED
    BY <1>5, <2>1, <2>4, <2>5, <2>6, <2>7, <2>8 DEF Got
<1>8. ASSUME cursors = "key", NEW i \in items \cap Repos, i > raw.cursor
      PROVE  i \in next.members \/ (next.more /\ i > next.cursor)
  BY <1>3, <1>5, <1>8
<1>9. /\ next.count <= raw.count + ItemPage
      /\ next.more => next.count = raw.count + ItemPage
  <2>1. raw.count \in Nat
    BY DEF Raw
  <2>2. QED
    BY <1>2, <1>3, <1>4, <1>5, <1>6, <2>1
<1>10. QED
  BY <1>3, <1>5, <1>7, <1>8, <1>9 DEF Follows

-----------------------------------------------------------------------------
(* The steps of the read, taken apart.                                     *)

ReaderTypes ==
    /\ account \in Account /\ first \in Account
    /\ starPage \in Nat /\ edits \in Nat
    /\ DOMAIN lists \subseteq ListIds /\ lists = [l \in DOMAIN lists |-> lists[l]]
    /\ page \in Page
    /\ queue \in SUBSET Raw

ReaderStages ==
    /\ stage \in {"off", "stars", "lists", "items", "metadata", "done", "refused"}
    /\ stage \in {"off", "stars"} => page.pages = 0
    /\ page.pages = 0 =>
          page.cursor = 0 /\ ~page.more /\ DOMAIN lists = {} /\ queue = {}
    /\ stage \in {"off", "stars", "lists", "metadata", "done"} => queue = {}
    /\ stage = "lists" => page.pages = 0 \/ page.more
    /\ stage \in {"items", "metadata", "done"} => page.pages > 0
    /\ stage \in {"metadata", "done"} =>
          ~page.more /\ page.total = Cardinality(DOMAIN lists)

PageRead(answer) ==
    /\ answer = Connection(DOMAIN account.lists, page.cursor, ListPage)
    /\ stage = "lists"
    /\ page.pages > 0 => answer.total = page.total
    /\ page' = [total |-> answer.total, cursor |-> answer.cursor,
                more |-> answer.more, pages |-> page.pages + 1]
    /\ queue' = {RawList(l) : l \in answer.nodes}
    /\ stage' = "items"
    /\ UNCHANGED <<owner, starPage, stars, lists, edits, faults>>

ItemsRead(raw, items, answer, next) ==
    /\ stage = "items" /\ raw \in queue /\ raw.more
    /\ raw.id \in DOMAIN account.lists
    /\ items = account.lists[raw.id].items
    /\ answer = Connection(items, raw.cursor, ItemPage)
    /\ next = Follow(raw, answer)
    /\ answer.total = next.total /\ ~PagesExhausted(next.pages)
    /\ queue' = (queue \ {raw}) \cup {next}
    /\ UNCHANGED <<owner, stage, starPage, stars, lists, page, edits, faults>>

ListAccepted(raw) ==
    /\ stage = "items" /\ raw \in queue /\ ~raw.more /\ raw.total = raw.count
    /\ lists' = [l \in DOMAIN lists \cup {raw.id} |->
                    IF l = raw.id THEN Parsed(raw) ELSE lists[l]]
    /\ queue' = queue \ {raw}
    /\ UNCHANGED <<owner, stage, starPage, stars, page, edits, faults>>

PageEnded ==
    /\ stage = "items" /\ queue = {}
    /\ \/ stage' = "lists" /\ page.more /\ ~PagesExhausted(page.pages)
       \/ stage' = "metadata" /\ ~page.more /\ page.total = Cardinality(DOMAIN lists)
    /\ UNCHANGED <<owner, starPage, stars, lists, page, queue, edits, faults>>

StarsRead(upto) ==
    /\ stage = "stars" /\ upto = (starPage + 1) * StarPage
    /\ stars' = stars \cup
           {account.stars[n] : n \in DOMAIN account.stars
                                     \cap (upto - StarPage + 1) .. upto}
    /\ stage' = IF Len(account.stars) > upto THEN "stars" ELSE "lists"
    /\ starPage' = starPage + 1
    /\ UNCHANGED <<owner, lists, page, queue, edits, faults>>

MetadataRead ==
    /\ stage = "metadata" /\ stage' = "done"
    /\ UNCHANGED <<owner, starPage, stars, lists, page, queue, edits, faults>>

\* Every reason there is to refuse.
ReadRefused ==
    /\ Refuse
    /\ \/ faults' = faults + 1
       \/ /\ stage = "lists" /\ page.pages > 0
          /\ page.total # Cardinality(DOMAIN account.lists)
       \/ /\ stage = "items"
          /\ \E raw \in queue :
                /\ raw.more
                /\ \/ raw.id \notin DOMAIN account.lists
                   \/ raw.total # Cardinality(account.lists[raw.id].items)
                   \/ PagesExhausted(raw.pages + 1)
       \/ /\ stage = "items"
          /\ \E raw \in queue :
                /\ ~raw.more
                /\ \/ raw.total # raw.count
                   \/ raw.id \in DOMAIN lists /\ lists[raw.id] # Parsed(raw)
       \/ stage = "items" /\ queue = {} /\ page.more /\ PagesExhausted(page.pages)
       \/ /\ stage = "items" /\ queue = {} /\ ~page.more
          /\ page.total # Cardinality(DOMAIN lists)
    /\ faults' \in {faults, faults + 1}

ReadSteps ==
    \/ \E upto : StarsRead(upto)
    \/ \E answer : PageRead(answer)
    \/ \E raw, items, answer, next : ItemsRead(raw, items, answer, next)
    \/ \E raw : ListAccepted(raw)
    \/ PageEnded
    \/ MetadataRead
    \/ ReadRefused
    \/ \E a : Commits(a) /\ Edited(a)

\* Every step of the model is one of these.
LEMMA NextSteps ==
    ASSUME ReaderTypes, Facts(account) \subseteq ever, ReadNext
    PROVE  ReadSteps
<1>1. CASE ReadStars
  <2>1. StarsRead((starPage + 1) * StarPage)
    BY <1>1 DEF ReadStars, StarsRead
  <2>2. QED
    BY <2>1 DEF ReadSteps
<1>2. CASE ReadListPage
  <2> PICK answer : answer = Connection(DOMAIN account.lists, page.cursor, ListPage)
    OBVIOUS
  <2>1. answer.total = Cardinality(DOMAIN account.lists)
    BY DEF Connection
  <2>2. \/ /\ Refuse /\ UNCHANGED faults
           /\ stage = "lists" /\ page.pages > 0 /\ answer.total # page.total
        \/ PageRead(answer)
    BY <1>2 DEF ReadListPage, PageRead
  <2>3. CASE PageRead(answer)
    BY <2>3 DEF ReadSteps
  <2>4. CASE ~PageRead(answer)
    <3>1. ReadRefused
      BY <2>1, <2>2, <2>4 DEF ReadRefused
    <3>2. QED
      BY <3>1 DEF ReadSteps
  <2>5. QED
    BY <2>3, <2>4
<1>3. CASE ReadItemPage
  <2> PICK raw : raw = InHand
    OBVIOUS
  <2> PICK items : items = account.lists[raw.id].items
    OBVIOUS
  <2> PICK answer : answer = Connection(items, raw.cursor, ItemPage)
    OBVIOUS
  <2> PICK next : next = Follow(raw, answer)
    OBVIOUS
  <2>1. stage = "items" /\ queue # {} /\ raw.more
    BY <1>3 DEF ReadItemPage
  <2>2. raw \in queue /\ raw \in Raw
    BY <2>1, InHandIs DEF ReaderTypes
  <2>3. /\ next.total = raw.total /\ next.pages = raw.pages + 1
        /\ answer.total = Cardinality(items)
    BY <2>2 DEF Follow, Raw, Connection
  <2>4. /\ UNCHANGED faults
        /\ \/ /\ Refuse
              /\ \/ raw.id \notin DOMAIN account.lists
                 \/ answer.total # next.total
                 \/ PagesExhausted(next.pages)
           \/ /\ raw.id \in DOMAIN account.lists
              /\ answer.total = next.total /\ ~PagesExhausted(next.pages)
              /\ queue' = (queue \ {raw}) \cup {next}
              /\ UNCHANGED <<owner, stage, starPage, stars, lists, page, edits>>
    BY <1>3 DEF ReadItemPage
  <2>5. CASE ItemsRead(raw, items, answer, next)
    BY <2>5 DEF ReadSteps
  <2>6. CASE ~ItemsRead(raw, items, answer, next)
    <3>1. /\ Refuse
          /\ \/ raw.id \notin DOMAIN account.lists
             \/ raw.total # Cardinality(account.lists[raw.id].items)
             \/ PagesExhausted(raw.pages + 1)
      BY <2>1, <2>2, <2>3, <2>4, <2>6 DEF ItemsRead
    <3>2. ReadRefused
      BY <2>1, <2>2, <2>4, <3>1 DEF ReadRefused
    <3>3. QED
      BY <3>2 DEF ReadSteps
  <2>7. QED
    BY <2>5, <2>6
<1>4. CASE AcceptList
  <2> PICK raw : raw = InHand
    OBVIOUS
  <2>1. stage = "items" /\ queue # {} /\ ~raw.more
    BY <1>4 DEF AcceptList
  <2>2. raw \in queue
    BY <2>1, InHandIs DEF ReaderTypes
  <2>3. \/ /\ Refuse /\ UNCHANGED faults
           /\ \/ raw.total # raw.count
              \/ raw.id \in DOMAIN lists /\ lists[raw.id] # Parsed(raw)
        \/ ListAccepted(raw)
    BY <1>4, <2>1, <2>2 DEF AcceptList, ListAccepted
  <2>4. CASE ListAccepted(raw)
    BY <2>4 DEF ReadSteps
  <2>5. CASE ~ListAccepted(raw)
    <3>1. ReadRefused
      BY <2>1, <2>2, <2>3, <2>5 DEF ReadRefused
    <3>2. QED
      BY <3>1 DEF ReadSteps
  <2>6. QED
    BY <2>4, <2>5
<1>5. CASE EndListPage
  <2>1. ReadRefused \/ PageEnded
    BY <1>5 DEF EndListPage, PageEnded, ReadRefused
  <2>2. QED
    BY <2>1 DEF ReadSteps
<1>6. CASE ReadMetadata
  BY <1>6 DEF ReadMetadata, MetadataRead, ReadSteps
<1>7. CASE RequestFails
  BY <1>7 DEF RequestFails, ReadRefused, ReadSteps
<1>8. CASE OwnerActs
  BY <1>8, OwnerEdits DEF ReaderTypes, ReadSteps
<1>9. QED
  BY <1>1, <1>2, <1>3, <1>4, <1>5, <1>6, <1>7, <1>8 DEF ReadNext

\* What a page of Lists and a page of items bring.
LEMMA PageBrings ==
    ASSUME ReaderTypes, NEW answer, PageRead(answer)
    PROVE  /\ answer.nodes \subseteq DOMAIN account.lists
           /\ answer.total = Cardinality(DOMAIN account.lists)
           /\ page' \in Page /\ queue' \in SUBSET Raw
           /\ page'.total = answer.total /\ page'.more = answer.more
           /\ page'.cursor = answer.cursor /\ page'.pages = page.pages + 1
           /\ page'.pages > 0
           /\ cursors = "key" => \A l \in DOMAIN account.lists : l > page.cursor =>
                 l \in answer.nodes \/ (page'.more /\ l > page'.cursor)
           /\ \A raw \in queue' : \E l \in DOMAIN account.lists : raw = RawList(l)
<1>1. /\ account \in Account /\ page.cursor \in Nat /\ page.pages \in Nat
      /\ ListPage \in Nat
  BY ReadAssumption DEF ReaderTypes, Page, ReadAssumption
<1>2. DOMAIN account.lists \in SUBSET (Nat \ {0}) /\ IsFiniteSet(DOMAIN account.lists)
  BY <1>1, AccountParts
<1>3. /\ answer.nodes \subseteq DOMAIN account.lists
      /\ answer.total = Cardinality(DOMAIN account.lists) /\ answer.total \in Nat
      /\ answer.more \in BOOLEAN /\ answer.cursor \in Nat
      /\ cursors = "key" => \A e \in DOMAIN account.lists : e > page.cursor =>
            e \in answer.nodes \/ (answer.more /\ e > answer.cursor)
  <2>1. answer = Connection(DOMAIN account.lists, page.cursor, ListPage)
    BY DEF PageRead
  <2>2. QED
    BY <1>1, <1>2, <2>1, ConnectionMeans
<1>4. /\ page' = [total |-> answer.total, cursor |-> answer.cursor,
                  more |-> answer.more, pages |-> page.pages + 1]
      /\ queue' = {RawList(l) : l \in answer.nodes}
  BY DEF PageRead
<1>5. /\ page' \in Page
      /\ page'.total = answer.total /\ page'.more = answer.more
      /\ page'.cursor = answer.cursor /\ page'.pages = page.pages + 1
      /\ page'.pages > 0
  BY <1>1, <1>3, <1>4 DEF Page
<1>6. \A raw \in queue' : \E l \in DOMAIN account.lists : raw = RawList(l)
  BY <1>3, <1>4
<1>7. \A raw \in queue' : raw \in Raw
  BY <1>1, <1>6, RawListMeans
<1>8. QED
  BY <1>3, <1>5, <1>6, <1>7

LEMMA ItemsBring ==
    ASSUME ReaderTypes, NEW raw, NEW items, NEW answer, NEW next,
           ItemsRead(raw, items, answer, next)
    PROVE  /\ raw \in Raw /\ items \in SUBSET Items /\ queue' \in SUBSET Raw
           /\ Follows(raw, items, answer, next)
<1>1. raw \in Raw /\ queue \in SUBSET Raw
  BY DEF ReaderTypes, ItemsRead
<1>2. items \in SUBSET Items
  BY AccountParts DEF ReaderTypes, ItemsRead
<1>3. answer = Connection(items, raw.cursor, ItemPage) /\ next = Follow(raw, answer)
  BY DEF ItemsRead
<1>4. Follows(raw, items, answer, next)
  BY <1>1, <1>2, <1>3, FollowMeans
<1>5. queue' = (queue \ {raw}) \cup {next} /\ next \in Raw
  BY <1>4 DEF ItemsRead, Follows
<1>6. QED
  BY <1>1, <1>2, <1>4, <1>5

LEMMA AcceptanceBrings ==
    ASSUME ReaderTypes, NEW raw, ListAccepted(raw)
    PROVE  /\ raw \in Raw
           /\ DOMAIN lists' = DOMAIN lists \cup {raw.id}
           /\ lists'[raw.id].name = raw.name
           /\ lists'[raw.id].members = raw.members
           /\ lists'[raw.id] = Parsed(raw)
           /\ \A l \in DOMAIN lists \ {raw.id} : lists'[l] = lists[l]
           /\ queue' \in SUBSET Raw
BY DEF ReaderTypes, ListAccepted, Parsed

-----------------------------------------------------------------------------

\* The types of the reader and what its stages mean are kept.
LEMMA TypesStep ==
    ASSUME ReaderTypes, ReaderStages, ReadSteps
    PROVE  ReaderTypes' /\ ReaderStages'
<1>1. CASE \E upto : StarsRead(upto)
  BY <1>1 DEF ReaderTypes, ReaderStages, StarsRead, owner
<1>2. CASE \E answer : PageRead(answer)
  <2>1. PICK answer : PageRead(answer)
    BY <1>2
  <2>2. /\ page' \in Page /\ queue' \in SUBSET Raw /\ page'.pages > 0
    BY <2>1, PageBrings
  <2>3. ReaderTypes'
    BY <2>1, <2>2 DEF ReaderTypes, PageRead, owner
  <2>4. page'.pages # 0
    BY <2>2
  <2>5. ReaderStages'
    BY <2>1, <2>2, <2>4 DEF ReaderStages, PageRead
  <2>6. QED
    BY <2>3, <2>5
<1>3. CASE \E raw, items, answer, next : ItemsRead(raw, items, answer, next)
  <2>1. PICK raw, items, answer, next : ItemsRead(raw, items, answer, next)
    BY <1>3
  <2>2. queue' \in SUBSET Raw
    BY <2>1, ItemsBring
  <2>3. ReaderTypes'
    BY <2>1, <2>2 DEF ReaderTypes, ItemsRead, owner
  <2>4. page.pages # 0
    BY <2>1 DEF ReaderStages, ItemsRead
  <2>5. ReaderStages'
    BY <2>1, <2>4 DEF ReaderStages, ItemsRead
  <2>6. QED
    BY <2>3, <2>5
<1>4. CASE \E raw : ListAccepted(raw)
  <2>1. PICK raw : ListAccepted(raw)
    BY <1>4
  <2>2. /\ raw \in Raw /\ queue' \in SUBSET Raw
        /\ DOMAIN lists' = DOMAIN lists \cup {raw.id}
    BY <2>1, AcceptanceBrings
  <2>3. raw.id \in ListIds
    BY <2>2 DEF Raw
  <2>4. ReaderTypes'
    BY <2>1, <2>2, <2>3 DEF ReaderTypes, ListAccepted, owner
  <2>5. page.pages # 0 /\ page.pages > 0
    BY <2>1 DEF ReaderStages, ListAccepted
  <2>6. ReaderStages'
    BY <2>1, <2>5 DEF ReaderStages, ListAccepted
  <2>7. QED
    BY <2>4, <2>6
<1>5. CASE PageEnded
  BY <1>5 DEF ReaderTypes, ReaderStages, PageEnded, owner
<1>6. CASE MetadataRead
  BY <1>6 DEF ReaderTypes, ReaderStages, MetadataRead, owner
<1>7. CASE ReadRefused
  BY <1>7 DEF ReaderTypes, ReaderStages, ReadRefused, Refuse, owner
<1>8. CASE \E a : Commits(a) /\ Edited(a)
  BY <1>8 DEF ReaderTypes, ReaderStages, Commits, Edited, reader
<1>9. QED
  BY <1>1, <1>2, <1>3, <1>4, <1>5, <1>6, <1>7, <1>8 DEF ReadSteps

-----------------------------------------------------------------------------
(* ReadIsBracketed.                                                        *)

\* What was collected was true at some instant,
OnceTrue ==
    /\ Facts(account) \subseteq ever
    /\ \A repo \in stars : <<"star", repo>> \in ever
    /\ \A l \in DOMAIN lists :
          /\ <<"list", l, lists[l].name>> \in ever
          /\ \A i \in lists[l].members : <<"item", l, i>> \in ever
    /\ \A raw \in queue :
          /\ <<"list", raw.id, raw.name>> \in ever
          /\ \A i \in raw.members : <<"item", raw.id, i>> \in ever

Standing(l) == \E f \in always : f[1] \in {"list", "item"} /\ f[2] = l

\* the outer connection is still to bring this List,
Ahead(l) == page.pages = 0 \/ (page.more /\ l > page.cursor)

KeptList(l) ==
    /\ \A n \in Names : <<"list", l, n>> \in always => lists[l].name = n
    /\ \A i \in Repos : <<"item", l, i>> \in always => i \in lists[l].members

KeptRaw(raw) ==
    /\ \A n \in Names : <<"list", raw.id, n>> \in always => raw.name = n
    /\ \A i \in Repos : <<"item", raw.id, i>> \in always =>
            i \in raw.members \/ (raw.more /\ i > raw.cursor)

\* and what was true all along is collected or still ahead of the cursor.
StillTrue ==
    /\ always \subseteq Facts(account)
    /\ cursors = "key" =>
        /\ \A l \in ListIds : Standing(l) =>
              \/ l \in DOMAIN lists
              \/ \E raw \in queue : raw.id = l
              \/ Ahead(l)
        /\ \A l \in DOMAIN lists : KeptList(l)
        /\ \A raw \in queue : KeptRaw(raw)

\* A star only moves to later pages, until one is taken back.
StarsKept ==
    (\A f \in ever : f[1] # "unstarred") =>
        \A repo \in Range(first.stars) :
            \/ repo \in stars
            \/ /\ stage \in {"off", "stars", "refused"}
               /\ \E n \in 1 .. Len(account.stars) :
                     n > starPage * StarPage /\ account.stars[n] = repo

BracketInv == ReaderTypes /\ ReaderStages /\ OnceTrue /\ StillTrue /\ StarsKept

-----------------------------------------------------------------------------

LEMMA FactsHold ==
    ASSUME NEW a
    PROVE  /\ \A n \in DOMAIN a.stars : <<"star", a.stars[n]>> \in Facts(a)
           /\ \A l \in DOMAIN a.lists : <<"list", l, a.lists[l].name>> \in Facts(a)
           /\ \A l \in DOMAIN a.lists : \A i \in a.lists[l].items \cap Repos :
                 <<"item", l, i>> \in Facts(a)
BY DEF Facts, StarFacts, Range

LEMMA FactsMean ==
    ASSUME NEW a, NEW f \in Facts(a)
    PROVE  \/ f[1] = "star" /\ \E repo \in Range(a.stars) : f = <<"star", repo>>
           \/ f[1] = "list" /\ f[2] \in DOMAIN a.lists
              /\ f = <<"list", f[2], a.lists[f[2]].name>>
           \/ f[1] = "item" /\ f[2] \in DOMAIN a.lists
              /\ \E i \in a.lists[f[2]].items \cap Repos : f = <<"item", f[2], i>>
BY DEF Facts, StarFacts

\* Only what an account shows is collected.
LEMMA OnceTrueStep ==
    ASSUME ReaderTypes, OnceTrue, ReadSteps
    PROVE  OnceTrue'
<1>0. /\ account \in Account
      /\ Facts(account) \subseteq ever
  BY DEF ReaderTypes, OnceTrue
<1>1. CASE \E upto : StarsRead(upto)
  <2>1. PICK upto : StarsRead(upto)
    BY <1>1
  <2>2. \A repo \in stars' : <<"star", repo>> \in ever
    <3>1. TAKE repo \in stars'
    <3>2. repo \in stars \/ \E n \in DOMAIN account.stars : repo = account.stars[n]
      BY <2>1 DEF StarsRead
    <3>3. QED
      BY <1>0, <3>2, FactsHold DEF OnceTrue
  <2>3. QED
    BY <2>1, <2>2 DEF StarsRead, OnceTrue, owner
<1>2. CASE \E answer : PageRead(answer)
  <2>1. PICK answer : PageRead(answer)
    BY <1>2
  <2>2. \A raw \in queue' : \E l \in DOMAIN account.lists : raw = RawList(l)
    BY <2>1, PageBrings
  <2>3. ASSUME NEW raw \in queue'
        PROVE  /\ <<"list", raw.id, raw.name>> \in ever
               /\ \A i \in raw.members : <<"item", raw.id, i>> \in ever
    <3>1. PICK l \in DOMAIN account.lists : raw = RawList(l)
      BY <2>2
    <3> PICK items : items = account.lists[l].items
      OBVIOUS
    <3>2. /\ raw \in Raw /\ raw.id = l /\ raw.name = account.lists[l].name
          /\ raw.members \subseteq items
      BY <1>0, <3>1, RawListMeans
    <3>3. raw.members \subseteq items \cap Repos
      BY <3>2 DEF Raw
    <3>4. QED
      BY <1>0, <3>2, <3>3, FactsHold
  <2>4. QED
    BY <2>1, <2>3 DEF PageRead, OnceTrue, owner
<1>3. CASE \E raw, items, answer, next : ItemsRead(raw, items, answer, next)
  <2>1. PICK raw, items, answer, next : ItemsRead(raw, items, answer, next)
    BY <1>3
  <2>2. Follows(raw, items, answer, next)
    BY <2>1, ItemsBring
  <2>3. /\ raw \in queue /\ raw.id \in DOMAIN account.lists
        /\ items = account.lists[raw.id].items
        /\ queue' = (queue \ {raw}) \cup {next}
        /\ UNCHANGED <<account, ever, stars, lists>>
    BY <2>1 DEF ItemsRead, owner
  <2>4. \A i \in next.members : <<"item", next.id, i>> \in ever
    <3>1. TAKE i \in next.members
    <3>2. i \in raw.members \/ i \in items \cap Repos
      BY <2>2 DEF Follows
    <3>3. next.id = raw.id
      BY <2>2 DEF Follows
    <3>4. QED
      BY <1>0, <2>3, <3>2, <3>3, FactsHold DEF OnceTrue
  <2>5. <<"list", next.id, next.name>> \in ever
    BY <2>2, <2>3 DEF OnceTrue, Follows
  <2>6. QED
    BY <2>3, <2>4, <2>5 DEF OnceTrue
<1>4. CASE \E raw : ListAccepted(raw)
  <2>1. PICK raw : ListAccepted(raw)
    BY <1>4
  <2>2. /\ DOMAIN lists' = DOMAIN lists \cup {raw.id}
        /\ lists'[raw.id].name = raw.name
        /\ lists'[raw.id].members = raw.members
        /\ \A l \in DOMAIN lists \ {raw.id} : lists'[l] = lists[l]
    BY <2>1, AcceptanceBrings
  <2>3. /\ raw \in queue /\ queue' \subseteq queue
        /\ UNCHANGED <<account, ever, stars>>
    BY <2>1 DEF ListAccepted, owner
  <2>4. \A l \in DOMAIN lists' :
          /\ <<"list", l, lists'[l].name>> \in ever
          /\ \A i \in lists'[l].members : <<"item", l, i>> \in ever
    BY <2>2, <2>3 DEF OnceTrue
  <2>5. QED
    BY <2>3, <2>4 DEF OnceTrue
<1>5. CASE PageEnded \/ MetadataRead \/ ReadRefused
  BY <1>5 DEF OnceTrue, PageEnded, MetadataRead, ReadRefused, Refuse, owner
<1>6. CASE \E a : Commits(a) /\ Edited(a)
  <2>1. PICK a : Commits(a)
    BY <1>6
  <2>2. /\ account' = a /\ ever \subseteq ever' /\ Facts(a) \subseteq ever'
        /\ UNCHANGED <<stars, lists, queue>>
    BY <2>1 DEF Commits, reader
  <2>3. QED
    BY <2>2 DEF OnceTrue
<1>7. QED
  BY <1>1, <1>2, <1>3, <1>4, <1>5, <1>6 DEF ReadSteps

\* What has been true all along is true now.
LEMMA StandingIsThere ==
    ASSUME always \subseteq Facts(account), NEW l, Standing(l)
    PROVE  l \in DOMAIN account.lists
<1>1. PICK f \in always : f[1] \in {"list", "item"} /\ f[2] = l
  BY DEF Standing
<1>2. f \in Facts(account)
  BY <1>1
<1>3. QED
  BY <1>1, <1>2, FactsMean

LEMMA AlwaysNames ==
    ASSUME always \subseteq Facts(account), NEW l, NEW n, <<"list", l, n>> \in always
    PROVE  l \in DOMAIN account.lists /\ account.lists[l].name = n
<1> PICK f : f = <<"list", l, n>>
  OBVIOUS
<1>1. f \in Facts(account) /\ f[1] = "list" /\ f[2] = l /\ f[3] = n
  OBVIOUS
<1>2. f[2] \in DOMAIN account.lists /\ f = <<"list", f[2], account.lists[f[2]].name>>
  BY <1>1, FactsMean
<1>3. QED
  BY <1>1, <1>2

LEMMA AlwaysItems ==
    ASSUME always \subseteq Facts(account), NEW l, NEW i, <<"item", l, i>> \in always
    PROVE  l \in DOMAIN account.lists /\ i \in account.lists[l].items \cap Repos
<1> PICK f : f = <<"item", l, i>>
  OBVIOUS
<1>1. f \in Facts(account) /\ f[1] = "item" /\ f[2] = l /\ f[3] = i
  OBVIOUS
<1>2. /\ f[2] \in DOMAIN account.lists
      /\ \E j \in account.lists[f[2]].items \cap Repos : f = <<"item", f[2], j>>
  BY <1>1, FactsMean
<1>3. QED
  BY <1>1, <1>2

\* What a request shows of what has been true all along.
KeptFrom(raw, l, items) ==
    /\ raw.id = l
    /\ raw.name = account.lists[l].name
    /\ \A i \in items \cap Repos : i \in raw.members \/ (raw.more /\ i > raw.cursor)

LEMMA RawKeeps ==
    ASSUME always \subseteq Facts(account), NEW raw, NEW l,
           KeptFrom(raw, l, account.lists[l].items)
    PROVE  KeptRaw(raw)
<1>1. ASSUME NEW n \in Names, <<"list", raw.id, n>> \in always
      PROVE  raw.name = n
  BY <1>1, AlwaysNames DEF KeptFrom
<1>2. ASSUME NEW i \in Repos, <<"item", raw.id, i>> \in always
      PROVE  i \in raw.members \/ (raw.more /\ i > raw.cursor)
  <2>1. i \in account.lists[raw.id].items \cap Repos
    BY <1>2, AlwaysItems
  <2>2. QED
    BY <2>1 DEF KeptFrom
<1>3. QED
  BY <1>1, <1>2 DEF KeptRaw

\* A page takes over what its cursor was short of; an edit takes away from what was
\* true all along.
LEMMA StillTrueStep ==
    ASSUME ReaderTypes, ReaderStages, StillTrue, ReadSteps
    PROVE  StillTrue'
<1>0. /\ account \in Account /\ always \subseteq Facts(account)
  BY DEF ReaderTypes, StillTrue
<1> DEFINE Everywhere == \A l \in ListIds : Standing(l) =>
              \/ l \in DOMAIN lists
              \/ \E raw \in queue : raw.id = l
              \/ Ahead(l)
<1>2. CASE \E answer : PageRead(answer)
  <2>1. PICK answer : PageRead(answer)
    BY <1>2
  <2>2. /\ answer.nodes \subseteq DOMAIN account.lists
        /\ cursors = "key" => \A l \in DOMAIN account.lists : l > page.cursor =>
              l \in answer.nodes \/ (page'.more /\ l > page'.cursor)
        /\ \A raw \in queue' : \E l \in DOMAIN account.lists : raw = RawList(l)
    BY <2>1, PageBrings
  <2>3. /\ stage = "lists" /\ queue' = {RawList(l) : l \in answer.nodes}
        /\ UNCHANGED <<account, always, cursors, lists>>
    BY <2>1 DEF PageRead, owner
  <2>4. ASSUME cursors = "key", NEW raw \in queue' PROVE KeptRaw(raw)
    <3>1. PICK l \in DOMAIN account.lists : raw = RawList(l)
      BY <2>2
    <3> PICK items : items = account.lists[l].items
      OBVIOUS
    <3>2. /\ raw.id = l /\ raw.name = account.lists[l].name
          /\ \A i \in items \cap Repos : i \in raw.members \/ (raw.more /\ i > raw.cursor)
      BY <1>0, <2>4, <3>1, RawListMeans
    <3>3. KeptFrom(raw, l, account.lists[l].items)
      BY <3>2 DEF KeptFrom
    <3>4. QED
      BY <1>0, <3>3, RawKeeps
  <2>5. ASSUME cursors = "key", NEW l \in ListIds, Standing(l)
        PROVE  \/ l \in DOMAIN lists
               \/ \E raw \in queue' : raw.id = l
               \/ page'.more /\ l > page'.cursor
    <3>1. l \in DOMAIN account.lists
      BY <1>0, <2>5, StandingIsThere
    <3>2. CASE l \in DOMAIN lists
      BY <3>2
    <3>3. CASE Ahead(l)
      <4>1. l > page.cursor
        <5>1. l \in Nat /\ l > 0
          BY ReadAssumption DEF ReadAssumption
        <5>2. page.pages = 0 => page.cursor = 0
          BY DEF ReaderStages
        <5>3. QED
          BY <3>3, <5>1, <5>2 DEF Ahead
      <4>2. l \in answer.nodes \/ (page'.more /\ l > page'.cursor)
        BY <2>2, <2>5, <3>1, <4>1
      <4>3. l \in answer.nodes => RawList(l) \in queue' /\ RawList(l).id = l
        BY <2>3 DEF RawList
      <4>4. QED
        BY <4>2, <4>3
    <3>4. queue = {}
      BY <2>3 DEF ReaderStages
    <3>5. QED
      BY <2>5, <3>2, <3>3, <3>4 DEF StillTrue
  <2>6. StillTrue'
    BY <1>0, <2>3, <2>4, <2>5 DEF StillTrue, Standing, Ahead, KeptList, KeptRaw
  <2>7. QED
    BY <2>6
<1>3. CASE \E raw, items, answer, next : ItemsRead(raw, items, answer, next)
  <2>1. PICK raw, items, answer, next : ItemsRead(raw, items, answer, next)
    BY <1>3
  <2>2. Follows(raw, items, answer, next)
    BY <2>1, ItemsBring
  <2>3. /\ raw \in queue /\ raw.id \in DOMAIN account.lists
        /\ items = account.lists[raw.id].items
        /\ queue' = (queue \ {raw}) \cup {next}
        /\ UNCHANGED <<account, always, cursors, lists, page>>
    BY <2>1 DEF ItemsRead, owner
  <2>4. next.id = raw.id /\ next.name = raw.name
    BY <2>2 DEF Follows
  <2>5. ASSUME cursors = "key" PROVE KeptRaw(next)
    <3>1. KeptRaw(raw)
      BY <2>3, <2>5 DEF StillTrue
    <3>2. ASSUME NEW i \in Repos, <<"item", next.id, i>> \in always
          PROVE  i \in next.members \/ (next.more /\ i > next.cursor)
      <4>1. i \in raw.members \/ i > raw.cursor
        BY <2>4, <3>1, <3>2 DEF KeptRaw
      <4>2. i \in items \cap Repos
        BY <1>0, <2>3, <2>4, <3>2, AlwaysItems
      <4>3. QED
        BY <2>2, <2>5, <4>1, <4>2 DEF Follows
    <3>3. QED
      BY <2>4, <3>1, <3>2 DEF KeptRaw
  <2>6. \A l : (\E other \in queue : other.id = l) => \E other \in queue' : other.id = l
    BY <2>3, <2>4
  <2>7. ASSUME cursors = "key" PROVE \A other \in queue' : KeptRaw(other)
    BY <2>3, <2>5, <2>7 DEF StillTrue
  <2>8. QED
    BY <1>0, <2>3, <2>6, <2>7 DEF StillTrue, Standing, Ahead, KeptList, KeptRaw
<1>4. CASE \E raw : ListAccepted(raw)
  <2>1. PICK raw : ListAccepted(raw)
    BY <1>4
  <2>2. /\ DOMAIN lists' = DOMAIN lists \cup {raw.id}
        /\ lists'[raw.id].name = raw.name
        /\ lists'[raw.id].members = raw.members
        /\ \A l \in DOMAIN lists \ {raw.id} : lists'[l] = lists[l]
    BY <2>1, AcceptanceBrings
  <2>3. /\ raw \in queue /\ queue' = queue \ {raw} /\ ~raw.more
        /\ UNCHANGED <<account, always, cursors, page>>
    BY <2>1 DEF ListAccepted, owner
  <2>4. ASSUME cursors = "key", NEW l \in DOMAIN lists' PROVE KeptList(l)'
    <3>1. CASE l = raw.id
      <4>1. KeptRaw(raw)
        BY <2>3, <2>4 DEF StillTrue
      <4>2. QED
        BY <2>2, <2>3, <3>1, <4>1 DEF KeptRaw, KeptList
    <3>2. CASE l # raw.id
      <4>1. l \in DOMAIN lists /\ lists'[l] = lists[l]
        BY <2>2, <3>2
      <4>2. KeptList(l)
        BY <2>4, <4>1 DEF StillTrue
      <4>3. QED
        BY <2>3, <4>1, <4>2 DEF KeptList
    <3>3. QED
      BY <3>1, <3>2
  <2>5. \A l : l \in DOMAIN lists \/ (\E other \in queue : other.id = l)
            => l \in DOMAIN lists' \/ (\E other \in queue' : other.id = l)
    BY <2>2, <2>3
  <2>6. \A other \in queue' : other \in queue
    BY <2>3
  <2>7. QED
    BY <1>0, <2>3, <2>4, <2>5, <2>6 DEF StillTrue, Standing, Ahead, KeptRaw
<1>5. CASE (\E upto : StarsRead(upto)) \/ PageEnded \/ MetadataRead \/ ReadRefused
  <2>1. UNCHANGED <<account, always, cursors, page, lists, queue>>
    BY <1>5 DEF StarsRead, PageEnded, MetadataRead, ReadRefused, Refuse, owner
  <2>2. QED
    BY <2>1 DEF StillTrue, Standing, Ahead, KeptRaw, KeptList
<1>6. CASE \E a : Commits(a) /\ Edited(a)
  <2>1. PICK a : Commits(a)
    BY <1>6
  <2>2. /\ account' = a /\ always' = always \cap Facts(a)
        /\ UNCHANGED <<cursors, page, lists, queue>>
    BY <2>1 DEF Commits, reader
  <2>3. /\ always' \subseteq Facts(a) /\ always' \subseteq always
        /\ Facts(account)' = Facts(a)
    BY <2>2
  <2>4. \A l : Standing(l)' => Standing(l)
    BY <2>3 DEF Standing
  <2>5. \A raw : KeptRaw(raw) => KeptRaw(raw)'
    BY <2>3 DEF KeptRaw
  <2>6. \A l : KeptList(l) => KeptList(l)'
    BY <2>2, <2>3 DEF KeptList
  <2>7. \A l : Ahead(l)' = Ahead(l)
    BY <2>2 DEF Ahead
  <2>8. QED
    BY <2>2, <2>3, <2>4, <2>5, <2>6, <2>7 DEF StillTrue
<1>7. QED
  BY <1>2, <1>3, <1>4, <1>5, <1>6 DEF ReadSteps

\* A star of the first account is collected or on a later page.
LEMMA StarsKeptStep ==
    ASSUME ReaderTypes, ReaderStages, OnceTrue, StarsKept, ReadSteps
    PROVE  StarsKept'
<1>0. account.stars \in Seq(Repos) /\ starPage \in Nat /\ StarPage \in Nat \ {0}
  BY AccountParts, ReadAssumption DEF ReaderTypes, ReadAssumption
<1>1. CASE \E upto : StarsRead(upto)
  <2>1. PICK upto : StarsRead(upto)
    BY <1>1
  <2>2. /\ stage = "stars" /\ upto = (starPage + 1) * StarPage
        /\ stars' = stars \cup
               {account.stars[n] : n \in DOMAIN account.stars
                                         \cap (upto - StarPage + 1) .. upto}
        /\ stage' = IF Len(account.stars) > upto THEN "stars" ELSE "lists"
        /\ starPage' = starPage + 1
        /\ UNCHANGED <<account, first, ever>>
    BY <2>1 DEF StarsRead, owner
  <2>3. upto \in Nat /\ upto = starPage * StarPage + StarPage /\ starPage * StarPage \in Nat
    BY <1>0, <2>2
  <2> DEFINE before == starPage * StarPage
  <2> HIDE DEF before
  <2>4. upto \in Nat /\ before \in Nat /\ upto = before + StarPage
    BY <2>3 DEF before
  <2>5. ASSUME NEW repo \in Range(first.stars), \A f \in ever : f[1] # "unstarred",
               repo \notin stars'
        PROVE  /\ stage' = "stars"
               /\ \E n \in 1 .. Len(account.stars) : n > upto /\ account.stars[n] = repo
    <3>1. repo \notin stars
      BY <2>2, <2>5
    <3>2. PICK n \in 1 .. Len(account.stars) : n > before /\ account.stars[n] = repo
      BY <2>2, <2>5, <3>1 DEF StarsKept, before
    <3>3. n > upto
      <4>1. DOMAIN account.stars = 1 .. Len(account.stars) /\ Len(account.stars) \in Nat
        BY <1>0
      <4>2. n \in DOMAIN account.stars /\ n \in Nat
        BY <4>1
      <4>3. n \notin (upto - StarPage + 1) .. upto
        BY <2>2, <2>5, <3>2, <4>2
      <4>4. QED
        BY <1>0, <2>4, <3>2, <4>2, <4>3
    <3>4. Len(account.stars) > upto
      BY <1>0, <2>4, <3>2, <3>3
    <3>5. QED
      BY <2>2, <3>2, <3>3, <3>4
  <2>6. starPage' * StarPage = upto
    BY <2>2
  <2>7. QED
    BY <2>2, <2>5, <2>6 DEF StarsKept
<1>2. CASE \E answer : PageRead(answer)
  BY <1>2 DEF StarsKept, PageRead, owner
<1>3. CASE \E raw, items, answer, next : ItemsRead(raw, items, answer, next)
  BY <1>3 DEF StarsKept, ItemsRead, owner
<1>4. CASE \E raw : ListAccepted(raw)
  BY <1>4 DEF StarsKept, ListAccepted, owner
<1>5. CASE PageEnded \/ MetadataRead \/ ReadRefused
  BY <1>5 DEF StarsKept, PageEnded, MetadataRead, ReadRefused, Refuse, owner
<1>6. CASE \E a : Commits(a) /\ Edited(a)
  <2>1. PICK a : Commits(a) /\ Edited(a)
    BY <1>6
  <2>2. /\ account' = a
        /\ ever' = ever \cup Facts(a) \cup TakenBack(a)
        /\ UNCHANGED <<first, stage, stars, starPage>>
    BY <2>1 DEF Commits, reader
  <2>3. CASE Range(account.stars) \ Range(a.stars) # {}
    <3>1. PICK repo : repo \in Range(account.stars) \ Range(a.stars)
      BY <2>3
    <3>2. <<"unstarred", repo>> \in ever' /\ <<"unstarred", repo>>[1] = "unstarred"
      BY <2>2, <3>1 DEF TakenBack
    <3>3. QED
      BY <3>2 DEF StarsKept
  <2>4. CASE a.stars = account.stars
    BY <2>2, <2>4 DEF StarsKept
  <2>5. CASE \E repo \in Repos : a.stars = <<repo>> \o account.stars
    <3>1. PICK new \in Repos : a.stars = <<new>> \o account.stars
      BY <2>5
    <3>2. /\ Len(a.stars) = Len(account.stars) + 1 /\ Len(account.stars) \in Nat
          /\ \A n \in 1 .. Len(account.stars) : a.stars[n + 1] = account.stars[n]
      BY <1>0, <3>1
    <3>3. \A n \in 1 .. Len(account.stars) :
             n + 1 \in 1 .. Len(a.stars) /\ (n > starPage * StarPage => n + 1 > starPage * StarPage)
      <4>1. starPage * StarPage \in Nat
        BY <1>0
      <4>2. QED
        BY <3>2, <4>1
    <3>4. \A repo : (\E n \in 1 .. Len(account.stars) :
                        n > starPage * StarPage /\ account.stars[n] = repo)
                    => \E n \in 1 .. Len(a.stars) :
                        n > starPage * StarPage /\ a.stars[n] = repo
      BY <3>2, <3>3
    <3>5. QED
      BY <2>2, <3>4 DEF StarsKept
  <2>6. QED
    BY <2>1, <2>3, <2>4, <2>5 DEF Edited, StarsMove
<1>7. QED
  BY <1>1, <1>2, <1>3, <1>4, <1>5, <1>6 DEF ReadSteps

LEMMA BracketInitially ==
    ASSUME ReadInit
    PROVE  BracketInv
<1>1. account \in Account
  BY AccountsAssumption DEF ReadInit, AccountsAssumption
<1>2. ReaderTypes
  BY <1>1 DEF ReadInit, ReaderTypes, Page
<1>3. ReaderStages
  BY DEF ReadInit, ReaderStages
<1>4. OnceTrue
  BY DEF ReadInit, OnceTrue
<1>5. StillTrue
  BY DEF ReadInit, StillTrue, Ahead
<1>6. StarsKept
  <2>1. account.stars \in Seq(Repos)
    BY <1>1, AccountParts
  <2>a. starPage * StarPage = 0
    <3>1. StarPage \in Nat /\ starPage = 0
      BY ReadAssumption DEF ReadAssumption, ReadInit
    <3>2. QED
      BY <3>1
  <2>2. ASSUME NEW repo \in Range(account.stars)
        PROVE  \E n \in 1 .. Len(account.stars) : n > 0 /\ account.stars[n] = repo
    BY <2>1 DEF Range
  <2>3. QED
    BY <2>a, <2>2 DEF ReadInit, StarsKept
<1>7. QED
  BY <1>2, <1>3, <1>4, <1>5, <1>6 DEF BracketInv

LEMMA BracketStep ==
    ASSUME BracketInv, [ReadNext]_readVars
    PROVE  BracketInv'
<1>1. CASE ReadNext
  <2>1. ReadSteps
    BY <1>1, NextSteps DEF BracketInv, OnceTrue
  <2>2. QED
    BY <2>1, TypesStep, OnceTrueStep, StillTrueStep, StarsKeptStep DEF BracketInv
<1>2. CASE UNCHANGED readVars
  BY <1>2 DEF BracketInv, ReaderTypes, ReaderStages, OnceTrue, StillTrue, StarsKept,
              Standing, Ahead, KeptList, KeptRaw, readVars
<1>3. QED
  BY <1>1, <1>2

\* At the end nothing is ahead.
LEMMA BracketShows ==
    ASSUME BracketInv
    PROVE  ReadIsBracketed
<1> SUFFICES ASSUME stage = "done" PROVE ReadIsBracketed
  BY DEF ReadIsBracketed
<1>1. /\ queue = {} /\ ~page.more /\ page.pages # 0
  BY DEF BracketInv, ReaderStages
<1>2. ASSUME NEW f \in Reported PROVE f \in ever
  <2>1. CASE \E repo \in stars : f = <<"star", repo>>
    BY <2>1 DEF BracketInv, OnceTrue
  <2>2. CASE \E l \in DOMAIN lists : f = <<"list", l, lists[l].name>>
    BY <2>2 DEF BracketInv, OnceTrue
  <2>3. CASE \E l \in DOMAIN lists : \E i \in lists[l].members : f = <<"item", l, i>>
    BY <2>3 DEF BracketInv, OnceTrue
  <2>4. QED
    BY <2>1, <2>2, <2>3 DEF Reported
<1>3. ASSUME cursors = "key", NEW f \in always, f[1] # "star"
      PROVE  f \in Reported
  <2>1. always \subseteq Facts(account) /\ account \in Account
    BY DEF BracketInv, StillTrue, ReaderTypes
  <2>2. \/ f[1] = "list" /\ f[2] \in DOMAIN account.lists
           /\ f = <<"list", f[2], account.lists[f[2]].name>>
        \/ f[1] = "item" /\ f[2] \in DOMAIN account.lists
           /\ \E i \in account.lists[f[2]].items \cap Repos : f = <<"item", f[2], i>>
    BY <1>3, <2>1, FactsMean
  <2> PICK l : l = f[2]
    OBVIOUS
  <2>3. Standing(l) /\ l \in ListIds /\ account.lists[l].name \in Names
    BY <2>1, <2>2, AccountParts DEF Standing
  <2>4. l \in DOMAIN lists /\ KeptList(l)
    BY <1>1, <1>3, <2>3 DEF BracketInv, StillTrue, Ahead
  <2>5. CASE f = <<"list", l, account.lists[l].name>>
    <3>1. lists[l].name = account.lists[l].name
      BY <2>3, <2>4, <2>5 DEF KeptList
    <3>2. QED
      BY <2>4, <2>5, <3>1 DEF Reported
  <2>6. CASE \E i \in account.lists[l].items \cap Repos : f = <<"item", l, i>>
    BY <2>4, <2>6 DEF KeptList, Reported
  <2>7. QED
    BY <2>2, <2>5, <2>6
<1>4. ASSUME \A f \in ever : f[1] # "unstarred"
      PROVE  StarFacts(first) \subseteq Reported
  BY <1>4 DEF BracketInv, StarsKept, StarFacts, Reported
<1>5. QED
  BY <1>2, <1>3, <1>4 DEF ReadIsBracketed

\* However the owner edits an account while read_curation_state pages through it, it
\* reports nothing that never was; with cursors that name an element every List and
\* item that was there all along, and every star unless one was taken back.
THEOREM ReadBracketed ==
    ReadSpec => []ReadIsBracketed
<1>1. ReadInit => BracketInv
  BY BracketInitially
<1>2. BracketInv /\ [ReadNext]_readVars => BracketInv'
  BY BracketStep
<1>3. BracketInv => ReadIsBracketed
  BY BracketShows
<1>4. QED
  BY <1>1, <1>2, <1>3, PTL DEF ReadSpec

-----------------------------------------------------------------------------
(* EachListIsASnapshot and QuietReadSucceeds.                               *)

\* A List half parsed, a parsed one, and all those named so far, of an account
\* that somebody could have seen.
RawOf(raw, a) ==
    /\ raw.id \in DOMAIN a.lists
    /\ raw.name = a.lists[raw.id].name
    /\ raw.total = Cardinality(a.lists[raw.id].items)
    /\ \E got \in SUBSET a.lists[raw.id].items : Got(raw, a.lists[raw.id].items, got)

ListOf(l, a) == l \in DOMAIN a.lists /\ lists[l] = ListsOf(a)[l]

Seen == DOMAIN lists \cup {raw.id : raw \in queue}

IdsOf(a) == page.total = Cardinality(DOMAIN a.lists) /\ Seen \subseteq DOMAIN a.lists

Snapshots ==
    /\ edits = 0 => account = first
    /\ edits <= 1 =>
        /\ OneApart(first, account)
        /\ page.pages > 0 => \E a \in {first, account} : IdsOf(a)
        /\ \A raw \in queue : \E a \in {first, account} : RawOf(raw, a)
        /\ \A l \in DOMAIN lists : \E a \in {first, account} : ListOf(l, a)

\* QuietReadSucceeds: nothing is missed between two pages, none is asked for in
\* vain, and the pages that were read are full.
OuterFull ==
    /\ page.more =>
          /\ After(DOMAIN account.lists, page.cursor) = DOMAIN account.lists \ Seen
          /\ Cardinality(Seen) = page.pages * ListPage
          /\ Cardinality(Seen) < Cardinality(DOMAIN account.lists)
    /\ page.pages > 0 /\ ~page.more =>
          /\ Seen = DOMAIN account.lists
          /\ Cardinality(Seen) <= page.pages * ListPage
    /\ page.pages <= MaxPages
    /\ stage = "lists" => page.pages < MaxPages

RawFull(raw) ==
    /\ raw.pages < MaxPages
    /\ raw.count <= (raw.pages + 1) * ItemPage
    /\ raw.more => raw.count = (raw.pages + 1) * ItemPage

Quiet ==
    edits = 0 /\ faults = 0 =>
        /\ stage = "refused" => TooLong(first)
        /\ stage # "refused" =>
              /\ OuterFull
              /\ \A raw \in queue : RawFull(raw)
              /\ \A l \in DOMAIN lists :
                    Cardinality(first.lists[l].items) <= ItemPage * MaxPages

QuietInv == ReaderTypes /\ ReaderStages /\ Facts(account) \subseteq ever /\ faults \in Nat
            /\ Snapshots /\ Quiet

-----------------------------------------------------------------------------

\* Differing in one List is mutual.
LEMMA ApartIsMutual ==
    ASSUME NEW a, NEW b, InOneList(a, b)
    PROVE  InOneList(b, a)
<1>1. PICK l \in ListIds \cup {0} : \A m \in ListIds \ {l} :
          /\ m \in DOMAIN a.lists <=> m \in DOMAIN b.lists
          /\ m \in DOMAIN a.lists => a.lists[m] = b.lists[m]
  BY DEF InOneList
<1>2. \A m \in ListIds \ {l} :
          /\ m \in DOMAIN b.lists <=> m \in DOMAIN a.lists
          /\ m \in DOMAIN b.lists => b.lists[m] = a.lists[m]
  BY <1>1
<1>3. QED
  BY <1>2 DEF InOneList

\* A further page that disagrees with the total of the first one is refused: what is
\* collected stays that of an account somebody could have seen.
LEMMA SnapshotsStep ==
    ASSUME ReaderTypes, ReaderStages, Snapshots, ReadSteps
    PROVE  Snapshots'
<1>0. account \in Account /\ first \in Account /\ edits \in Nat
  BY DEF ReaderTypes
<1>1. CASE \E answer : PageRead(answer)
  <2>1. PICK answer : PageRead(answer)
    BY <1>1
  <2>2. /\ answer.nodes \subseteq DOMAIN account.lists
        /\ answer.total = Cardinality(DOMAIN account.lists)
        /\ page'.total = answer.total
        /\ \A raw \in queue' : \E l \in DOMAIN account.lists : raw = RawList(l)
    BY <2>1, PageBrings
  <2>3. /\ stage = "lists" /\ queue' = {RawList(l) : l \in answer.nodes}
        /\ page.pages > 0 => answer.total = page.total
        /\ UNCHANGED <<account, first, lists, edits>>
    BY <2>1 DEF PageRead, owner
  <2>4. queue = {} /\ (~(page.pages > 0) => DOMAIN lists = {})
    <3>1. page.pages \in Nat
      BY DEF ReaderTypes, Page
    <3>2. QED
      BY <2>3, <3>1 DEF ReaderStages
  <2>5. ASSUME edits <= 1, NEW raw \in queue' PROVE RawOf(raw, account)
    <3>1. PICK l \in DOMAIN account.lists : raw = RawList(l)
      BY <2>2
    <3> PICK items : items = account.lists[l].items
      OBVIOUS
    <3>2. /\ raw.id = l /\ raw.name = account.lists[l].name
          /\ raw.total = Cardinality(items)
          /\ \E got \in SUBSET items : Got(raw, items, got)
      BY <1>0, <3>1, RawListMeans
    <3>3. QED
      BY <3>2 DEF RawOf
  <2>6. ASSUME edits <= 1 PROVE IdsOf(account)'
    <3>1. DOMAIN lists \subseteq DOMAIN account.lists
      <4>1. CASE ~(page.pages > 0)
        BY <2>4, <4>1
      <4>2. CASE page.pages > 0
        <5>1. PICK a \in {first, account} : IdsOf(a)
          BY <2>6, <4>2 DEF Snapshots
        <5>2. Cardinality(DOMAIN a.lists) = Cardinality(DOMAIN account.lists)
              /\ DOMAIN lists \subseteq DOMAIN a.lists
          BY <2>2, <2>3, <4>2, <5>1 DEF IdsOf, Seen
        <5>3. DOMAIN a.lists = DOMAIN account.lists
          BY <2>6, <5>1, <5>2 DEF Snapshots, OneApart
        <5>4. QED
          BY <5>2, <5>3
      <4>3. QED
        BY <4>1, <4>2
    <3>2. \A raw \in queue' : raw.id \in DOMAIN account.lists
      BY <2>5, <2>6 DEF RawOf
    <3>3. QED
      BY <2>2, <2>3, <3>1, <3>2 DEF IdsOf, Seen
  <2>7. \A l, a : ListOf(l, a)' = ListOf(l, a)
    BY <2>3 DEF ListOf
  <2>8. \A raw, a : RawOf(raw, a)' = RawOf(raw, a)
    <3>1. cursors' = cursors
      BY <2>1 DEF PageRead, owner
    <3>2. QED
      BY <3>1 DEF RawOf, Got, After
  <2>9. QED
    BY <2>3, <2>5, <2>6, <2>7, <2>8 DEF Snapshots
<1>2. CASE \E raw, items, answer, next : ItemsRead(raw, items, answer, next)
  <2>1. PICK raw, items, answer, next : ItemsRead(raw, items, answer, next)
    BY <1>2
  <2>2. Follows(raw, items, answer, next) /\ raw \in Raw
    BY <2>1, ItemsBring
  <2>3. /\ raw \in queue /\ raw.more /\ raw.id \in DOMAIN account.lists
        /\ items = account.lists[raw.id].items
        /\ answer.total = next.total
        /\ queue' = (queue \ {raw}) \cup {next}
        /\ UNCHANGED <<account, first, cursors, lists, page, edits>>
    BY <2>1 DEF ItemsRead, owner
  <2>4. /\ next.id = raw.id /\ next.name = raw.name /\ next.total = raw.total
        /\ answer.total = Cardinality(items) /\ answer.nodes \subseteq items
        /\ \A got \in SUBSET items :
              raw.more /\ Got(raw, items, got) => Got(next, items, got \cup answer.nodes)
    BY <2>2 DEF Follows
  <2>5. ASSUME edits <= 1 PROVE \E a \in {first, account} : RawOf(next, a)
    <3>1. PICK a \in {first, account} : RawOf(raw, a)
      BY <2>3, <2>5 DEF Snapshots
    <3>2. a.lists[raw.id].items = items
      <4>1. CASE a = account
        BY <2>3, <4>1
      <4>2. CASE a = first
        <5>1. /\ raw.id \in DOMAIN first.lists \cap DOMAIN account.lists
              /\ Cardinality(first.lists[raw.id].items) = Cardinality(items)
          BY <2>3, <2>4, <3>1, <4>2 DEF RawOf
        <5>2. QED
          BY <2>3, <2>5, <4>2, <5>1 DEF Snapshots, OneApart
      <4>3. QED
        BY <3>1, <4>1, <4>2
    <3>3. PICK got \in SUBSET items : Got(raw, items, got)
      BY <3>1, <3>2 DEF RawOf
    <3>4. got \cup answer.nodes \in SUBSET items
          /\ Got(next, items, got \cup answer.nodes)
      BY <2>3, <2>4, <3>3
    <3>5. RawOf(next, a)
      BY <2>4, <3>1, <3>2, <3>4 DEF RawOf
    <3>6. QED
      BY <3>1, <3>5
  <2>6. \A l, a : ListOf(l, a)' = ListOf(l, a)
    BY <2>3 DEF ListOf
  <2>7. \A other, a : RawOf(other, a)' = RawOf(other, a)
    BY <2>3 DEF RawOf, Got, After
  <2>8. \A a : IdsOf(a)' = IdsOf(a)
    BY <2>3, <2>4 DEF IdsOf, Seen
  <2>9. QED
    BY <2>3, <2>5, <2>6, <2>7, <2>8 DEF Snapshots
<1>3. CASE \E raw : ListAccepted(raw)
  <2>1. PICK raw : ListAccepted(raw)
    BY <1>3
  <2>2. /\ DOMAIN lists' = DOMAIN lists \cup {raw.id}
        /\ lists'[raw.id] = Parsed(raw)
        /\ \A l \in DOMAIN lists \ {raw.id} : lists'[l] = lists[l]
    BY <2>1, AcceptanceBrings
  <2>3. /\ raw \in queue /\ queue' = queue \ {raw} /\ ~raw.more
        /\ UNCHANGED <<account, first, cursors, page, edits>>
    BY <2>1 DEF ListAccepted, owner
  <2>4. \A other, a : RawOf(other, a)' = RawOf(other, a)
    BY <2>3 DEF RawOf, Got, After
  <2>5. \A a : IdsOf(a) => IdsOf(a)'
    <3>1. Seen' = Seen
      BY <2>2, <2>3 DEF Seen
    <3>2. QED
      BY <2>3, <3>1 DEF IdsOf
  <2>6. ASSUME edits <= 1, NEW l \in DOMAIN lists'
        PROVE  \E a \in {first, account} : ListOf(l, a)'
    <3>1. CASE l = raw.id
      <4>1. PICK a \in {first, account} : RawOf(raw, a)
        BY <2>3, <2>6 DEF Snapshots
      <4> PICK items : items = a.lists[raw.id].items
        OBVIOUS
      <4>2. PICK got \in SUBSET items : Got(raw, items, got)
        BY <4>1 DEF RawOf
      <4>3. got = items
        BY <2>3, <4>2 DEF Got
      <4>4. Parsed(raw) = ListsOf(a)[raw.id]
        BY <4>1, <4>2, <4>3 DEF RawOf, Got, Parsed, ListsOf
      <4>5. ListOf(l, a)'
        <5>1. ListsOf(a)' = ListsOf(a)
          BY DEF ListsOf
        <5>2. QED
          BY <2>2, <3>1, <4>1, <4>4, <5>1 DEF ListOf, RawOf
      <4>6. QED
        BY <2>3, <4>1, <4>5
    <3>2. CASE l # raw.id
      <4>1. l \in DOMAIN lists /\ lists'[l] = lists[l]
        BY <2>2, <3>2
      <4>2. PICK a \in {first, account} : ListOf(l, a)
        BY <2>6, <4>1 DEF Snapshots
      <4>3. QED
        BY <4>1, <4>2 DEF ListOf
    <3>3. QED
      BY <3>1, <3>2
  <2>7. QED
    BY <2>3, <2>4, <2>5, <2>6 DEF Snapshots
<1>4. CASE (\E upto : StarsRead(upto)) \/ PageEnded \/ MetadataRead \/ ReadRefused
  <2>1. UNCHANGED <<account, first, cursors, page, lists, queue, edits>>
    BY <1>4 DEF StarsRead, PageEnded, MetadataRead, ReadRefused, Refuse, owner
  <2>2. \A l, a : ListOf(l, a)' = ListOf(l, a)
    BY <2>1 DEF ListOf
  <2>3. \A other, a : RawOf(other, a)' = RawOf(other, a)
    BY <2>1 DEF RawOf, Got, After
  <2>4. \A a : IdsOf(a)' = IdsOf(a)
    BY <2>1 DEF IdsOf, Seen
  <2>5. QED
    BY <2>1, <2>2, <2>3, <2>4 DEF Snapshots
<1>5. CASE \E a : Commits(a) /\ Edited(a)
  <2>1. PICK a : Commits(a) /\ Edited(a)
    BY <1>5
  <2>2. /\ account' = a /\ edits' = edits + 1
        /\ UNCHANGED <<first, cursors, page, lists, queue>>
    BY <2>1 DEF Commits, reader
  <2>3. SUFFICES ASSUME edits = 0 PROVE Snapshots'
    <3>1. CASE edits # 0
      <4>1. edits' # 0 /\ ~(edits' <= 1)
        BY <1>0, <2>2, <3>1
      <4>2. QED
        BY <4>1 DEF Snapshots
    <3>2. QED
      BY <3>1
  <2>4. account = first /\ edits <= 1 /\ edits' # 0
    BY <2>2, <2>3 DEF Snapshots
  <2>5. OneApart(first, a)
    BY <2>1, <2>4 DEF Edited
  <2>6. \A l, b : ListOf(l, b)' = ListOf(l, b)
    BY <2>2 DEF ListOf
  <2>7. \A other, b : RawOf(other, b)' = RawOf(other, b)
    BY <2>2 DEF RawOf, Got, After
  <2>8. \A b : IdsOf(b)' = IdsOf(b)
    BY <2>2 DEF IdsOf, Seen
  <2>9. /\ page.pages > 0 => IdsOf(first)
        /\ \A raw \in queue : RawOf(raw, first)
        /\ \A l \in DOMAIN lists : ListOf(l, first)
    BY <2>4 DEF Snapshots
  <2>10. OneApart(first, account)'
    BY <2>2, <2>5
  <2>11. QED
    BY <2>2, <2>4, <2>6, <2>7, <2>8, <2>9, <2>10 DEF Snapshots
<1>6. QED
  BY <1>1, <1>2, <1>3, <1>4, <1>5 DEF ReadSteps

LEMMA ListsOfMeans ==
    ASSUME NEW a
    PROVE  /\ DOMAIN ListsOf(a) = DOMAIN a.lists
           /\ \A b : \A l \in DOMAIN a.lists \cap DOMAIN b.lists :
                 a.lists[l] = b.lists[l] => ListsOf(a)[l] = ListsOf(b)[l]
BY DEF ListsOf

\* All the Lists of one of two accounts, each as one of the two has it.
LEMMA OneOfBoth ==
    ASSUME ReaderTypes, NEW a \in Account, NEW b \in Account, InOneList(a, b),
           DOMAIN lists = DOMAIN a.lists,
           \A l \in DOMAIN lists : ListOf(l, a) \/ ListOf(l, b)
    PROVE  lists \in {ListsOf(a), ListsOf(b)}
<1>1. PICK l0 \in ListIds \cup {0} : \A m \in ListIds \ {l0} :
          /\ m \in DOMAIN a.lists <=> m \in DOMAIN b.lists
          /\ m \in DOMAIN a.lists => a.lists[m] = b.lists[m]
  BY DEF InOneList
<1>2. /\ lists = [l \in DOMAIN lists |-> lists[l]]
      /\ DOMAIN a.lists \subseteq ListIds /\ DOMAIN b.lists \subseteq ListIds
  BY AccountParts DEF ReaderTypes
<1>3. \A m \in DOMAIN a.lists \ {l0} :
          m \in DOMAIN b.lists /\ ListsOf(a)[m] = ListsOf(b)[m] /\ lists[m] = ListsOf(a)[m]
  <2>1. TAKE m \in DOMAIN a.lists \ {l0}
  <2>2. m \in DOMAIN b.lists /\ a.lists[m] = b.lists[m]
    BY <1>1, <1>2
  <2>3. ListsOf(a)[m] = ListsOf(b)[m]
    BY <2>2, ListsOfMeans
  <2>4. QED
    BY <2>2, <2>3 DEF ListOf
<1>4. /\ ListsOf(a) = [l \in DOMAIN a.lists |-> ListsOf(a)[l]]
      /\ ListsOf(b) = [l \in DOMAIN b.lists |-> ListsOf(b)[l]]
  BY DEF ListsOf
<1>5. CASE l0 \in DOMAIN lists /\ ~ListOf(l0, a)
  <2>1. l0 \in DOMAIN b.lists /\ lists[l0] = ListsOf(b)[l0]
    BY <1>5 DEF ListOf
  <2>2. DOMAIN b.lists = DOMAIN a.lists
    BY <1>1, <1>2, <1>5, <2>1
  <2>3. \A m \in DOMAIN lists : lists[m] = ListsOf(b)[m]
    BY <1>3, <2>1
  <2>4. lists = [l \in DOMAIN b.lists |-> ListsOf(b)[l]]
    BY <1>2, <2>2, <2>3
  <2>5. QED
    BY <1>4, <2>4
<1>6. CASE ~(l0 \in DOMAIN lists /\ ~ListOf(l0, a))
  <2>1. \A m \in DOMAIN lists : lists[m] = ListsOf(a)[m]
    BY <1>3, <1>6 DEF ListOf
  <2>2. lists = [l \in DOMAIN a.lists |-> ListsOf(a)[l]]
    BY <1>2, <2>1
  <2>3. QED
    BY <1>4, <2>2
<1>7. QED
  BY <1>5, <1>6

\* All the Lists of one account, each as before or after the one edit: if the two
\* differ in one List only, they are those of one account.
LEMMA SnapshotsShow ==
    ASSUME ReaderTypes, ReaderStages, Snapshots
    PROVE  EachListIsASnapshot
<1> SUFFICES ASSUME stage = "done", edits <= 1
             PROVE  \/ lists \in {ListsOf(first), ListsOf(account)}
                    \/ /\ DOMAIN lists = DOMAIN ListsOf(first)
                       /\ DOMAIN lists = DOMAIN ListsOf(account)
                       /\ \A l \in DOMAIN lists :
                             lists[l] \in {ListsOf(first)[l], ListsOf(account)[l]}
  BY DEF EachListIsASnapshot
<1>1. /\ page.pages > 0 /\ page.total = Cardinality(DOMAIN lists)
      /\ first \in Account /\ account \in Account
  BY DEF ReaderStages, ReaderTypes
<1>2. PICK a \in {first, account} : IdsOf(a)
  BY <1>1 DEF Snapshots
<1>3. DOMAIN lists = DOMAIN a.lists
  <2>1. IsFiniteSet(DOMAIN a.lists)
    BY <1>1, <1>2, AccountParts
  <2>2. /\ DOMAIN lists \subseteq DOMAIN a.lists
        /\ Cardinality(DOMAIN a.lists) = Cardinality(DOMAIN lists)
    BY <1>1, <1>2 DEF IdsOf, Seen
  <2>3. QED
    BY <2>1, <2>2, FS_Subset
<1>4. DOMAIN first.lists = DOMAIN account.lists \/ InOneList(first, account)
  BY DEF Snapshots, OneApart
<1>5. \A l \in DOMAIN lists : ListOf(l, first) \/ ListOf(l, account)
  BY DEF Snapshots
<1>6. CASE DOMAIN first.lists = DOMAIN account.lists
  <2>1. DOMAIN lists = DOMAIN ListsOf(first) /\ DOMAIN lists = DOMAIN ListsOf(account)
    BY <1>2, <1>3, <1>6, ListsOfMeans
  <2>2. \A l \in DOMAIN lists : lists[l] \in {ListsOf(first)[l], ListsOf(account)[l]}
    BY <1>5 DEF ListOf
  <2>3. QED
    BY <2>1, <2>2
<1>7. CASE InOneList(first, account) /\ a = first
  BY <1>1, <1>3, <1>5, <1>7, OneOfBoth
<1>8. CASE InOneList(first, account) /\ a = account
  <2>1. InOneList(account, first)
    BY <1>8, ApartIsMutual
  <2>2. lists \in {ListsOf(account), ListsOf(first)}
    BY <1>1, <1>3, <1>5, <1>8, <2>1, OneOfBoth
  <2>3. QED
    BY <2>2
<1>9. QED
  BY <1>2, <1>4, <1>6, <1>7, <1>8

-----------------------------------------------------------------------------

LEMMA TimesGrows ==
    ASSUME NEW m \in Nat, NEW n \in Nat, NEW k \in Nat, m <= n
    PROVE  /\ m * k <= n * k /\ m * k = k * m /\ n * k = k * n
           /\ (m + 1) * k = m * k + k /\ m * k \in Nat /\ n * k \in Nat
OBVIOUS

\* The pages of an account nobody edits follow one another without gap or overlap.
LEMMA QuietStep ==
    ASSUME ReaderTypes, ReaderStages, Snapshots, faults \in Nat, Quiet, ReadSteps
    PROVE  Quiet' /\ faults' \in Nat
<1>0. /\ account \in Account /\ first \in Account /\ edits \in Nat /\ faults \in Nat
      /\ page \in Page /\ queue \in SUBSET Raw
      /\ ListPage \in Nat \ {0} /\ ItemPage \in Nat \ {0} /\ MaxPages \in Nat \ {0}
  BY ReadAssumption DEF ReaderTypes, ReadAssumption
<1>a. /\ IsFiniteSet(DOMAIN account.lists)
      /\ DOMAIN account.lists \in SUBSET (Nat \ {0})
      /\ Cardinality(DOMAIN account.lists) \in Nat
      /\ page.pages \in Nat /\ page.cursor \in Nat /\ page.more \in BOOLEAN
  BY <1>0, AccountParts, FS_CardinalityType DEF Page
<1>1. CASE \E answer : PageRead(answer)
  <2>1. PICK answer : PageRead(answer)
    BY <1>1
  <2>2. UNCHANGED <<account, first, cursors, edits, faults, lists>> /\ stage = "lists"
        /\ stage' = "items" /\ answer = Connection(DOMAIN account.lists, page.cursor, ListPage)
        /\ queue' = {RawList(l) : l \in answer.nodes}
    BY <2>1 DEF PageRead, owner
  <2> SUFFICES ASSUME edits = 0, faults = 0
               PROVE  /\ OuterFull' /\ \A raw \in queue' : RawFull(raw)'
                      /\ \A l \in DOMAIN lists :
                            Cardinality(first.lists[l].items) <= ItemPage * MaxPages
    BY <1>0, <2>2 DEF Quiet
  <2>3. OuterFull /\ account = first /\ queue = {}
        /\ \A l \in DOMAIN lists :
              Cardinality(first.lists[l].items) <= ItemPage * MaxPages
    BY <2>2 DEF Quiet, Snapshots, ReaderStages
  <2>4. /\ page'.more = answer.more /\ page'.cursor = answer.cursor
        /\ page'.pages = page.pages + 1
        /\ \A raw \in queue' : \E l \in DOMAIN account.lists : raw = RawList(l)
    BY <2>1, PageBrings
  <2> PICK S : S = DOMAIN account.lists
    OBVIOUS
  <2> PICK seen : seen = DOMAIN lists
    OBVIOUS
  <2> PICK nodes : nodes = answer.nodes
    OBVIOUS
  <2>5. Seen = seen /\ Seen' = seen \cup nodes
    <3>1. \A l \in nodes : RawList(l).id = l
      BY DEF RawList
    <3>2. {raw.id : raw \in queue'} = nodes
      BY <2>2, <3>1
    <3>3. QED
      BY <2>2, <2>3, <3>2 DEF Seen
  <2>6. /\ seen \subseteq S /\ After(S, page.cursor) = S \ seen
        /\ Cardinality(seen) = page.pages * ListPage
    <3>1. CASE page.more
      <4>1. page.pages > 0
        BY <1>a, <3>1 DEF ReaderStages
      <4>2. PICK a \in {first, account} : IdsOf(a)
        BY <4>1 DEF Snapshots
      <4>3. seen \subseteq S
        BY <2>3, <2>5, <4>2 DEF IdsOf
      <4>4. QED
        BY <2>3, <2>5, <3>1, <4>3 DEF OuterFull
    <3>2. CASE ~page.more /\ page.pages > 0
      <4>1. seen = S /\ IsFiniteSet(S)
        BY <1>a, <2>3, <2>5, <3>2 DEF OuterFull
      <4>2. FALSE
        BY <2>2, <3>2 DEF ReaderStages
      <4>3. QED
        BY <4>2
    <3>3. CASE page.pages = 0
      <4>1. seen = {} /\ page.cursor = 0
        BY <3>3 DEF ReaderStages
      <4>2. After(S, 0) = S
        BY <1>a, AfterNothing
      <4>3. Cardinality(seen) = 0 /\ 0 * ListPage = 0
        BY <1>0, <4>1, FS_EmptySet
      <4>4. QED
        BY <3>3, <4>1, <4>2, <4>3
    <3>4. QED
      BY <1>a, <3>1, <3>2, <3>3
  <2>7. /\ nodes \subseteq S /\ IsFiniteSet(nodes)
        /\ nodes \subseteq After(S, page.cursor)
        /\ answer.more <=> nodes # After(S, page.cursor)
        /\ Cardinality(nodes) <= ListPage
    BY <1>0, <1>a, <2>2, ConnectionMeans
  <2>8. answer.more => /\ After(S, answer.cursor) = After(S, page.cursor) \ nodes
                       /\ Cardinality(nodes) = ListPage
    BY <1>0, <1>a, <2>2, NextPage
  <2>9. /\ Cardinality(seen \cup nodes) = Cardinality(seen) + Cardinality(nodes)
        /\ IsFiniteSet(seen) /\ IsFiniteSet(seen \cup nodes)
        /\ Cardinality(seen) \in Nat /\ Cardinality(nodes) \in Nat
    <3>1. IsFiniteSet(seen)
      BY <1>a, <2>6, FS_Subset
    <3>2. seen \cap nodes = {}
      BY <2>6, <2>7
    <3>3. QED
      BY <2>7, <3>1, <3>2, DisjointCounts, FS_CardinalityType, FS_Union
  <2>10. /\ page.pages * ListPage \in Nat
         /\ (page.pages + 1) * ListPage = page.pages * ListPage + ListPage
    BY <1>0, <1>a, TimesGrows
  <2>11. ASSUME answer.more
         PROVE  /\ After(S, answer.cursor) = S \ (seen \cup nodes)
                /\ Cardinality(seen \cup nodes) = (page.pages + 1) * ListPage
                /\ Cardinality(seen \cup nodes) < Cardinality(S)
    <3>1. After(S, answer.cursor) = S \ (seen \cup nodes)
      BY <2>6, <2>8, <2>11
    <3>2. Cardinality(seen \cup nodes) = (page.pages + 1) * ListPage
      BY <2>6, <2>8, <2>9, <2>10, <2>11
    <3>3. seen \cup nodes # S /\ seen \cup nodes \in SUBSET S
      BY <2>6, <2>7, <2>11
    <3>4. Cardinality(seen \cup nodes) < Cardinality(S)
      <4> PICK both : both = seen \cup nodes
        OBVIOUS
      <4>1. Cardinality(both) <= Cardinality(S) /\ Cardinality(both) # Cardinality(S)
        BY <1>a, <3>3, FS_Subset
      <4>2. Cardinality(both) \in Nat /\ Cardinality(S) \in Nat
        BY <1>a, <2>9, FS_CardinalityType
      <4>3. QED
        BY <4>1, <4>2
    <3>5. QED
      BY <3>1, <3>2, <3>4
  <2>12. ASSUME ~answer.more
         PROVE  /\ seen \cup nodes = S
                /\ Cardinality(seen \cup nodes) <= (page.pages + 1) * ListPage
    <3>1. seen \cup nodes = S
      BY <2>6, <2>7, <2>12
    <3>2. Cardinality(seen \cup nodes) <= (page.pages + 1) * ListPage
      BY <1>0, <2>6, <2>7, <2>9, <2>10
    <3>3. QED
      BY <3>1, <3>2
  <2>13. page.pages + 1 <= MaxPages
    BY <1>0, <1>a, <2>2, <2>3 DEF OuterFull
  <2>14. OuterFull'
    <3>1. After(S, answer.cursor)' = After(S, answer.cursor)'
      OBVIOUS
    <3>2. (page'.more => /\ After(S, page.cursor)' = S \ Seen'
                         /\ Cardinality(Seen') = page'.pages * ListPage
                         /\ Cardinality(Seen') < Cardinality(S))
      <4>1. \A c : After(S, c)' = After(S, c')
        BY <2>2 DEF After
      <4>2. QED
        BY <2>4, <2>5, <2>11, <4>1
    <3>3. (page'.pages > 0 /\ ~page'.more =>
             Seen' = S /\ Cardinality(Seen') <= page'.pages * ListPage)
      BY <2>4, <2>5, <2>12
    <3>4. QED
      BY <2>2, <2>4, <2>13, <3>2, <3>3 DEF OuterFull
  <2>15. ASSUME NEW raw \in queue' PROVE RawFull(raw)
    <3>1. PICK l \in DOMAIN account.lists : raw = RawList(l)
      BY <2>4
    <3>2. /\ raw.pages = 0 /\ raw.count <= ItemPage
          /\ raw.more => raw.count = ItemPage
      BY <1>0, <3>1, RawListMeans
    <3>3. (0 + 1) * ItemPage = ItemPage /\ 0 < MaxPages
      BY <1>0
    <3>4. QED
      BY <3>2, <3>3 DEF RawFull
  <2>16. QED
    BY <2>3, <2>14, <2>15
<1>2. CASE \E raw, items, answer, next : ItemsRead(raw, items, answer, next)
  <2>1. PICK raw, items, answer, next : ItemsRead(raw, items, answer, next)
    BY <1>2
  <2>2. Follows(raw, items, answer, next) /\ raw \in Raw
    BY <2>1, ItemsBring
  <2>3. /\ raw \in queue /\ raw.more /\ stage = "items"
        /\ ~PagesExhausted(next.pages)
        /\ queue' = (queue \ {raw}) \cup {next}
        /\ UNCHANGED <<account, first, cursors, lists, page, stage, edits, faults>>
    BY <2>1 DEF ItemsRead, owner
  <2>4. /\ next.id = raw.id /\ next.pages = raw.pages + 1
        /\ next.count <= raw.count + ItemPage
        /\ next.more => next.count = raw.count + ItemPage
    BY <2>2 DEF Follows
  <2> SUFFICES ASSUME edits = 0, faults = 0, stage # "refused"
               PROVE  /\ OuterFull' /\ \A other \in queue' : RawFull(other)
                      /\ \A l \in DOMAIN lists :
                            Cardinality(first.lists[l].items) <= ItemPage * MaxPages
    BY <1>0, <2>3 DEF Quiet, RawFull
  <2>5. Seen' = Seen
    BY <2>3, <2>4 DEF Seen
  <2>6. OuterFull'
    BY <2>3, <2>5 DEF Quiet, OuterFull, After
  <2>7. RawFull(next)
    <3>1. RawFull(raw) /\ raw.pages \in Nat /\ raw.count \in Nat
      BY <2>2, <2>3 DEF Quiet, Raw
    <3>2. raw.count = (raw.pages + 1) * ItemPage /\ raw.pages + 1 \in Nat
      BY <2>3, <3>1 DEF RawFull
    <3>3. (raw.pages + 1 + 1) * ItemPage = (raw.pages + 1) * ItemPage + ItemPage
      BY <1>0, <3>2, TimesGrows
    <3>4. raw.pages + 1 < MaxPages
      BY <1>0, <2>3, <2>4, <3>1 DEF PagesExhausted
    <3>5. QED
      BY <2>4, <3>2, <3>3, <3>4 DEF RawFull
  <2>8. \A other \in queue' : RawFull(other)
    BY <2>3, <2>7 DEF Quiet
  <2>9. QED
    BY <2>3, <2>6, <2>8 DEF Quiet
<1>3. CASE \E raw : ListAccepted(raw)
  <2>1. PICK raw : ListAccepted(raw)
    BY <1>3
  <2>2. raw \in Raw /\ DOMAIN lists' = DOMAIN lists \cup {raw.id}
    BY <2>1, AcceptanceBrings
  <2>3. /\ raw \in queue /\ queue' = queue \ {raw} /\ stage = "items"
        /\ raw.total = raw.count
        /\ UNCHANGED <<account, first, cursors, page, stage, edits, faults>>
    BY <2>1 DEF ListAccepted, owner
  <2> SUFFICES ASSUME edits = 0, faults = 0, stage # "refused"
               PROVE  /\ OuterFull' /\ \A other \in queue' : RawFull(other)
                      /\ \A l \in DOMAIN lists' :
                            Cardinality(first.lists[l].items) <= ItemPage * MaxPages
    BY <1>0, <2>3 DEF Quiet, RawFull
  <2>4. Seen' = Seen
    BY <2>2, <2>3 DEF Seen
  <2>5. OuterFull'
    BY <2>3, <2>4 DEF Quiet, OuterFull, After
  <2>6. Cardinality(first.lists[raw.id].items) <= ItemPage * MaxPages
    <3>1. raw.count = Cardinality(first.lists[raw.id].items)
      BY <2>3 DEF Snapshots, RawOf
    <3>2. raw.pages < MaxPages /\ raw.count <= (raw.pages + 1) * ItemPage
      BY <2>3 DEF Quiet, RawFull
    <3>3. raw.pages + 1 \in Nat /\ raw.pages + 1 <= MaxPages /\ raw.count \in Nat
      BY <1>0, <2>2, <3>2 DEF Raw
    <3>4. /\ (raw.pages + 1) * ItemPage <= MaxPages * ItemPage
          /\ MaxPages * ItemPage = ItemPage * MaxPages
          /\ (raw.pages + 1) * ItemPage \in Nat /\ MaxPages * ItemPage \in Nat
      BY <1>0, <3>3, TimesGrows
    <3>5. QED
      BY <3>1, <3>2, <3>3, <3>4
  <2>7. QED
    BY <2>2, <2>3, <2>5, <2>6 DEF Quiet
<1>4. CASE \E upto : StarsRead(upto)
  <2>1. PICK upto : StarsRead(upto)
    BY <1>4
  <2>2. /\ stage = "stars" /\ stage' \in {"stars", "lists"}
        /\ UNCHANGED <<account, first, cursors, lists, page, queue, edits, faults>>
    BY <2>1 DEF StarsRead, owner
  <2>3. page.pages = 0 /\ 0 < MaxPages
    BY <1>0, <2>2 DEF ReaderStages
  <2>4. Seen' = Seen
    BY <2>2 DEF Seen
  <2>5. stage = "stars" /\ OuterFull => OuterFull'
    BY <2>2, <2>3, <2>4 DEF OuterFull, After
  <2>6. QED
    BY <1>0, <2>2, <2>5 DEF Quiet, RawFull
<1>5. CASE PageEnded
  <2>1. /\ stage = "items" /\ queue = {}
        /\ \/ stage' = "lists" /\ page.more /\ ~PagesExhausted(page.pages)
           \/ stage' = "metadata" /\ ~page.more
        /\ UNCHANGED <<account, first, cursors, lists, page, queue, edits, faults>>
    BY <1>5 DEF PageEnded, owner
  <2>2. Seen' = Seen
    BY <2>1 DEF Seen
  <2>3. OuterFull => OuterFull'
    BY <1>0, <1>a, <2>1, <2>2 DEF OuterFull, After, PagesExhausted
  <2>4. QED
    BY <1>0, <2>1, <2>3 DEF Quiet, RawFull
<1>6. CASE MetadataRead
  <2>1. /\ stage = "metadata" /\ stage' = "done"
        /\ UNCHANGED <<account, first, cursors, lists, page, queue, edits, faults>>
    BY <1>6 DEF MetadataRead, owner
  <2>2. Seen' = Seen
    BY <2>1 DEF Seen
  <2>3. OuterFull => OuterFull'
    BY <2>1, <2>2 DEF OuterFull, After
  <2>4. QED
    BY <1>0, <2>1, <2>3 DEF Quiet, RawFull
<1>7. CASE ReadRefused
  <2>1. /\ stage' = "refused" /\ faults' \in {faults, faults + 1}
        /\ UNCHANGED <<first, edits>>
    BY <1>7 DEF ReadRefused, Refuse, owner
  <2> SUFFICES ASSUME edits = 0, faults' = 0 PROVE TooLong(first)
    BY <1>0, <2>1 DEF Quiet, TooLong
  <2>2. faults = 0 /\ account = first
    BY <1>0, <2>1 DEF Snapshots
  <2>3. SUFFICES ASSUME stage = "lists" \/ stage = "items" PROVE TooLong(first)
    BY <1>0, <1>7, <2>2 DEF ReadRefused
  <2>4. /\ OuterFull
        /\ \A raw \in queue : RawFull(raw) /\ RawOf(raw, account) /\ raw \in Raw
        /\ \A l \in DOMAIN lists : ListOf(l, account)
        /\ page.pages > 0 => IdsOf(account)
    BY <1>0, <2>2, <2>3 DEF Quiet, Snapshots
  <2>5. ~(stage = "lists" /\ page.pages > 0 /\ page.total # Cardinality(DOMAIN account.lists))
    BY <2>4 DEF IdsOf
  <2>6. ASSUME NEW raw \in queue, raw.more,
               \/ raw.id \notin DOMAIN account.lists
               \/ raw.total # Cardinality(account.lists[raw.id].items)
               \/ PagesExhausted(raw.pages + 1)
        PROVE  TooLong(first)
    <3> PICK items : items = account.lists[raw.id].items
      OBVIOUS
    <3>1. /\ raw.id \in DOMAIN account.lists /\ raw.total = Cardinality(items)
          /\ raw.pages < MaxPages /\ raw.count = (raw.pages + 1) * ItemPage
          /\ raw.pages \in Nat
      BY <2>4, <2>6 DEF RawOf, RawFull, Raw
    <3>2. raw.pages + 1 = MaxPages
      BY <1>0, <2>6, <3>1 DEF PagesExhausted
    <3>3. PICK got \in SUBSET items : Got(raw, items, got)
      BY <2>4 DEF RawOf
    <3>4. IsFiniteSet(items) /\ items # got /\ Cardinality(got) = raw.count
      BY <1>0, <2>6, <3>1, <3>3, AccountParts DEF Got
    <3>5. /\ Cardinality(got) <= Cardinality(items) /\ Cardinality(got) # Cardinality(items)
          /\ Cardinality(items) \in Nat /\ Cardinality(got) \in Nat
      BY <3>4, FS_Subset, FS_CardinalityType
    <3>6. raw.count = ItemPage * MaxPages /\ ItemPage * MaxPages \in Nat
      <4>1. raw.count = MaxPages * ItemPage
        BY <3>1, <3>2
      <4>2. MaxPages * ItemPage = ItemPage * MaxPages /\ ItemPage * MaxPages \in Nat
        BY <1>0
      <4>3. QED
        BY <4>1, <4>2
    <3>7. Cardinality(items) > ItemPage * MaxPages
      BY <3>4, <3>5, <3>6
    <3>8. QED
      BY <2>2, <3>1, <3>7 DEF TooLong
  <2>7. ASSUME NEW raw \in queue, ~raw.more
        PROVE  raw.total = raw.count /\ (raw.id \in DOMAIN lists => lists[raw.id] = Parsed(raw))
    <3> PICK items : items = account.lists[raw.id].items
      OBVIOUS
    <3>1. PICK got \in SUBSET items : Got(raw, items, got)
      BY <2>4 DEF RawOf
    <3>2. got = items
      BY <2>7, <3>1 DEF Got
    <3>3. raw.total = raw.count
      BY <2>4, <3>1, <3>2 DEF RawOf, Got
    <3>4. Parsed(raw) = ListsOf(account)[raw.id]
      BY <2>4, <3>1, <3>2 DEF RawOf, Got, Parsed, ListsOf
    <3>5. QED
      BY <2>4, <3>3, <3>4 DEF ListOf
  <2>8. ASSUME page.more, PagesExhausted(page.pages) PROVE TooLong(first)
    <3>1. page.pages >= MaxPages /\ page.pages <= MaxPages
      BY <2>4, <2>8 DEF PagesExhausted, OuterFull
    <3>2. page.pages = MaxPages
      BY <1>0, <1>a, <3>1
    <3>3. /\ Cardinality(Seen) = MaxPages * ListPage
          /\ Cardinality(Seen) < Cardinality(DOMAIN account.lists)
      BY <2>4, <2>8, <3>2 DEF OuterFull
    <3>4. Cardinality(Seen) = ListPage * MaxPages /\ ListPage * MaxPages \in Nat
      BY <1>0, <3>3, TimesGrows
    <3>5. QED
      BY <1>a, <2>2, <3>3, <3>4 DEF TooLong
  <2>9. ASSUME stage = "items", queue = {}, ~page.more
        PROVE  page.total = Cardinality(DOMAIN lists)
    <3>1. page.pages > 0
      BY <2>9 DEF ReaderStages
    <3>2. Seen = DOMAIN lists
      BY <2>9 DEF Seen
    <3>3. QED
      BY <2>4, <2>9, <3>1, <3>2 DEF OuterFull, IdsOf
  <2>10. QED
    BY <1>0, <1>7, <2>2, <2>5, <2>6, <2>7, <2>8, <2>9 DEF ReadRefused
<1>8. CASE \E a : Commits(a) /\ Edited(a)
  <2>1. edits' = edits + 1 /\ faults' = faults
    BY <1>8 DEF Commits
  <2>2. edits' # 0
    BY <1>0, <2>1
  <2>3. QED
    BY <1>0, <2>1, <2>2 DEF Quiet
<1>9. QED
  BY <1>1, <1>2, <1>3, <1>4, <1>5, <1>6, <1>7, <1>8 DEF ReadSteps

\* As many pages as the limit allows were enough.
LEMMA QuietShows ==
    ASSUME ReaderTypes, ReaderStages, Snapshots, Quiet
    PROVE  QuietReadSucceeds
<1> SUFFICES ASSUME edits = 0, faults = 0, stage = "done" PROVE ~TooLong(first)
  BY DEF Quiet, QuietReadSucceeds
<1>1. /\ account = first /\ first \in Account
      /\ page.pages > 0 /\ ~page.more /\ queue = {} /\ page.pages \in Nat
      /\ ListPage \in Nat /\ MaxPages \in Nat /\ ItemPage \in Nat
  BY ReadAssumption DEF Snapshots, ReaderTypes, ReaderStages, ReadAssumption, Page
<1>2. /\ Seen = DOMAIN first.lists
      /\ Cardinality(Seen) <= page.pages * ListPage /\ page.pages <= MaxPages
  BY <1>1 DEF Quiet, OuterFull
<1>3. Seen = DOMAIN lists
  BY <1>1 DEF Seen
<1>4. ~(Cardinality(DOMAIN first.lists) > ListPage * MaxPages)
  <2>1. page.pages * ListPage <= ListPage * MaxPages /\ page.pages * ListPage \in Nat
        /\ ListPage * MaxPages \in Nat
    BY <1>1, <1>2, TimesGrows
  <2>2. Cardinality(DOMAIN first.lists) \in Nat
    BY <1>1, AccountParts, FS_CardinalityType
  <2>3. QED
    BY <1>2, <2>1, <2>2
<1>5. ASSUME NEW l \in DOMAIN first.lists
      PROVE  ~(Cardinality(first.lists[l].items) > ItemPage * MaxPages)
  <2>1. Cardinality(first.lists[l].items) <= ItemPage * MaxPages
    BY <1>2, <1>3 DEF Quiet
  <2>2. Cardinality(first.lists[l].items) \in Nat
    BY <1>1, AccountParts, FS_CardinalityType
  <2>3. ItemPage * MaxPages \in Nat
    BY <1>1
  <2>4. QED
    BY <2>1, <2>2, <2>3
<1>6. QED
  BY <1>4, <1>5 DEF TooLong

SnapshotInv ==
    /\ ReaderTypes /\ ReaderStages /\ Facts(account) \subseteq ever
    /\ faults \in Nat /\ Snapshots /\ Quiet

LEMMA SnapshotInitially ==
    ASSUME ReadInit
    PROVE  SnapshotInv
<1>1. ReaderTypes /\ ReaderStages /\ Facts(account) \subseteq ever
  BY BracketInitially DEF BracketInv, OnceTrue
<1>2. Snapshots
  <2>1. OneApart(first, account)
    BY SameIsApart DEF ReadInit
  <2>2. QED
    BY <2>1 DEF ReadInit, Snapshots
<1>3. Quiet
  <2>1. MaxPages \in Nat /\ 0 <= MaxPages
    BY ReadAssumption DEF ReadAssumption
  <2>2. QED
    BY <2>1 DEF ReadInit, Quiet, OuterFull
<1>4. faults \in Nat
  BY DEF ReadInit
<1>5. QED
  BY <1>1, <1>2, <1>3, <1>4 DEF SnapshotInv

LEMMA SnapshotStep ==
    ASSUME SnapshotInv, [ReadNext]_readVars
    PROVE  SnapshotInv'
<1>1. CASE ReadNext
  <2>1. ReadSteps
    BY <1>1, NextSteps DEF SnapshotInv
  <2>2. Facts(account)' \subseteq ever'
    <3>1. CASE \E a : Commits(a) /\ Edited(a)
      BY <3>1 DEF Commits
    <3>2. CASE UNCHANGED <<account, ever>>
      BY <3>2 DEF SnapshotInv
    <3>3. QED
      BY <2>1, <3>1, <3>2 DEF ReadSteps, StarsRead, PageRead, ItemsRead, ListAccepted, PageEnded,
                              MetadataRead, ReadRefused, Refuse, owner
  <2>3. QED
    BY <2>1, <2>2, TypesStep, SnapshotsStep, QuietStep DEF SnapshotInv
<1>2. CASE UNCHANGED readVars
  <2>1. /\ ReaderTypes' /\ ReaderStages' /\ Facts(account)' \subseteq ever' /\ faults' \in Nat
    BY <1>2 DEF SnapshotInv, ReaderTypes, ReaderStages, readVars
  <2>a. UNCHANGED <<account, first, cursors, page, lists, queue, edits>>
    BY <1>2 DEF readVars
  <2>b. \A l, a : ListOf(l, a)' = ListOf(l, a)
    BY <2>a DEF ListOf
  <2>c. \A other, a : RawOf(other, a)' = RawOf(other, a)
    BY <2>a DEF RawOf, Got, After
  <2>d. \A a : IdsOf(a)' = IdsOf(a)
    BY <2>a DEF IdsOf, Seen
  <2>2. Snapshots'
    BY <2>a, <2>b, <2>c, <2>d DEF SnapshotInv, Snapshots
  <2>3. Quiet'
    BY <1>2 DEF SnapshotInv, Quiet, OuterFull, RawFull, Seen, After, readVars
  <2>4. QED
    BY <2>1, <2>2, <2>3 DEF SnapshotInv
<1>3. QED
  BY <1>1, <1>2

\* One edit at any instant of the read, whatever cursors mean: the Lists reported are
\* those from before it or those from after it, except that an edit of several Lists
\* may be seen in some of them and not in the others.
THEOREM EachListIsRead ==
    ReadSpec => []EachListIsASnapshot
<1>1. ReadInit => SnapshotInv
  BY SnapshotInitially
<1>2. SnapshotInv /\ [ReadNext]_readVars => SnapshotInv'
  BY SnapshotStep
<1>3. SnapshotInv => EachListIsASnapshot
  BY SnapshotsShow DEF SnapshotInv
<1>4. QED
  BY <1>1, <1>2, <1>3, PTL DEF ReadSpec

\* Left alone, read_curation_state is refused exactly where the account exceeds
\* MAX_GRAPHQL_PAGES.
THEOREM QuietReadsSucceed ==
    ReadSpec => []QuietReadSucceeds
<1>1. ReadInit => SnapshotInv
  BY SnapshotInitially
<1>2. SnapshotInv /\ [ReadNext]_readVars => SnapshotInv'
  BY SnapshotStep
<1>3. SnapshotInv => QuietReadSucceeds
  BY QuietShows DEF SnapshotInv
<1>4. QED
  BY <1>1, <1>2, <1>3, PTL DEF ReadSpec
=============================================================================
