------------------------------ MODULE ListRead ------------------------------
(***************************************************************************)
(* read_curation_state (github_lists.py): one logical read of an account   *)
(* made of many requests, while the owner goes on editing it.  First the   *)
(* stars, page after page; then the Lists, page after page, and for every  *)
(* List of a page the pages of its items; then the metadata of the         *)
(* repositories the projection wants and the account has not starred.      *)
(*                                                                         *)
(* GitHub is external.  A request sees the account of its own instant.     *)
(* The code treats cursors as opaque, so both things they may mean are     *)
(* modelled: "key" (after this element) and "offset" (after this many).    *)
(* Stars are paged by number, newest first (gh api --paginate --slurp).    *)
(* Lists and items are numbered in the order their connection sorts them;  *)
(* attributes other than a List's name do not change.                      *)
(***************************************************************************)
EXTENDS Naturals, FiniteSets, FiniteSetsExt, Sequences, SequencesExt, Selection

CONSTANTS
    Repos,      \* items that are repositories
    Unknown,    \* items of another type, of which only the type is kept
    ListIds,    \* node IDs of Lists
    Names,      \* names of Lists
    ListPage, ItemPage, StarPage,   \* elements per page
    MaxPages,   \* MAX_GRAPHQL_PAGES
    Accounts,   \* accounts a read may find
    MaxEdits,   \* bound: edits by the owner during the read
    MaxFaults   \* bound: requests that fail or answer outside the schema

ASSUME ReadAssumption ==
    /\ Repos \subseteq Nat \ {0} /\ Unknown \subseteq Nat \ {0}
    /\ ListIds \subseteq Nat \ {0}
    /\ Repos \cap Unknown = {}
    /\ {ListPage, ItemPage, StarPage, MaxPages} \subseteq Nat \ {0}
    /\ {MaxEdits, MaxFaults} \subseteq Nat

Items == Repos \cup Unknown

ListContents == [name : Names, items : SUBSET Items]

Account == [stars : Seq(Repos),
            lists : UNION {[ids -> ListContents] : ids \in SUBSET ListIds}]

ASSUME AccountsAssumption ==
    /\ IsFiniteSet(ListIds) /\ IsFiniteSet(Repos) /\ IsFiniteSet(Unknown)
    /\ Accounts \subseteq Account

VARIABLES
    account,    \* stars (newest first) and Lists as they are now
    first,      \* the account when the read began (history)
    ever,       \* facts true at some instant of the read (history)
    always,     \* facts true at every instant of the read (history)
    cursors,    \* what GitHub's cursors mean
    stage,      \* control state of the read
    starPage,   \* star pages read
    stars,      \* repositories read_starred collected
    lists,      \* the local `lists`: what was parsed, by node ID
    page,       \* the outer connection: expected total, cursor, pages read
    queue,      \* the Lists of the current page that are still to be parsed
    edits, faults

owner  == <<account, first, ever, always, cursors>>
reader == <<stage, starPage, stars, lists, page, queue>>
readVars == <<account, first, ever, always, cursors, stage, starPage, stars,
              lists, page, queue, edits, faults>>

-----------------------------------------------------------------------------
(* GitHub's connections. *)

AtMost(S, n) == {e \in S : Cardinality({x \in S : x <= e}) <= n}

\* The elements after a cursor; 0 stands for no cursor.
After(S, cursor) ==
    IF cursors = "key" THEN {e \in S : e > cursor}
    ELSE S \ AtMost(S, cursor)

Connection(S, cursor, size) ==
    LET rest  == After(S, cursor)
        nodes == AtMost(rest, size)
    IN  [nodes  |-> nodes,
         total  |-> Cardinality(S),
         more   |-> nodes # rest,
         cursor |-> IF cursors = "key" THEN Max(nodes \cup {0})
                   ELSE Cardinality(S \ rest) + Cardinality(nodes)]

\* A List as the outer query returns it: with the first page of its items.
RawList(l) ==
    LET items == Connection(account.lists[l].items, 0, ItemPage)
    IN  [id |-> l, name |-> account.lists[l].name, total |-> items.total,
         members |-> items.nodes \cap Repos,
         count   |-> Cardinality(items.nodes),
         unknown |-> Cardinality(items.nodes \cap Unknown),
         more |-> items.more, cursor |-> items.cursor, pages |-> 0]

-----------------------------------------------------------------------------
(* The owner.  Facts is what the account says, one element per fact the    *)
(* read is meant to report.                                                *)

StarFacts(a) == {<<"star", repo>> : repo \in Range(a.stars)}

Facts(a) ==
    StarFacts(a)
    \cup {<<"list", l, a.lists[l].name>> : l \in DOMAIN a.lists}
    \cup UNION {{<<"item", l, i>> : i \in a.lists[l].items \cap Repos} :
                    l \in DOMAIN a.lists}

\* The owner unstarring something is a fact of the read as well.
TakenBack(a) ==
    {<<"unstarred", repo>> : repo \in Range(account.stars) \ Range(a.stars)}

Commits(a) ==
    /\ stage \in {"stars", "lists", "items", "metadata"}
    /\ edits < MaxEdits
    /\ account' = a
    /\ ever' = ever \cup Facts(a) \cup TakenBack(a)
    /\ always' = always \cap Facts(a)
    /\ edits' = edits + 1
    /\ UNCHANGED <<first, cursors, reader, faults>>

OwnerStars ==
    \E repo \in Repos \ Range(account.stars) :
        Commits([account EXCEPT !.stars = <<repo>> \o @])

OwnerUnstars ==
    \E repo \in Range(account.stars) :
        Commits([account EXCEPT !.stars = Select(@, Repos \ {repo})])

\* updateUserListsForItem names every List an item is to be in: one commit may
\* take it out of several and put it into others.
Placed(contents, i, into) ==
    [l \in DOMAIN contents |->
        [contents[l] EXCEPT !.items = IF l \in into THEN @ \cup {i} ELSE @ \ {i}]]

OwnerEditsItems ==
    \E i \in Items, into \in SUBSET DOMAIN account.lists :
        /\ into # {l \in DOMAIN account.lists : i \in account.lists[l].items}
        /\ Commits([account EXCEPT !.lists = Placed(@, i, into)])

OwnerRenames ==
    \E l \in DOMAIN account.lists, name \in Names :
        /\ name # account.lists[l].name
        /\ Commits([account EXCEPT !.lists[l].name = name])

OwnerDeletes ==
    \E l \in DOMAIN account.lists :
        Commits([account EXCEPT !.lists =
            [m \in DOMAIN @ \ {l} |-> @[m]]])

\* Node IDs are never used twice.
OwnerCreates ==
    \E l \in ListIds, name \in Names :
        /\ \A known \in Names : <<"list", l, known>> \notin ever
        /\ Commits([account EXCEPT !.lists =
               [m \in DOMAIN @ \cup {l} |->
                   IF m = l THEN [name |-> name, items |-> {}] ELSE @[m]]])

OwnerActs == \/ OwnerStars \/ OwnerUnstars \/ OwnerEditsItems
             \/ OwnerRenames \/ OwnerDeletes \/ OwnerCreates

-----------------------------------------------------------------------------
(* The read.  Every raise ends it without a result. *)

\* The List being parsed; they are, in the order of the connection.
InHand == CHOOSE raw \in queue : \A other \in queue : raw.id <= other.id

Refuse ==
    /\ stage' = "refused"
    /\ UNCHANGED <<owner, starPage, stars, lists, page, queue, edits>>

\* A request that fails or times out, an answer outside its schema, a page
\* that repeats or omits its cursor, an answer of another account.
RequestFails ==
    /\ \/ stage \in {"stars", "lists", "metadata"}
       \/ stage = "items" /\ queue # {} /\ InHand.more
    /\ faults < MaxFaults
    /\ faults' = faults + 1
    /\ Refuse

\* Mutant: gh is called without --paginate.
ReadStarsOnce ==
    /\ stage = "stars"
    /\ stars' = {account.stars[n] :
                    n \in DOMAIN account.stars \cap 1 .. StarPage}
    /\ starPage' = 1
    /\ stage' = "lists"
    /\ UNCHANGED <<owner, lists, page, queue, edits, faults>>

\* client.starred() and read_starred: a repository that a shifted page
\* repeats is one repository; nothing declares how many there are.  (One that
\* was starred anew in between has two times of starring and is refused; it
\* takes more edits than the bound.)
ReadStars ==
    /\ stage = "stars"
    /\ LET upto == (starPage + 1) * StarPage
       IN  /\ stars' = stars \cup
                  {account.stars[n] : n \in DOMAIN account.stars
                                            \cap (upto - StarPage + 1) .. upto}
           /\ stage' = IF Len(account.stars) > upto THEN "stars" ELSE "lists"
    /\ starPage' = starPage + 1
    /\ UNCHANGED <<owner, lists, page, queue, edits, faults>>

\* read_user_lists: one page of Lists, refused when the total has changed.
ReadListPage ==
    /\ stage = "lists"
    /\ LET answer == Connection(DOMAIN account.lists, page.cursor, ListPage)
       IN  IF page.pages > 0 /\ answer.total # page.total
           THEN Refuse
           ELSE /\ page' = [total |-> answer.total, cursor |-> answer.cursor,
                            more |-> answer.more, pages |-> page.pages + 1]
                /\ queue' = {RawList(l) : l \in answer.nodes}
                /\ stage' = "items"
                /\ UNCHANGED <<owner, starPage, stars, lists, edits>>
    /\ UNCHANGED faults

\* Mutant: every page overwrites the total the read started from.
FollowLatestTotal(raw, answer) ==
    [raw EXCEPT !.members = @ \cup (answer.nodes \cap Repos),
                !.count = @ + Cardinality(answer.nodes),
                !.unknown = @ + Cardinality(answer.nodes \cap Unknown),
                !.total = answer.total,
                !.more = answer.more, !.cursor = answer.cursor,
                !.pages = @ + 1]

\* _parse_list: what a further page of items adds.  Elements are counted
\* before a repeated repository is dropped.
Follow(raw, answer) ==
    [raw EXCEPT !.members = @ \cup (answer.nodes \cap Repos),
                !.count = @ + Cardinality(answer.nodes),
                !.unknown = @ + Cardinality(answer.nodes \cap Unknown),
                !.more = answer.more, !.cursor = answer.cursor,
                !.pages = @ + 1]

\* Mutant: one page fewer than the limit allows.
PagesExhaustedEarly(pages) == pages >= MaxPages - 1

\* The `else` of both loops: all rounds were used up.
PagesExhausted(pages) == pages >= MaxPages

\* One further page of the items of the List being parsed; the List may be
\* gone by now, or hold another number of items.
ReadItemPage ==
    /\ stage = "items" /\ queue # {} /\ InHand.more
    /\ LET raw == InHand
           answer == Connection(account.lists[raw.id].items, raw.cursor, ItemPage)
           next == Follow(raw, answer)
       IN  IF \/ raw.id \notin DOMAIN account.lists
              \/ answer.total # next.total
              \/ PagesExhausted(next.pages)
           THEN Refuse
           ELSE /\ queue' = (queue \ {raw}) \cup {next}
                /\ UNCHANGED <<owner, stage, starPage, stars, lists, page, edits>>
    /\ UNCHANGED faults

Parsed(raw) ==
    [name |-> raw.name, members |-> raw.members, unknown |-> raw.unknown]

\* The end of _parse_list and its caller: the declared number of items, and
\* no other version of the same List on an earlier page.
AcceptList ==
    /\ stage = "items" /\ queue # {} /\ ~InHand.more
    /\ LET raw == InHand
       IN  IF \/ raw.total # raw.count
              \/ raw.id \in DOMAIN lists /\ lists[raw.id] # Parsed(raw)
           THEN Refuse
           ELSE /\ lists' = [l \in DOMAIN lists \cup {raw.id} |->
                                IF l = raw.id THEN Parsed(raw) ELSE lists[l]]
                /\ queue' = queue \ {raw}
                /\ UNCHANGED <<owner, stage, starPage, stars, page, edits>>
    /\ UNCHANGED faults

\* The page of Lists is parsed: on to the next one, or the totals must agree.
EndListPage ==
    /\ stage = "items" /\ queue = {}
    /\ IF page.more
       THEN IF PagesExhausted(page.pages) THEN Refuse
            ELSE /\ stage' = "lists"
                 /\ UNCHANGED <<owner, starPage, stars, lists, page, queue, edits>>
       ELSE IF page.total # Cardinality(DOMAIN lists) THEN Refuse
            ELSE /\ stage' = "metadata"
                 /\ UNCHANGED <<owner, starPage, stars, lists, page, queue, edits>>
    /\ UNCHANGED faults

\* Metadata of what is wanted and not starred; nothing the model keeps.
ReadMetadata ==
    /\ stage = "metadata"
    /\ stage' = "done"
    /\ UNCHANGED <<owner, starPage, stars, lists, page, queue, edits, faults>>

ReadNext == \/ ReadStars \/ ReadListPage \/ ReadItemPage \/ AcceptList
            \/ EndListPage \/ ReadMetadata \/ RequestFails
            \/ OwnerActs

\* "off" where another command runs.
ReadInit ==
    /\ account \in Accounts
    /\ first = account /\ ever = Facts(account) /\ always = Facts(account)
    /\ cursors \in {"key", "offset"}
    /\ stage \in {"off", "stars"} /\ starPage = 0 /\ stars = {} /\ lists = <<>>
    /\ page = [total |-> 0, cursor |-> 0, more |-> FALSE, pages |-> 0]
    /\ queue = {} /\ edits = 0 /\ faults = 0

ReadSpec == ReadInit /\ [][ReadNext]_readVars

-----------------------------------------------------------------------------
(* Properties. *)

\* What the finished read reports, fact by fact.
Reported ==
    {<<"star", repo>> : repo \in stars}
    \cup {<<"list", l, lists[l].name>> : l \in DOMAIN lists}
    \cup UNION {{<<"item", l, i>> : i \in lists[l].members} : l \in DOMAIN lists}

\* However the owner edits meanwhile, the read reports nothing that never was.
\* With cursors that name an element it reports every List and item that was
\* there all along; whatever they mean it reports every star, unless one was
\* taken back meanwhile and moved the others to an earlier page.
ReadIsBracketed ==
    stage = "done" =>
        /\ Reported \subseteq ever
        /\ cursors = "key" => {f \in always : f[1] # "star"} \subseteq Reported
        /\ (\A f \in ever : f[1] # "unstarred")
               => StarFacts(first) \subseteq Reported

\* The Lists an account state gives when nobody interferes.
ListsOf(a) ==
    [l \in DOMAIN a.lists |->
        [name |-> a.lists[l].name, members |-> a.lists[l].items \cap Repos,
         unknown |-> Cardinality(a.lists[l].items \cap Unknown)]]

\* One edit at any instant of a read, whatever cursors mean.  The Lists reported
\* are those from before it or those from after it; or the edit changed which
\* Lists an item is in and every List is as it was before or after, the read
\* having come between two it changed.  An edit of a single List therefore
\* always gives a snapshot, a move between Lists need not.
EachListIsASnapshot ==
    (stage = "done" /\ edits <= 1) =>
        LET before == ListsOf(first)
            after  == ListsOf(account)
        IN  \/ lists \in {before, after}
            \/ /\ DOMAIN lists = DOMAIN before /\ DOMAIN lists = DOMAIN after
               /\ \A l \in DOMAIN lists : lists[l] \in {before[l], after[l]}

\* An account nobody edits is read whole unless it exceeds the page limits.
TooLong(a) ==
    \/ Cardinality(DOMAIN a.lists) > ListPage * MaxPages
    \/ \E l \in DOMAIN a.lists :
           Cardinality(a.lists[l].items) > ItemPage * MaxPages

QuietReadSucceeds ==
    (edits = 0 /\ faults = 0) =>
        /\ stage = "refused" => TooLong(first)
        /\ stage = "done" => ~TooLong(first)
=============================================================================
