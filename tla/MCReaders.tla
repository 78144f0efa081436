----------------------------- MODULE MCReaders -----------------------------
(***************************************************************************)
(* The commands that read the world in many requests, one at a time: the   *)
(* read of an account, or the inspection of a project.                     *)
(***************************************************************************)
EXTENDS ListRead, Inspection

NoAccount == [stars |-> <<>>, lists |-> <<>>]

\* Up to two stars and one List, or no star and up to two Lists, of which the
\* second holds what a read of the first may have missed or seen already.
MCAccounts ==
    [stars : {SetToSortSeq(s, >) : s \in SUBSET Repos},
     lists : {<<[name |-> "x", items |-> {1}]>>}]
    \cup [stars : {<<>>},
          lists : {<<>>}
                  \cup {<<[name |-> "x", items |-> some]>> : some \in SUBSET Items}
                  \cup {<<[name |-> "x", items |-> some], [name |-> "x", items |-> others]>> :
                           some \in SUBSET Items, others \in SUBSET {1, 3}}]

\* Three directories in a row under the root, and a node_modules beside them.
Src == <<"src">>
Lib == <<"src", "lib">>
Deep == <<"src", "lib", "deep">>
Modules == <<"modules">>
MCDirectories == {Root, Src, Lib, Deep, Modules}

Tree(dirs, links, outer, files) ==
    [dirs |-> dirs, links |-> links, outer |-> outer, files |-> files]

NoTree == Tree({Root}, {}, {}, {})

MCTrees ==
    {Tree(dirs, {}, {}, files) :
        dirs \in {{Root, Src}, {Root, Src, Lib}, {Root, Src, Lib, Deep}, {Root, Modules}},
        files \in {{<<Root, "manifest">>}, {<<Root, "other">>},
                  {<<Root, "inner link">>, <<Root, "manifest">>},
                  {<<Root, "manifest">>, <<Root, "outer link">>}}}
    \cup {Tree({Root, Src, Lib}, links, outer, {<<Src, "manifest">>, <<Lib, "manifest">>}) :
            <<links, outer>> \in {<<{Lib}, {}>>, <<{Lib}, {Lib}>>, <<{Src}, {}>>,
                                  <<{Src}, {Src}>>, <<{Src, Lib}, {Lib}>>}}
    \cup {Tree({Root, Src, Modules}, {}, {},
               {<<Root, "manifest">>, <<Root, "other">>,
                <<Src, "manifest">>, <<Modules, "manifest">>}),
          Tree({Root, Src, Lib}, {}, {},
               {<<Root, "manifest">>, <<Src, "manifest">>, <<Lib, "manifest">>}),
          Tree({Root, Src}, {}, {},
               {<<Root, "manifest">>, <<Root, "other">>, <<Root, "inner link">>,
                <<Src, "other">>}),
          Tree({Root, Modules}, {Modules}, {Modules}, {<<Root, "manifest">>}),
          NoTree}

Claim(identity, license) == [identity |-> identity, license |-> license]

\* Every nesting of up to three components, agreeing or not.
MCDocuments ==
    UNION {[format : {"cyclonedx"},
            parent : {p \in [1 .. n -> 0 .. n - 1] :
                          \A m \in 1 .. n : p[m] < m},
            claim  : [1 .. n -> {Claim("p", "mit"), Claim("p", "gpl"),
                                 Claim("q", "mit")}]] : n \in 0 .. 3}
    \cup {[format |-> "other", parent |-> <<0>>, claim |-> <<Claim("p", "mit")>>]}

\* One of the two runs, on a tree or with a document.
PlainWalk == [target |-> "local", supplied |-> NoDocument]

Init ==
    /\ ReadInit
    /\ \/ stage = "stars" /\ step = "off" /\ job = PlainWalk /\ tree = NoTree
       \/ /\ stage = "off" /\ account = NoAccount /\ cursors = "key"
          /\ step \in {"repository", "walk"}
          /\ \/ job = PlainWalk /\ tree \in Trees
             \/ job \in Jobs \ {PlainWalk} /\ tree = NoTree
    /\ InspectInit

Next == \/ ReadNext /\ UNCHANGED inspectVars
        \/ InspectNext /\ UNCHANGED readVars

Spec == Init /\ [][Next]_<<readVars, inspectVars>>
=============================================================================
