---------------------------- MODULE MCContextPack ----------------------------
(* Instances of PackOfRepo for TLC. *)
EXTENDS PackOfRepo

-----------------------------------------------------------------------------
(* Files *)

a      == << <<"a", "ts">> >>
aTests == << <<"a", "spec", "ts">> >>
lib    == << <<"lib">>, <<"index", "ts">> >>
dist   == << <<"dist">>, <<"d", "js">> >>
m      == << <<"m", "py">> >>
mym    == << <<"mym", "py">> >>
pkg    == << <<"pkg">>, <<"__init__", "py">> >>
notes  == << <<"notes", "md">> >>

Paths == {a, aTests, lib, dist, m, mym, pkg, notes}
CodePaths == Paths \ {notes}
Strings == STRING
Extension == <<"ts", "js">>
SkippedDirs == {<<"dist">>}
NoSeedFrom == {<<"dist">>}
Naturals0 == 0..30
NameEndings == {<<"mym", "m">>}

Empty == [specs |-> <<>>, words |-> {}, modules |-> <<>>, parses |-> TRUE,
          lines |-> 0, defs |-> <<>>, feeds |-> 0]

Plainly(n)     == [Empty EXCEPT !.lines = n, !.parses = FALSE]
Def(n, i, c)   == [name |-> n, kind |-> "function", top |-> TRUE,
                   first |-> i, last |-> i + 1, calls |-> c]
Inner(n, i)    == [Def(n, i, {}) EXCEPT !.top = FALSE, !.last = i]
With(defs, n)  == [Empty EXCEPT !.lines = n, !.defs = defs]

TreeOf(t) == [f \in Paths |-> IF f \in DOMAIN t THEN t[f] ELSE Absent]

Start(trees, hd, act, idx) ==
    [story |-> [i \in DOMAIN trees |-> [tree |-> trees[i], head |-> hd, added |-> {}]],
     active |-> act, index |-> idx]

-----------------------------------------------------------------------------
(* Many rankings of few texts: an active file that calls something or nothing, *)
(* code of no and of four lines, and a file not worth slicing; with and        *)
(* without changes since the last commit, with a file vanishing.               *)

RankTree(tm, ta) ==
    TreeOf(m :> tm @@ a :> ta @@ mym :> Plainly(4) @@ notes :> Plainly(4))

Caller == With(<<Def("h", 1, {"g"})>>, 4)

RankStarts ==
    {Start(<<RankTree(tm, ta)>>, hd, act, TRUE) :
        tm \in {Caller, Plainly(4)}, ta \in {Empty, Plainly(4)},
        hd \in {NoGit, RankTree(Caller, Empty)}, act \in {m}}
    \union {Start(<<RankTree(Caller, Plainly(4)), RankTree(Absent, Absent)>>, NoGit, m, TRUE)}
    \union {Start(<<RankTree(Caller, Plainly(4))>>, NoGit, NoFile, TRUE)}

-----------------------------------------------------------------------------
(* Many texts of one file: up to four definitions, named by the task, called,  *)
(* calling or neither, 3 or 4 lines apart, with and without a method of the    *)
(* caller's name, with and without a form feed.                                *)

Kinds == {"f", "g", "h", "k"}

Layout(names, gaps) ==
    LET first[i \in 1..Len(names)] ==
            IF i = 1 THEN 2 ELSE first[i - 1] + 2 + gaps[i - 1]
    IN [i \in DOMAIN names |-> Def(names[i], first[i], IF names[i] = "h" THEN {"g"} ELSE {})]

Layouts == UNION {{Layout(ns, gs) : ns \in [1..n -> Kinds], gs \in [1..(n - 1) -> {3, 4}]} :
                     n \in 1..4}

SliceStarts ==
    {Start(<<TreeOf(m :> [With(ds \o in, 20) EXCEPT !.feeds = fd])>>, NoGit, m, FALSE) :
        ds \in Layouts, in \in {<<>>, <<Inner("h", 3)>>}, fd \in {0, 1}}

-----------------------------------------------------------------------------
(* Import graphs: TypeScript files that say a, a.spec, ./lib or nothing of each *)
(* other; Python files that import m, mym, pkg or nothing; saves while the      *)
(* walkers are under way.                                                       *)

Says(ss) == [Plainly(1) EXCEPT !.specs = ss]

Specs == {<<>>, <<<< <<"a">> >>>>, <<<< <<"a", "spec">> >>>>, <<<< <<"lib">> >>>>,
          <<<< <<"a">> >>, << <<"a", "ts">> >>>>}

TsStarts ==
    {Start(<<TreeOf(a :> Says(s1) @@ aTests :> s2 @@ lib :> Says(s3) @@ dist :> Says(s4))>>,
           NoGit, act, FALSE) :
        s1 \in Specs, s2 \in {Absent, Says(<<<< <<"a">> >>>>), Says(<<<< <<"lib">> >>>>)},
        s3 \in Specs, s4 \in Specs, act \in {a, aTests, lib}}

Imports2(ms) == [Empty EXCEPT !.lines = 1, !.modules = ms]
ModuleLists == {<<>>, <<<<"m">>>>, <<<<"mym">>>>, <<<<"pkg">>>>, <<<<"m">>, <<"pkg">>>>}

PyStarts ==
    {Start(<<TreeOf(m :> Imports2(s1) @@ mym :> Imports2(s2) @@ pkg :> Imports2(s3))>>,
           NoGit, act, FALSE) :
        s1 \in ModuleLists, s2 \in ModuleLists, s3 \in ModuleLists, act \in {m, mym, pkg}}

\* The developer saves, adds, deletes and commits.
GitTree(tm, ta) == TreeOf(m :> tm @@ a :> ta @@ mym :> Imports2(<<<<"m">>>>))

GitStarts ==
    {[story |-> <<[tree |-> t1, head |-> h1, added |-> {}],
                  [tree |-> t2, head |-> h2, added |-> {}],
                  [tree |-> t2, head |-> t2, added |-> {}]>>, active |-> m, index |-> FALSE] :
        t1, t2, h1, h2 \in {GitTree(Caller, Absent), GitTree(Caller, Says(<<>>)),
                            GitTree(Imports2(<<<<"mym">>>>), Absent)}}

\* Work on a file and in a directory that does not seed: saved, new, added to
\* git, deleted, while walkers and index are at work.
SeedTree(ta, td) == TreeOf(m :> Plainly(1) @@ a :> ta @@ dist :> td)

SeedTrees == {SeedTree(ta, td) : ta \in {Absent, Empty, Plainly(2)}, td \in {Empty, Plainly(2)}}

SeedStarts ==
    {[story |-> <<[tree |-> t1, head |-> h, added |-> new],
                  [tree |-> t2, head |-> h, added |-> new]>>, active |-> m, index |-> TRUE] :
        t1, t2 \in SeedTrees, h \in {SeedTree(Empty, Empty), SeedTree(Absent, Empty)},
        new \in {{}, {a}}}

AllStarts == RankStarts \union SliceStarts \union TsStarts \union PyStarts \union GitStarts
             \union SeedStarts

\* No diff, a diff within a fifth of ten tokens, and three to be cut: to a
\* fifth, to four fifths, and not at all although it is over.
SomeDiffs == {[tokens |-> 0, density |-> 4], [tokens |-> 2, density |-> 4],
              [tokens |-> 9, density |-> 4], [tokens |-> 9, density |-> 1],
              [tokens |-> 4, density |-> 2]}
=============================================================================
