------------------------------ MODULE Imports ------------------------------
(***************************************************************************)
(* The import walkers: src/rlm/walkers/ts_imports.py for TypeScript and    *)
(* JavaScript, src/rlm/walkers/imports.py for Python.  Both answer for one *)
(* file what it imports and which files import it.                         *)
(*                                                                         *)
(* A path is the sequence of its names from the repository down, a name    *)
(* the sequence of its parts between dots: src/lib/index.ts is             *)
(* << <<"src">>, <<"lib">>, <<"index", "ts">> >>.  Of a text the walkers   *)
(* see                                                                     *)
(*   specs   the relative specifiers of a TypeScript file, each as the     *)
(*           path it comes to without regard to what exists;               *)
(*   words   names that occur in the text anywhere else;                   *)
(*   modules the modules a Python file imports, each the sequence of its   *)
(*           parts.  "from .m import x" gives <<"m">> like "import m": the *)
(*           walker does not look at the dots in front;                    *)
(*   parses  whether it is valid Python.                                   *)
(* specs and modules have each specifier and each module once, in the      *)
(* order of the walker.                                                    *)
(* A specifier is taken to end in the name it is about ("./" and "../"     *)
(* do not), and nothing to be a symbolic link.                             *)
(***************************************************************************)
EXTENDS Repository, SequencesExt

CONSTANTS
    Part,           \* parts of a name
    TsExtensions,   \* _TS_EXTENSIONS, in order
    SkipDirs,       \* directories ts_imports does not enter
    Endings,        \* pairs of names, the second an ending of the first
    MaxFiles        \* max_files of find_importers

PathName == Seq(Part) \ {<<>>}
Path     == Seq(PathName) \ {<<>>}

ASSUME ImportsAssumption ==
    /\ File \subseteq Path
    /\ TsExtensions \in Seq(Part)
    /\ {"index", "__init__", "py"} \subseteq Part
    /\ MaxFiles \in Nat

\* Texts say paths and modules of at least one name.
Readable(tree) ==
    \A g \in Files(tree) : tree[g].specs \in Seq(Path) /\ tree[g].modules \in Seq(PathName)

Dir(p)  == Front(p)
Name(p) == Last(p)

\* Path.stem and Path.suffix: the last part, if there are two, is the suffix.
Stem(p)   == IF Len(Name(p)) > 1 THEN Front(Name(p)) ELSE Name(p)
Suffix(p) == IF Len(Name(p)) > 1 THEN Last(Name(p)) ELSE ""

Extensions == {TsExtensions[i] : i \in DOMAIN TsExtensions}

FirstExisting(s, tree) ==
    LET there == {i \in DOMAIN s : Exists(s[i], tree)} IN
    IF there = {} THEN NoFile ELSE s[CHOOSE i \in there : \A j \in there : i <= j]

-----------------------------------------------------------------------------
(* ts_imports.py *)

\* with_suffix: a suffix that is there already is replaced, so "user.service"
\* is looked for as user.ts.
WithSuffix(p, e) == Append(Dir(p), Append(Stem(p), e))

IndexFile(p, e) == Append(p, <<"index", e>>)

\* The path itself, with each extension, and each index file in it.
Candidates(p) ==
    <<p>> \o [i \in DOMAIN TsExtensions |-> WithSuffix(p, TsExtensions[i])]
          \o [i \in DOMAIN TsExtensions |-> IndexFile(p, TsExtensions[i])]

ResolveSpecifier(p, tree) == FirstExisting(Candidates(p), tree)

\* One file for each specifier that resolves, so two may give the same file.
TsImports(t, tree) ==
    Keep([i \in DOMAIN t.specs |-> ResolveSpecifier(t.specs[i], tree)], File)

\* "target_stem in source", for a stem that is the beginning of a name.
Mentions(t, stem) ==
    \/ stem \in t.words
    \/ \E i \in DOMAIN t.specs : IsPrefix(stem, Name(t.specs[i]))

Skipped(g) == \E i \in DOMAIN g : i < Len(g) /\ g[i] \in SkipDirs

\* Mutant: the whole file name is looked for.
WorthParsingByName(g, target, tree) ==
    /\ Suffix(g) \in Extensions /\ ~Skipped(g)
    /\ g # target
    /\ Mentions(tree[g], Name(target))

WorthParsing(g, target, tree) ==
    /\ Suffix(g) \in Extensions /\ ~Skipped(g)
    /\ g # target
    /\ Mentions(tree[g], Stem(target))

ImportsTs(g, target, tree) ==
    \E i \in DOMAIN tree[g].specs : ResolveSpecifier(tree[g].specs[i], tree) = target

TsImporters(target, tree) ==
    {g \in Files(tree) : WorthParsing(g, target, tree) /\ ImportsTs(g, target, tree)}

-----------------------------------------------------------------------------
(* imports.py *)

Modules(t) == IF t.parses THEN t.modules ELSE <<>>

\* a.b is a/b.py or a/b/__init__.py, from the root of the repository.
ModulePath(m) == [i \in DOMAIN m |-> <<m[i]>>]
ModuleFiles(m) ==
    <<Append(Dir(ModulePath(m)), <<Last(m), "py">>),
      Append(ModulePath(m), <<"__init__", "py">>)>>

ModuleToFile(m, tree) == FirstExisting(ModuleFiles(m), tree)

PyImports(t, tree) ==
    Keep([i \in DOMAIN Modules(t) |-> ModuleToFile(Modules(t)[i], tree)], File)

ImportsPy(g, target, tree) ==
    \E i \in DOMAIN Modules(tree[g]) : ModuleToFile(Modules(tree[g])[i], tree) = target

\* mod.endswith(stem), for a stem of one part.
EndsWith(m, stem) ==
    stem = <<Last(m)>> \/ \E e \in Endings : e[1] = Last(m) /\ stem = <<e[2]>>

PyFiles(tree) == {f \in Files(tree) : Suffix(f) = "py"}

\* The files the scan reads before it has read max_files.
Scans(tree) ==
    {S \in SUBSET PyFiles(tree) :
        \/ Cardinality(S) = MaxFiles
        \/ S = PyFiles(tree) /\ Cardinality(S) < MaxFiles}

\* Any import with a name that ends like the file's: more than import it.
PyImporters(target, tree, scanned) ==
    {g \in scanned \ {target} :
        \E i \in DOMAIN Modules(tree[g]) : EndsWith(Modules(tree[g])[i], Stem(target))}

-----------------------------------------------------------------------------
(* Which walker: by the suffix of the active file. *)

IsTs(f) == Suffix(f) \in Extensions

OwnImports(f, tree) ==
    IF IsTs(f) THEN TsImports(tree[f], tree) ELSE PyImports(tree[f], tree)

\* The sets of importers the walker may come to.
FoundImporters(f, tree) ==
    IF IsTs(f) THEN {TsImporters(f, tree)}
    ELSE {PyImporters(f, tree, S) : S \in Scans(tree)}

\* The files of f's language that import f, as the walker itself resolves
\* imports.
TrueImporters(f, tree) ==
    IF IsTs(f)
    THEN {g \in Files(tree) \ {f} : Suffix(g) \in Extensions /\ ImportsTs(g, f, tree)}
    ELSE {g \in PyFiles(tree) \ {f} : ImportsPy(g, f, tree)}

\* Files that stand for their directory, of which importers say the name of
\* the directory.
IsPackage(f) == Stem(f) \in {<<"index">>, <<"__init__">>}
=============================================================================
