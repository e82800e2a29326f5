-------------------------- MODULE PackOfRepoProofs --------------------------
(***************************************************************************)
(* Proofs about the pack of one request, in four parts: Imports,           *)
(* ContextPack, PackOfRepo that puts them together, and Symbols with the   *)
(* slices that PackOfRepo cuts.                                            *)
(* They hold for any trees, paths, texts, budgets, sizes and candidates,   *)
(* any stories of the developer, walker failures and moments of reading.   *)
(***************************************************************************)
EXTENDS PackOfRepo, SequenceTheorems, FiniteSetTheorems, WellFoundedInduction, TLAPS

-----------------------------------------------------------------------------
(***************************************************************************)
(* Imports: the search for importers by name loses none of them.           *)
(*                                                                         *)
(* A specifier can only resolve to a file with its own name, with its name *)
(* and another suffix, or to an index file.  In the first two cases the    *)
(* stem of the file is the beginning of what the text says; the third is   *)
(* the exception the walkers have.  In Python, a module of which the last  *)
(* part is the stem ends like it.                                          *)
(***************************************************************************)

(* The first candidate that exists *)

Less == {ss \in Nat \X Nat : ss[1] < ss[2]}

\* A set of positions has a first one.
LEMMA Least ==
    ASSUME NEW S \in SUBSET Nat, S # {}
    PROVE  \E x \in S : \A y \in S : x <= y
<1>1. IsWellFoundedOn(Less, Nat)
  BY NatLessThanWellFounded DEF OpToRel, Less
<1>2. PICK x \in S : \A y \in S : <<y, x>> \notin Less
  BY <1>1, WFMin
<1>3. ASSUME NEW y \in S PROVE x <= y
  <2>1. x \in Nat /\ y \in Nat /\ ~(<<y, x>> \in Less)
    BY <1>2
  <2>2. ~(y < x)
    BY <2>1 DEF Less
  <2>3. QED
    BY <2>1, <2>2
<1>4. QED
  BY <1>3

\* What is chosen of a list of paths is one of them, and exists.
LEMMA FirstIsOne ==
    ASSUME NEW s \in Seq(Path), NEW t, FirstExisting(s, t) \in File
    PROVE  \E i \in DOMAIN s : FirstExisting(s, t) = s[i]
<1> DEFINE there == {i \in DOMAIN s : Exists(s[i], t)}
<1>1. there # {}
  BY FileAssumption DEF FirstExisting
<1>2. there \in SUBSET Nat
  OBVIOUS
<1>3. \E i \in there : \A j \in there : i <= j
  <2> HIDE DEF there
  <2>1. QED
    BY <1>1, <1>2, Least
<1>4. (CHOOSE i \in there : \A j \in there : i <= j) \in there
  BY <1>3
<1>5. FirstExisting(s, t) = s[CHOOSE i \in there : \A j \in there : i <= j]
  BY <1>1 DEF FirstExisting
<1>6. QED
  BY <1>4, <1>5

-----------------------------------------------------------------------------
(* Paths *)

LEMMA NameIsName ==
    ASSUME NEW p \in Path
    PROVE  Name(p) \in PathName /\ Len(Name(p)) \in Nat \ {0}
BY DEF Name, Last, Path, PathName

\* The front of a sequence, and what a longer one starts with.
LEMMA FrontOf ==
    ASSUME NEW S, NEW n \in Seq(S), Len(n) > 1
    PROVE  /\ Front(n) \in Seq(S) /\ Front(n) # <<>> /\ Len(Front(n)) = Len(n) - 1
           /\ \A i \in 1..(Len(n) - 1) : Front(n)[i] = n[i]
<1>1. Len(n) \in Nat /\ 1 \in Int /\ Len(n) - 1 \in 1..Len(n)
  OBVIOUS
<1>2. /\ SubSeq(n, 1, Len(n) - 1) \in Seq(S)
      /\ Len(SubSeq(n, 1, Len(n) - 1)) = Len(n) - 1
      /\ \A i \in 1..(Len(n) - 1) : SubSeq(n, 1, Len(n) - 1)[i] = n[i]
  BY <1>1
<1>3. Len(Front(n)) # 0
  BY <1>1, <1>2 DEF Front
<1>4. Front(n) # <<>>
  BY <1>3
<1>5. QED
  BY <1>2, <1>4 DEF Front

LEMMA FrontOfAppend ==
    ASSUME NEW S, NEW s \in Seq(S), NEW e \in S
    PROVE  /\ Append(s, e) \in Seq(S) /\ Append(s, e) # <<>>
           /\ Len(Append(s, e)) = Len(s) + 1 /\ Len(s) \in Nat
           /\ Front(Append(s, e)) = s
<1>1. /\ Append(s, e) \in Seq(S) /\ Append(s, e) # <<>>
      /\ Len(Append(s, e)) = Len(s) + 1 /\ Len(s) \in Nat
  OBVIOUS
<1>2. Front(Append(s, e)) = SubSeq(Append(s, e), 1, Len(s))
  BY <1>1 DEF Front
<1>3. SubSeq(Append(s, e), 1, Len(s)) = s
  BY <1>1, SeqEqual
<1>4. QED
  BY <1>1, <1>2, <1>3

\* Tuples of one and two, as sequences.
LEMMA OneAndTwo ==
    ASSUME NEW S, NEW b \in S, NEW e \in S
    PROVE  <<b>> \in Seq(S) /\ <<b>> # <<>> /\ <<b, e>> = Append(<<b>>, e)
OBVIOUS

LEMMA FrontOfName ==
    ASSUME NEW n \in PathName, Len(n) > 1
    PROVE  /\ Front(n) \in PathName /\ Len(Front(n)) = Len(n) - 1
           /\ \A i \in 1..(Len(n) - 1) : Front(n)[i] = n[i]
<1>1. n \in Seq(Part)
  BY DEF PathName
<1>2. QED
  BY <1>1, FrontOf DEF PathName

\* A stem is the beginning of its name.
LEMMA StemBegins ==
    ASSUME NEW p \in Path
    PROVE  Stem(p) \in PathName /\ IsPrefix(Stem(p), Name(p))
<1>1. Name(p) \in PathName /\ Len(Name(p)) \in Nat \ {0}
  BY NameIsName
<1>2. CASE Len(Name(p)) > 1
  <2>1. Stem(p) = Front(Name(p))
    BY <1>2 DEF Stem
  <2> DEFINE n == Name(p)
  <2>2. n \in PathName /\ Len(n) \in Nat /\ Len(n) > 1
    BY <1>1, <1>2
  <2> HIDE DEF n
  <2>3. Front(n) \in PathName /\ IsPrefix(Front(n), n)
    <3>1. /\ Front(n) \in PathName /\ Len(Front(n)) = Len(n) - 1
          /\ \A i \in 1..(Len(n) - 1) : Front(n)[i] = n[i]
      BY <2>2, FrontOfName
    <3>2. n \in Seq(Part) /\ Front(n) \in Seq(Part)
      BY <2>2, <3>1 DEF PathName
    <3>3. SubSeq(Front(n), 1, Len(Front(n))) = Front(n)
      BY <3>2, SubSeqFull
    <3>4. SubSeq(n, 1, Len(Front(n))) = Front(n)
      BY <2>2, <3>1 DEF Front
    <3>5. QED
      BY <2>2, <3>1, <3>3, <3>4 DEF IsPrefix
  <2>4. QED
    BY <2>1, <2>3 DEF n
<1>3. CASE ~(Len(Name(p)) > 1)
  <2>1. Stem(p) = Name(p)
    BY <1>3 DEF Stem
  <2>2. Len(Name(p)) <= Len(Name(p))
    BY <1>1
  <2>3. QED
    BY <1>1, <2>1, <2>2 DEF IsPrefix
<1>4. QED
  BY <1>2, <1>3

\* Two paths with the same last name, have the same stem.
LEMMA NameOfAppend ==
    ASSUME NEW d \in Seq(PathName), NEW n \in PathName
    PROVE  Append(d, n) \in Path /\ Name(Append(d, n)) = n
BY DEF Name, Last, Path

\* A stem with a suffix put to it is the stem of the result.
LEMMA StemOfSuffixed ==
    ASSUME NEW s \in PathName, NEW e \in Part
    PROVE  /\ Append(s, e) \in PathName
           /\ Len(Append(s, e)) > 1
           /\ Front(Append(s, e)) = s
<1>1. s \in Seq(Part) /\ s # <<>>
  BY DEF PathName
<1>2. /\ Append(s, e) \in Seq(Part) /\ Append(s, e) # <<>>
      /\ Len(Append(s, e)) = Len(s) + 1 /\ Len(s) \in Nat
      /\ Front(Append(s, e)) = s
  BY <1>1, FrontOfAppend
<1>3. Len(s) # 0
  BY <1>1
<1>4. Len(Append(s, e)) > 1
  BY <1>2, <1>3
<1>5. QED
  BY <1>2, <1>4 DEF PathName

\* A name of two parts: the first is its stem.
LEMMA TwoIsName ==
    ASSUME NEW b \in Part, NEW e \in Part
    PROVE  /\ <<b, e>> \in PathName
           /\ Len(<<b, e>>) > 1 /\ Front(<<b, e>>) = <<b>>
<1>1. <<b>> \in Seq(Part) /\ <<b>> # <<>> /\ <<b, e>> = Append(<<b>>, e)
  BY OneAndTwo
<1>2. <<b>> \in PathName
  BY <1>1 DEF PathName
<1>3. QED
  BY <1>1, <1>2, StemOfSuffixed

LEMMA DirIsDir ==
    ASSUME NEW p \in Path
    PROVE  Dir(p) \in Seq(PathName)
BY DEF Dir, Front, Path

-----------------------------------------------------------------------------
(* TypeScript *)

\* What a specifier resolves to: the path itself, the path with another suffix,
\* or an index file in it.
LEMMA ResolvesTo ==
    ASSUME NEW p \in Path, NEW t, NEW f \in File, ResolveSpecifier(p, t) = f
    PROVE  \/ f = p
           \/ \E e \in Part : f = WithSuffix(p, e)
           \/ \E e \in Part : f = IndexFile(p, e)
<1> DEFINE n    == Len(TsExtensions)
           with == [i \in DOMAIN TsExtensions |-> WithSuffix(p, TsExtensions[i])]
           idx  == [i \in DOMAIN TsExtensions |-> IndexFile(p, TsExtensions[i])]
<1>1. \A i \in DOMAIN TsExtensions : TsExtensions[i] \in Part
  <2>1. TsExtensions \in Seq(Part)
    BY ImportsAssumption
  <2>2. QED
    BY <2>1, ElementOfSeq
<1>2. \A e \in Part : WithSuffix(p, e) \in Path /\ IndexFile(p, e) \in Path
  <2> SUFFICES ASSUME NEW e \in Part PROVE WithSuffix(p, e) \in Path /\ IndexFile(p, e) \in Path
    OBVIOUS
  <2>1. Dir(p) \in Seq(PathName) /\ Stem(p) \in PathName
    BY DirIsDir, StemBegins
  <2>2. Append(Stem(p), e) \in PathName
    BY <2>1, StemOfSuffixed
  <2>3. <<"index", e>> \in PathName
    BY ImportsAssumption, TwoIsName
  <2>4. p \in Seq(PathName)
    BY DEF Path
  <2>5. QED
    BY <2>1, <2>2, <2>3, <2>4, NameOfAppend DEF WithSuffix, IndexFile
<1>3. n \in Nat /\ DOMAIN TsExtensions = 1..n
  BY ImportsAssumption, LenProperties
<1>4. with \in Seq(Path) /\ idx \in Seq(Path) /\ <<p>> \in Seq(Path)
  <2>1. with \in [1..n -> Path] /\ idx \in [1..n -> Path]
    BY <1>1, <1>2, <1>3
  <2> HIDE DEF n, with, idx
  <2>2. QED
    BY <1>3, <2>1
<1>5. Candidates(p) = <<p>> \o with \o idx
  BY DEF Candidates
<1>6. PICK i \in DOMAIN Candidates(p) : f = Candidates(p)[i]
  <2>1. Candidates(p) \in Seq(Path)
    <3> HIDE DEF with, idx
    <3>1. QED
      BY <1>4, <1>5
  <2>2. QED
    BY <2>1, FirstIsOne DEF ResolveSpecifier
<1>7. \/ f = p
      \/ \E k \in DOMAIN with : f = with[k]
      \/ \E k \in DOMAIN idx : f = idx[k]
  <2> HIDE DEF with, idx
  <2>1. QED
    BY <1>4, <1>5, <1>6
<1>8. QED
  BY <1>1, <1>7

\* A path with another suffix has the stem it had.
LEMMA StemOfWithSuffix ==
    ASSUME NEW p \in Path, NEW e \in Part
    PROVE  Stem(WithSuffix(p, e)) = Stem(p)
<1>1. Dir(p) \in Seq(PathName) /\ Stem(p) \in PathName
  BY DirIsDir, StemBegins
<1>2. /\ Append(Stem(p), e) \in PathName /\ Len(Append(Stem(p), e)) > 1
      /\ Front(Append(Stem(p), e)) = Stem(p)
  BY <1>1, StemOfSuffixed
<1>3. Name(WithSuffix(p, e)) = Append(Stem(p), e)
  BY <1>1, <1>2, NameOfAppend DEF WithSuffix
<1>4. Stem(WithSuffix(p, e)) = Front(Append(Stem(p), e))
  BY <1>2, <1>3, Zenon DEF Stem
<1>5. QED
  BY <1>2, <1>4

\* A name of two parts has the first for its stem.
LEMMA StemOfTwo ==
    ASSUME NEW d \in Seq(PathName), NEW b \in Part, NEW e \in Part
    PROVE  Stem(Append(d, <<b, e>>)) = <<b>>
<1>1. /\ <<b, e>> \in PathName
      /\ Len(<<b, e>>) > 1 /\ Front(<<b, e>>) = <<b>>
  BY TwoIsName
<1>2. Name(Append(d, <<b, e>>)) = <<b, e>>
  BY <1>1, NameOfAppend
<1>3. QED
  BY <1>1, <1>2, Zenon DEF Stem

\* What resolves to a file that stands for itself says the stem of the file.
LEMMA SpecifierMentions ==
    ASSUME NEW p \in Path, NEW t, NEW f \in File, ~IsPackage(f),
           ResolveSpecifier(p, t) = f
    PROVE  IsPrefix(Stem(f), Name(p))
<1>1. CASE f = p
  BY <1>1, StemBegins
<1>2. ASSUME NEW e \in Part, f = WithSuffix(p, e)
      PROVE  IsPrefix(Stem(f), Name(p))
  BY <1>2, StemOfWithSuffix, StemBegins
<1>3. ASSUME NEW e \in Part, f = IndexFile(p, e)
      PROVE  FALSE
  <2>1. p \in Seq(PathName) /\ "index" \in Part
    BY ImportsAssumption DEF Path
  <2>2. Stem(f) = <<"index">>
    BY <1>3, <2>1, StemOfTwo DEF IndexFile
  <2>3. QED
    BY <2>2 DEF IsPackage
<1>4. QED
  BY <1>1, <1>2, <1>3, ResolvesTo

\* The search for the stem keeps every importer it is asked about.
LEMMA TsComplete ==
    ASSUME NEW t, Readable(t), NEW f \in File, ~IsPackage(f), IsTs(f),
           NEW g \in TrueImporters(f, t), ~Skipped(g)
    PROVE  g \in TsImporters(f, t)
<1>1. g \in Files(t) /\ g # f /\ Suffix(g) \in Extensions /\ ImportsTs(g, f, t)
  BY DEF TrueImporters
<1>2. PICK i \in DOMAIN t[g].specs : ResolveSpecifier(t[g].specs[i], t) = f
  BY <1>1 DEF ImportsTs
<1>3. t[g].specs[i] \in Path
  <2>1. t[g].specs \in Seq(Path)
    BY <1>1 DEF Readable
  <2>2. QED
    BY <2>1, ElementOfSeq
<1>4. IsPrefix(Stem(f), Name(t[g].specs[i]))
  BY <1>2, <1>3, SpecifierMentions
<1>5. Mentions(t[g], Stem(f))
  BY <1>4 DEF Mentions
<1>6. QED
  BY <1>1, <1>5 DEF TsImporters, WorthParsing

-----------------------------------------------------------------------------
(* Python *)

\* A module that is a file that stands for itself ends in its stem.
LEMMA ModuleEnds ==
    ASSUME NEW m \in PathName, NEW t, NEW f \in File, ~IsPackage(f),
           ModuleToFile(m, t) = f
    PROVE  EndsWith(m, Stem(f))
<1>1. {"__init__", "py"} \subseteq Part
  BY ImportsAssumption
<1>2. Len(m) \in Nat \ {0} /\ m \in [1..Len(m) -> Part]
  BY DEF PathName
<1>3. Last(m) \in Part
  BY <1>2 DEF Last
<1>4. ModulePath(m) \in Path
  <2>1. \A i \in 1..Len(m) : <<m[i]>> \in PathName
    BY <1>2, OneAndTwo DEF PathName
  <2>2. ModulePath(m) \in [1..Len(m) -> PathName]
    BY <1>2, <2>1 DEF ModulePath
  <2>3. QED
    BY <1>2, <2>2 DEF Path
<1>5. Dir(ModulePath(m)) \in Seq(PathName) /\ ModulePath(m) \in Seq(PathName)
  BY <1>4, DirIsDir DEF Path
<1>6. <<Last(m), "py">> \in PathName /\ <<"__init__", "py">> \in PathName
  BY <1>1, <1>3, TwoIsName
<1> DEFINE file == Append(Dir(ModulePath(m)), <<Last(m), "py">>)
           init == Append(ModulePath(m), <<"__init__", "py">>)
<1>7. file \in Path /\ init \in Path
  BY <1>5, <1>6, NameOfAppend
<1>8. f = file \/ f = init
  <2>1. ModuleFiles(m) = <<file, init>>
    BY DEF ModuleFiles
  <2> HIDE DEF file, init
  <2>2. ModuleFiles(m) \in Seq(Path)
    BY <1>7, <2>1
  <2>3. PICK i \in DOMAIN ModuleFiles(m) : f = ModuleFiles(m)[i]
    BY <2>2, FirstIsOne DEF ModuleToFile
  <2>4. QED
    BY <2>1, <2>3
<1>9. CASE f = file
  <2>1. Stem(f) = <<Last(m)>>
    BY <1>1, <1>3, <1>5, <1>9, StemOfTwo
  <2>2. QED
    BY <2>1 DEF EndsWith
<1>10. CASE f = init
  <2>1. Stem(f) = <<"__init__">>
    BY <1>1, <1>5, <1>10, StemOfTwo
  <2>2. QED
    BY <2>1 DEF IsPackage
<1>11. QED
  BY <1>8, <1>9, <1>10

\* A scan that is not cut short reads them all.
LEMMA ScanIsWhole ==
    ASSUME NEW t, NEW S \in Scans(t), Cardinality(PyFiles(t)) <= MaxFiles
    PROVE  S = PyFiles(t)
<1>1. IsFiniteSet(PyFiles(t))
  <2>1. PyFiles(t) \in SUBSET File
    BY DEF PyFiles, Files
  <2>2. QED
    BY <2>1, FileAssumption, FS_Subset
<1>2. S \in SUBSET PyFiles(t)
  BY DEF Scans
<1>3. CASE Cardinality(S) = MaxFiles
  <2>1. Cardinality(PyFiles(t)) \in Nat /\ Cardinality(S) <= Cardinality(PyFiles(t))
    BY <1>1, <1>2, FS_Subset, FS_CardinalityType
  <2>2. Cardinality(PyFiles(t)) = Cardinality(S)
    BY <1>3, <2>1, ImportsAssumption
  <2>3. QED
    BY <1>1, <1>2, <2>2, FS_Subset
<1>4. QED
  BY <1>3 DEF Scans

LEMMA PyComplete ==
    ASSUME NEW t, Readable(t), NEW f \in File, ~IsPackage(f), ~IsTs(f),
           NEW g \in TrueImporters(f, t)
    PROVE  g \in PyImporters(f, t, PyFiles(t))
<1>1. g \in PyFiles(t) \ {f} /\ g \in Files(t) /\ ImportsPy(g, f, t)
  BY DEF TrueImporters, PyFiles
<1>2. PICK i \in DOMAIN Modules(t[g]) : ModuleToFile(Modules(t[g])[i], t) = f
  BY <1>1 DEF ImportsPy
<1>3. Modules(t[g])[i] \in PathName
  <2>1. t[g].modules \in Seq(PathName)
    BY <1>1 DEF Readable
  <2>2. Modules(t[g]) \in Seq(PathName)
    BY <2>1, EmptySeq DEF Modules
  <2>3. QED
    BY <2>2, ElementOfSeq
<1>4. EndsWith(Modules(t[g])[i], Stem(f))
  BY <1>2, <1>3, ModuleEnds
<1>5. QED
  BY <1>1, <1>4 DEF PyImporters

-----------------------------------------------------------------------------

\* On any tree the walkers find every importer that they would resolve to the
\* file, in the directories they enter and if the scan is not cut short, unless
\* the file stands for its directory.
THEOREM ImportersNotLost ==
    ASSUME NEW t, Readable(t), NEW f \in File, ~IsPackage(f),
           IsTs(f) \/ Cardinality(PyFiles(t)) <= MaxFiles,
           NEW S \in FoundImporters(f, t),
           NEW g \in TrueImporters(f, t), IsTs(f) => ~Skipped(g)
    PROVE  g \in S
<1>1. CASE IsTs(f)
  BY <1>1, TsComplete DEF FoundImporters
<1>2. CASE ~IsTs(f)
  <2>1. PICK T \in Scans(t) : S = PyImporters(f, t, T)
    BY <1>2 DEF FoundImporters
  <2>2. T = PyFiles(t)
    BY <1>2, ScanIsWhole
  <2>3. QED
    BY <1>2, <2>1, <2>2, PyComplete
<1>3. QED
  BY <1>1, <1>2

\* For TypeScript they find no others.
LEMMA TsSound ==
    ASSUME NEW t, NEW f \in File, IsTs(f), NEW S \in FoundImporters(f, t)
    PROVE  S \subseteq TrueImporters(f, t)
BY DEF FoundImporters, TsImporters, TrueImporters, WorthParsing

-----------------------------------------------------------------------------
(***************************************************************************)
(* ContextPack.                                                            *)
(*                                                                         *)
(* What is still to come must fit to what is there: no candidate scores    *)
(* higher than a slice, and with the index none is a slice or announced    *)
(* already.  A slice is cut only when the budget is spent, and then none   *)
(* follows, so WithinBudget needs the types only.                          *)
(***************************************************************************)

FileSlice == [file : File, score : Nat, tokens : Nat, cut : BOOLEAN]

\* The active file has its 1.5 wherever it is.
ActiveHigh(r, a) == \A i \in DOMAIN r : r[i].file = a => r[i].score >= 15

\* Candidates and slices are one descending list.
Ordered ==
    /\ Sorted(todo) /\ ActiveHigh(todo, active)
    /\ Sorted(slices) /\ ActiveHigh(slices, active)
    /\ \A i \in DOMAIN slices, j \in DOMAIN todo : slices[i].score >= todo[j].score

\* Candidates, slices and announced files are different files.
Apart ==
    indexed =>
        /\ Distinct(todo) /\ Distinct(slices)
        /\ \A j \in DOMAIN todo : todo[j].file \notin deduped
        /\ \A i \in DOMAIN slices : slices[i].file \notin deduped
        /\ \A i \in DOMAIN slices, j \in DOMAIN todo : slices[i].file # todo[j].file

\* Before the slices there is nothing.
Fresh == pc \in {"header", "diff", "graph", "rank"} =>
             todo = <<>> /\ slices = <<>> /\ deduped = {}

IInv == TypeOK /\ Fresh /\ WithinBudget /\ Ordered /\ Apart

-----------------------------------------------------------------------------
(* Lemmas *)

\* Division by a number of characters to a token.
LEMMA Division ==
    ASSUME NEW n \in Nat, NEW d \in 1..4
    PROVE  n \div d \in Nat
<1>1. d = 1 \/ d = 2 \/ d = 3 \/ d = 4
  OBVIOUS
<1>2. n \div 1 \in Nat /\ n \div 2 \in Nat /\ n \div 3 \in Nat /\ n \div 4 \in Nat
  OBVIOUS
<1>3. QED
  BY <1>1, <1>2

\* A diff never gives tokens back.
LEMMA CutDiffNat ==
    ASSUME NEW d \in Diffs
    PROVE  CutDiff(d) \in Nat
<1>1. d.tokens \in Nat /\ d.density \in 1..4
  BY ConstantsAssumption
<1>2. DiffBudget * 4 \in Nat
  <2>1. TokenBudget \in Nat
    BY ConstantsAssumption
  <2>2. TokenBudget \div 5 \in Nat
    BY <2>1
  <2>3. QED
    BY <2>2 DEF DiffBudget
<1>3. (DiffBudget * 4) \div d.density \in Nat
  BY <1>1, <1>2, Division
<1>4. QED
  BY <1>1, <1>3 DEF CutDiff

\* The rest of a list: its elements are those from the second on.
LEMMA TailOf ==
    ASSUME NEW S, NEW s \in Seq(S), s # <<>>
    PROVE  /\ Head(s) \in S /\ Head(s) = s[1] /\ 1 \in DOMAIN s
           /\ Tail(s) \in Seq(S)
           /\ \A i \in DOMAIN Tail(s) :
                  i \in Nat /\ i >= 1 /\ i + 1 \in DOMAIN s /\ Tail(s)[i] = s[i + 1]
OBVIOUS

\* A list with one more: the old elements, and the new one at the end.
LEMMA AppendOf ==
    ASSUME NEW S, NEW s \in Seq(S), NEW e \in S
    PROVE  /\ Append(s, e) \in Seq(S) /\ Append(s, e) # <<>>
           /\ Len(Append(s, e)) = Len(s) + 1 /\ Len(s) \in Nat
           /\ \A i \in DOMAIN Append(s, e) :
                  \/ i \in DOMAIN s /\ i < Len(s) + 1 /\ Append(s, e)[i] = s[i]
                  \/ i = Len(s) + 1 /\ Append(s, e)[i] = e
OBVIOUS

-----------------------------------------------------------------------------
(* The slice that is taken *)

NewSlice(n) == [file |-> Head(todo).file, score |-> Head(todo).score,
                tokens |-> IF n > budget THEN budget ELSE n, cut |-> n > budget]

\* It is one, and all that TakeSlice adds.
LEMMA SliceTaken ==
    ASSUME TypeOK, NEW n \in Nat, TakeSlice(n)
    PROVE  /\ NewSlice(n) \in FileSlice
           /\ slices' = Append(slices, NewSlice(n))
           /\ todo # <<>> /\ todo' = Tail(todo)
           /\ budget \in Nat /\ budget > 0
           /\ budget' = IF n > budget THEN 0 ELSE budget - n
<1>1. todo # <<>> /\ todo \in Seq(Candidate) /\ budget \in Nat /\ budget > 0
  BY DEF TypeOK, TakeSlice, AtFile
<1>2. Head(todo) \in Candidate
  BY <1>1, TailOf
<1>3. Head(todo).file \in File /\ Head(todo).score \in Nat
  BY <1>2 DEF Candidate
<1>4. (IF n > budget THEN budget ELSE n) \in Nat
  BY <1>1
<1>5. (n > budget) \in BOOLEAN
  OBVIOUS
<1>6. NewSlice(n) \in FileSlice
  BY <1>3, <1>4, <1>5, Zenon DEF NewSlice, FileSlice
<1>7. slices' = Append(slices, NewSlice(n))
  BY Zenon DEF TakeSlice, NewSlice
<1>8. QED
  BY <1>1, <1>6, <1>7 DEF TakeSlice

\* What a step does to the lists: nothing, or it ranks, or it takes the first
\* candidate away, which is skipped, announced or sliced.
LEMMA StepKinds ==
    ASSUME TypeOK, [Next]_vars
    PROVE  \/ UNCHANGED <<active, indexed, todo, slices, deduped>>
           \/ RankFiles \/ SkipFile \/ DedupFile
           \/ \E n \in Nat : TakeSlice(n)
<1>1. CASE UNCHANGED vars
  BY <1>1 DEF vars
<1>2. ASSUME NEW h \in Headers, TakeHeader(h)
      PROVE  UNCHANGED <<active, indexed, todo, slices, deduped>>
  BY <1>2 DEF TakeHeader
<1>3. ASSUME NEW d \in Diffs, TakeDiff(d)
      PROVE  UNCHANGED <<active, indexed, todo, slices, deduped>>
  BY <1>3 DEF TakeDiff
<1>4. ASSUME NEW g \in Graphs, TakeGraph(g)
      PROVE  UNCHANGED <<active, indexed, todo, slices, deduped>>
  BY <1>4 DEF TakeGraph
<1>5. CASE ReadFails \/ Finish
  BY <1>5 DEF ReadFails, Finish
<1>6. ASSUME NEW n \in Sizes, TakeSlice(n)
      PROVE  \E k \in Nat : TakeSlice(k)
  <2>1. n \in Nat
    BY ConstantsAssumption
  <2>2. QED
    BY <1>6, <2>1
<1>7. QED
  BY <1>1, <1>2, <1>3, <1>4, <1>5, <1>6 DEF Next

-----------------------------------------------------------------------------
(* Types *)

LEMMA TypeInit == Init => TypeOK
BY ConstantsAssumption DEF Init, TypeOK, Candidate

LEMMA TypeStep == TypeOK /\ [Next]_vars => TypeOK'
<1> SUFFICES ASSUME TypeOK, [Next]_vars PROVE TypeOK'
  OBVIOUS
<1> USE DEF TypeOK
<1>1. ASSUME NEW h \in Headers, TakeHeader(h) PROVE TypeOK'
  <2>1. h \in Nat
    BY ConstantsAssumption
  <2>2. budget' \in Int /\ budget' <= TokenBudget
    BY <1>1, <2>1, ConstantsAssumption DEF TakeHeader
  <2>3. QED
    BY <1>1, <2>2 DEF TakeHeader
<1>2. ASSUME NEW d \in Diffs, TakeDiff(d) PROVE TypeOK'
  <2>1. budget' \in Int /\ budget' <= TokenBudget
    BY <1>2, CutDiffNat, ConstantsAssumption DEF TakeDiff
  <2>2. QED
    BY <1>2, <2>1 DEF TakeDiff
<1>3. ASSUME NEW g \in Graphs, TakeGraph(g) PROVE TypeOK'
  <2>1. g \in Nat
    BY ConstantsAssumption
  <2>2. budget' \in Int /\ budget' <= TokenBudget
    BY <1>3, <2>1, ConstantsAssumption DEF TakeGraph
  <2>3. QED
    BY <1>3, <2>2 DEF TakeGraph
<1>4. CASE RankFiles
  BY <1>4 DEF RankFiles
<1>5. CASE SkipFile
  <2>1. todo' \in Seq(Candidate)
    BY <1>5, TailOf DEF SkipFile, AtFile
  <2>2. QED
    BY <1>5, <2>1 DEF SkipFile
<1>6. CASE DedupFile
  <2>1. todo' \in Seq(Candidate)
    BY <1>6, TailOf DEF DedupFile, AtFile
  <2>2. deduped' \subseteq Code
    BY <1>6 DEF DedupFile
  <2>3. QED
    BY <1>6, <2>1, <2>2 DEF DedupFile
<1>7. ASSUME NEW n \in Sizes, TakeSlice(n) PROVE TypeOK'
  <2>1. n \in Nat
    BY ConstantsAssumption
  <2>2. todo' \in Seq(Candidate)
    BY <1>7, <2>1, SliceTaken, TailOf
  <2>3. slices' \in Seq(FileSlice)
    <3>1. NewSlice(n) \in FileSlice /\ slices' = Append(slices, NewSlice(n))
      BY <1>7, <2>1, SliceTaken
    <3>2. slices \in Seq(FileSlice)
      BY Zenon DEF FileSlice
    <3>3. QED
      BY <3>1, <3>2, AppendOf, Zenon
  <2>4. budget' \in Int /\ budget' <= TokenBudget
    BY <1>7, <2>1, SliceTaken, ConstantsAssumption
  <2>5. QED
    BY <1>7, <2>2, <2>3, <2>4 DEF TakeSlice, FileSlice
<1>8. CASE ReadFails
  BY <1>8 DEF ReadFails
<1>9. CASE Finish
  BY <1>9 DEF Finish
<1>10. CASE UNCHANGED vars
  BY <1>10 DEF vars
<1>11. QED
  BY <1>1, <1>2, <1>3, <1>4, <1>5, <1>6, <1>7, <1>8, <1>9, <1>10 DEF Next

\* Types hold in every reachable state: the budget never exceeds what it was, no
\* slice has a negative size, and only code is announced.
THEOREM TypeCorrect == Spec => []TypeOK
BY TypeInit, TypeStep, PTL DEF Spec

-----------------------------------------------------------------------------
(* Fresh: the lists are empty until the files are ranked. *)

LEMMA FreshStep == TypeOK /\ Fresh /\ [Next]_vars => Fresh'
<1> SUFFICES ASSUME TypeOK, Fresh, [Next]_vars PROVE Fresh'
  OBVIOUS
<1>1. ASSUME NEW h \in Headers, TakeHeader(h) PROVE Fresh'
  BY <1>1 DEF Fresh, TakeHeader
<1>2. ASSUME NEW d \in Diffs, TakeDiff(d) PROVE Fresh'
  BY <1>2 DEF Fresh, TakeDiff
<1>3. ASSUME NEW g \in Graphs, TakeGraph(g) PROVE Fresh'
  BY <1>3 DEF Fresh, TakeGraph
<1>4. CASE RankFiles
  BY <1>4 DEF Fresh, RankFiles
<1>5. CASE SkipFile
  BY <1>5 DEF Fresh, SkipFile, AtFile
<1>6. CASE DedupFile
  BY <1>6 DEF Fresh, DedupFile, AtFile
<1>7. ASSUME NEW n \in Sizes, TakeSlice(n) PROVE Fresh'
  BY <1>7 DEF Fresh, TakeSlice, AtFile
<1>8. CASE ReadFails
  BY <1>8 DEF Fresh, ReadFails
<1>9. CASE Finish
  BY <1>9 DEF Fresh, Finish
<1>10. CASE UNCHANGED vars
  BY <1>10 DEF Fresh, vars
<1>11. QED
  BY <1>1, <1>2, <1>3, <1>4, <1>5, <1>6, <1>7, <1>8, <1>9, <1>10 DEF Next

-----------------------------------------------------------------------------
(* The budget *)

LEMMA WithinInit == Init => WithinBudget
BY DEF Init, WithinBudget

LEMMA WithinStep == TypeOK /\ Fresh /\ WithinBudget /\ [Next]_vars => WithinBudget'
<1> SUFFICES ASSUME TypeOK, Fresh, WithinBudget, [Next]_vars PROVE WithinBudget'
  OBVIOUS
\* Nothing, or a budget and slices that stay as they are.
<1>1. ASSUME slices' = <<>> PROVE WithinBudget'
  BY <1>1 DEF WithinBudget
<1>2. ASSUME slices' = slices, budget' = budget PROVE WithinBudget'
  BY <1>2, Zenon DEF WithinBudget, TokenCount
<1>3. ASSUME NEW h \in Headers, TakeHeader(h) PROVE WithinBudget'
  BY <1>1, <1>3 DEF TakeHeader, Fresh
<1>4. ASSUME NEW d \in Diffs, TakeDiff(d) PROVE WithinBudget'
  BY <1>1, <1>4 DEF TakeDiff, Fresh
<1>5. ASSUME NEW g \in Graphs, TakeGraph(g) PROVE WithinBudget'
  BY <1>1, <1>5 DEF TakeGraph, Fresh
<1>6. CASE RankFiles
  BY <1>2, <1>6 DEF RankFiles
<1>7. CASE SkipFile
  BY <1>2, <1>7 DEF SkipFile
<1>8. CASE DedupFile
  BY <1>2, <1>8 DEF DedupFile
<1>9. ASSUME NEW n \in Sizes, TakeSlice(n) PROVE WithinBudget'
  <2>1. n \in Nat
    BY ConstantsAssumption
  <2> DEFINE e == NewSlice(n)
  <2>2. /\ e \in FileSlice /\ slices' = Append(slices, e)
        /\ budget \in Nat /\ budget > 0
        /\ budget' = IF n > budget THEN 0 ELSE budget - n
    BY <1>9, <2>1, SliceTaken
  <2>3. e.cut => n > budget
    BY Zenon DEF NewSlice
  <2> HIDE DEF e
  <2>4. e.cut => budget' = 0
    <3>1. n > budget => budget' = 0
      BY <2>2
    <3>2. QED
      BY <3>1, <2>3, Zenon
  \* The slices there were are whole: there was budget left.
  <2>5. \A i \in DOMAIN slices : ~slices[i].cut
    <3>1. budget # 0
      BY <2>2
    <3>2. \A i \in DOMAIN slices : slices # <<>>
      OBVIOUS
    <3>3. TokenBudget - budget = TokenBudget => budget = 0
      BY <2>2, ConstantsAssumption
    <3>4. QED
      BY <3>1, <3>2, <3>3, Zenon DEF WithinBudget, TokenCount
  <2>6. slices \in Seq(FileSlice)
    BY Zenon DEF TypeOK, FileSlice
  <2>7. /\ Len(slices') = Len(slices) + 1
        /\ \A i \in DOMAIN slices' :
              \/ i \in DOMAIN slices /\ slices'[i] = slices[i]
              \/ i = Len(slices) + 1 /\ slices'[i] = e
    BY <2>2, <2>6, AppendOf, Zenon
  <2>8. \A i \in DOMAIN slices' : slices'[i].cut => i = Len(slices') /\ budget' = 0
    BY <2>4, <2>5, <2>7, Zenon
  <2>9. TypeOK'
    BY TypeStep
  <2>10. TokenBudget \in Int /\ budget' \in Int
    BY <2>9, ConstantsAssumption DEF TypeOK
  <2>11. /\ TokenBudget - budget' <= TokenBudget
         /\ budget' = 0 => TokenBudget - budget' = TokenBudget
    BY <2>1, <2>2, <2>10
  <2>12. QED
    BY <2>8, <2>11, Zenon DEF WithinBudget, TokenCount
<1>10. CASE ReadFails
  BY <1>2, <1>10 DEF ReadFails
<1>11. CASE Finish
  BY <1>2, <1>11 DEF Finish
<1>12. CASE UNCHANGED vars
  BY <1>2, <1>12 DEF vars
<1>13. QED
  BY <1>3, <1>4, <1>5, <1>6, <1>7, <1>8, <1>9, <1>10, <1>11, <1>12 DEF Next

\* No slice goes in on credit, and only the last one is cut, whatever the fixed
\* parts took, for any budget, files and sizes.
THEOREM NoCredit == Spec => []WithinBudget
<1>1. Init => TypeOK /\ Fresh /\ WithinBudget
  BY TypeInit, WithinInit DEF Init, Fresh
<1>2. TypeOK /\ Fresh /\ WithinBudget /\ [Next]_vars => (TypeOK /\ Fresh /\ WithinBudget)'
  BY TypeStep, FreshStep, WithinStep
<1>3. QED
  BY <1>1, <1>2, PTL DEF Spec

-----------------------------------------------------------------------------
(* The order, and no file twice *)

LEMMA ListsInit == Init => Ordered /\ Apart
BY DEF Init, Ordered, Apart, Sorted, ActiveHigh, Distinct

\* What is left of a list is ordered and distinct like the list.
LEMMA RestInherits ==
    ASSUME TypeOK, todo # <<>>
    PROVE  /\ Sorted(todo) => Sorted(Tail(todo))
           /\ ActiveHigh(todo, active) => ActiveHigh(Tail(todo), active)
           /\ Distinct(todo) => Distinct(Tail(todo))
<1>1. todo \in Seq(Candidate)
  BY DEF TypeOK
<1>2. \A i \in DOMAIN Tail(todo) :
          i \in Nat /\ i + 1 \in DOMAIN todo /\ Tail(todo)[i] = todo[i + 1]
  BY <1>1, TailOf
<1>3. Sorted(todo) => Sorted(Tail(todo))
  BY <1>2 DEF Sorted
<1>4. ActiveHigh(todo, active) => ActiveHigh(Tail(todo), active)
  BY <1>2 DEF ActiveHigh
<1>5. Distinct(todo) => Distinct(Tail(todo))
  BY <1>2 DEF Distinct
<1>6. QED
  BY <1>3, <1>4, <1>5

\* The first candidate is different from the rest, and scores at least as high.
LEMMA FirstAndRest ==
    ASSUME TypeOK, todo # <<>>, NEW j \in DOMAIN Tail(todo)
    PROVE  /\ j + 1 \in DOMAIN todo /\ Tail(todo)[j] = todo[j + 1]
           /\ 1 \in DOMAIN todo /\ Head(todo) = todo[1]
           /\ Sorted(todo) => Head(todo).score >= Tail(todo)[j].score
           /\ Distinct(todo) => Head(todo).file # Tail(todo)[j].file
<1>1. todo \in Seq(Candidate)
  BY DEF TypeOK
<1>2. /\ j \in Nat /\ j >= 1 /\ j + 1 \in DOMAIN todo /\ Tail(todo)[j] = todo[j + 1]
      /\ 1 \in DOMAIN todo /\ Head(todo) = todo[1]
  BY <1>1, TailOf
<1>3. Sorted(todo) => todo[1].score >= todo[j + 1].score
  BY <1>2 DEF Sorted
<1>4. Distinct(todo) => todo[1].file # todo[j + 1].file
  <2>1. j + 1 # 1
    BY <1>2
  <2>2. QED
    BY <1>2, <2>1 DEF Distinct
<1>5. QED
  BY <1>2, <1>3, <1>4

\* The slices after TakeSlice: those before, and one with file and score of the
\* first candidate.
LEMMA SlicesAfter ==
    ASSUME TypeOK, NEW n \in Nat, TakeSlice(n)
    PROVE  \A i \in DOMAIN slices' :
               \/ i \in DOMAIN slices /\ i < Len(slices') /\ slices'[i] = slices[i]
               \/ /\ i = Len(slices')
                  /\ slices'[i].file = Head(todo).file
                  /\ slices'[i].score = Head(todo).score
<1>1. /\ NewSlice(n) \in FileSlice
      /\ slices' = Append(slices, NewSlice(n))
  BY SliceTaken
<1>2. slices \in Seq(FileSlice)
  BY Zenon DEF TypeOK, FileSlice
<1>3. NewSlice(n).file = Head(todo).file /\ NewSlice(n).score = Head(todo).score
  BY Zenon DEF NewSlice
<1>4. QED
  BY <1>1, <1>2, <1>3, AppendOf, Zenon

LEMMA OrderedStep == TypeOK /\ Fresh /\ Ordered /\ [Next]_vars => Ordered'
<1> SUFFICES ASSUME TypeOK, Fresh, Ordered, [Next]_vars PROVE Ordered'
  OBVIOUS
<1> USE DEF Ordered
<1>1. CASE UNCHANGED <<active, indexed, todo, slices, deduped>>
  BY <1>1 DEF Sorted, ActiveHigh
<1>2. CASE RankFiles
  <2>1. slices' = <<>> /\ active' = active
    BY <1>2 DEF RankFiles, Fresh
  <2>2. Sorted(todo') /\ ActiveHigh(todo', active')
    BY <1>2 DEF RankFiles, ActiveHigh
  <2>3. QED
    BY <2>1, <2>2 DEF Sorted, ActiveHigh
<1>3. CASE SkipFile \/ DedupFile
  <2>1. /\ todo # <<>> /\ todo' = Tail(todo) /\ slices' = slices /\ active' = active
    BY <1>3 DEF SkipFile, DedupFile, AtFile
  <2>2. Sorted(todo') /\ ActiveHigh(todo', active')
    BY <2>1, RestInherits DEF ActiveHigh
  <2>3. Sorted(slices') /\ ActiveHigh(slices', active')
    BY <2>1 DEF ActiveHigh
  <2>4. \A i \in DOMAIN slices', j \in DOMAIN todo' : slices'[i].score >= todo'[j].score
    BY <2>1, FirstAndRest
  <2>5. QED
    BY <2>2, <2>3, <2>4
<1>4. ASSUME NEW n \in Nat, TakeSlice(n) PROVE Ordered'
  <2>1. todo # <<>> /\ todo' = Tail(todo) /\ active' = active
    BY <1>4 DEF TakeSlice, AtFile
  <2>2. Sorted(todo') /\ ActiveHigh(todo', active')
    BY <2>1, RestInherits DEF ActiveHigh
  <2>3. 1 \in DOMAIN todo /\ Head(todo) = todo[1]
    BY <2>1, TailOf DEF TypeOK
  <2>4. \A i \in DOMAIN slices' :
            \/ i \in DOMAIN slices /\ i < Len(slices') /\ slices'[i] = slices[i]
            \/ /\ i = Len(slices')
               /\ slices'[i].file = Head(todo).file
               /\ slices'[i].score = Head(todo).score
    BY <1>4, SlicesAfter
  <2>5. Sorted(slices')
    <3> SUFFICES ASSUME NEW i \in DOMAIN slices', NEW j \in DOMAIN slices', i < j
                 PROVE  slices'[i].score >= slices'[j].score
      BY DEF Sorted
    <3>1. i \in Int /\ j \in Int /\ i < Len(slices') /\ Len(slices') \in Int
      <4>1. slices' \in Seq(FileSlice)
        BY TypeStep, Zenon DEF TypeOK, FileSlice
      <4>2. QED
        BY <4>1
    <3>2. i \in DOMAIN slices /\ slices'[i] = slices[i]
      BY <2>4, <3>1
    <3>3. CASE j \in DOMAIN slices /\ slices'[j] = slices[j]
      BY <3>2, <3>3 DEF Sorted
    <3>4. CASE slices'[j].score = Head(todo).score
      BY <2>3, <3>2, <3>4
    <3>5. QED
      BY <2>4, <3>3, <3>4
  <2>6. ActiveHigh(slices', active')
    BY <2>1, <2>3, <2>4 DEF ActiveHigh
  <2>7. ASSUME NEW i \in DOMAIN slices', NEW j \in DOMAIN todo'
        PROVE  slices'[i].score >= todo'[j].score
    BY <2>1, <2>4, FirstAndRest
  <2>8. QED
    BY <2>2, <2>5, <2>6, <2>7
<1>5. QED
  BY <1>1, <1>2, <1>3, <1>4, StepKinds

LEMMA ApartStep == TypeOK /\ Fresh /\ Apart /\ [Next]_vars => Apart'
<1> SUFFICES ASSUME TypeOK, Fresh, Apart, [Next]_vars, indexed' PROVE Apart'
  BY DEF Apart
<1> USE DEF Apart
<1>1. CASE UNCHANGED <<active, indexed, todo, slices, deduped>>
  BY <1>1 DEF Distinct
<1>2. CASE RankFiles
  <2>1. slices' = <<>> /\ deduped' = {} /\ indexed
    BY <1>2 DEF RankFiles, Fresh
  <2>2. Distinct(todo')
    BY <1>2, <2>1 DEF RankFiles
  <2>3. QED
    BY <2>1, <2>2 DEF Distinct
<1>3. CASE SkipFile
  <2>1. todo # <<>> /\ todo' = Tail(todo) /\ slices' = slices /\ deduped' = deduped /\ indexed
    BY <1>3 DEF SkipFile, AtFile
  <2>2. Distinct(todo')
    BY <2>1, RestInherits
  <2>3. QED
    BY <2>1, <2>2, FirstAndRest
<1>4. CASE DedupFile
  <2>1. /\ todo # <<>> /\ todo' = Tail(todo) /\ slices' = slices /\ indexed
        /\ deduped' = deduped \union {Head(todo).file}
    BY <1>4 DEF DedupFile, AtFile
  <2>2. Distinct(todo')
    BY <2>1, RestInherits
  <2>3. 1 \in DOMAIN todo /\ Head(todo) = todo[1]
    BY <2>1, TailOf DEF TypeOK
  <2>4. QED
    BY <2>1, <2>2, <2>3, FirstAndRest
<1>5. ASSUME NEW n \in Nat, TakeSlice(n) PROVE Apart'
  <2>1. todo # <<>> /\ todo' = Tail(todo) /\ deduped' = deduped /\ indexed
    BY <1>5 DEF TakeSlice, AtFile
  <2>2. Distinct(todo')
    BY <2>1, RestInherits
  <2>3. 1 \in DOMAIN todo /\ Head(todo) = todo[1]
    BY <2>1, TailOf DEF TypeOK
  <2>4. \A i \in DOMAIN slices' :
            \/ i \in DOMAIN slices /\ i < Len(slices') /\ slices'[i] = slices[i]
            \/ /\ i = Len(slices')
               /\ slices'[i].file = Head(todo).file
               /\ slices'[i].score = Head(todo).score
    BY <1>5, SlicesAfter
  <2>5. Distinct(slices')
    BY <2>1, <2>3, <2>4 DEF Distinct
  <2>6. \A j \in DOMAIN todo' : todo'[j].file \notin deduped'
    BY <2>1, FirstAndRest
  <2>7. \A i \in DOMAIN slices' : slices'[i].file \notin deduped'
    BY <2>1, <2>3, <2>4
  <2>8. ASSUME NEW i \in DOMAIN slices', NEW j \in DOMAIN todo'
        PROVE  slices'[i].file # todo'[j].file
    BY <2>1, <2>4, FirstAndRest
  <2>9. QED
    BY <2>2, <2>5, <2>6, <2>7, <2>8
<1>6. QED
  BY <1>1, <1>2, <1>3, <1>4, <1>5, StepKinds

LEMMA Inductive ==
    /\ Init => IInv
    /\ IInv /\ [Next]_vars => IInv'
<1>1. Init => Fresh
  BY DEF Init, Fresh
<1>2. QED
  BY <1>1, TypeInit, WithinInit, ListsInit,
     TypeStep, FreshStep, WithinStep, OrderedStep, ApartStep DEF IInv

\* The pack goes by descending score with the active file early, for any ranking
\* of any length.
THEOREM InOrder == Spec => []RankOrder
<1>1. IInv => RankOrder
  <2> SUFFICES ASSUME TypeOK, Ordered, NEW i \in DOMAIN slices, NEW j \in DOMAIN slices, i < j
               PROVE  /\ slices[i].score >= slices[j].score
                      /\ slices[j].file = active => slices[i].score >= 15
    BY DEF IInv, RankOrder
  <2>1. slices[i].score \in Nat /\ slices[j].score \in Nat
    <3>1. slices \in Seq(FileSlice)
      BY Zenon DEF TypeOK, FileSlice
    <3>2. slices[i] \in FileSlice /\ slices[j] \in FileSlice
      BY <3>1
    <3>3. QED
      BY <3>2 DEF FileSlice
  <2>2. QED
    BY <2>1 DEF Ordered, Sorted, ActiveHigh
<1>2. QED
  BY <1>1, Inductive, PTL DEF Spec

\* With a ranking of the index no file is carried twice, and none is both carried
\* and announced, whatever the session answers.
THEOREM NoneTwice == Spec => []CarriedOnce
<1>1. IInv => CarriedOnce
  BY DEF IInv, Apart, CarriedOnce, Distinct
<1>2. QED
  BY <1>1, Inductive, PTL DEF Spec

-----------------------------------------------------------------------------
(***************************************************************************)
(* PackOfRepo.                                                             *)
(*                                                                         *)
(* ImportersFound speaks of the tree the walker scanned, which is gone     *)
(* when the answer is used.  So the invariant remembers that what was      *)
(* found is an answer of the walker on the snapshot it is marked with;     *)
(* what such an answer has is proved in the first part.  DiffNamesSeeds is *)
(* shown in the same way, over the calls of git.                           *)
(*                                                                         *)
(* The end is the refinement: the list of files assemble works on, ranked  *)
(* or not, is one that ContextPack allows.                                 *)
(***************************************************************************)

\* The story is one that Starts has, and the marks of the reads point into it.
StoryOK ==
    /\ active \in File \union {NoFile}
    /\ Len(story) \in Nat \ {0} /\ DOMAIN story = 1..Len(story)
    /\ \A i \in DOMAIN story : Readable(story[i].tree)
    /\ now \in 1..Len(story)
    /\ DOMAIN at = {"own", "importers", "symbols", "diff", "names", "seeds"}
    /\ at["own"] \in 0..Len(story) /\ at["importers"] \in 0..Len(story)
    /\ at["own"] = 0 => at["importers"] = 0
    /\ DOMAIN found = {"imports", "importedBy", "graph", "diff", "changed", "seeds"}

\* Importers that were found are the walker's answer on the snapshot of the scan.
FoundThere ==
    at["importers"] # 0 /\ "imports" \notin failed /\ Exists(active, story[at["own"]].tree) =>
        ToSet(found.importedBy) \in FoundImporters(active, story[at["importers"]].tree)

FInv == StoryOK /\ FoundThere

-----------------------------------------------------------------------------

\* A sequence of all of a finite set has all of it.
LEMMA SeqHasAll ==
    ASSUME NEW S, IsFiniteSet(S), NEW s \in SetToSeqs(S)
    PROVE  ToSet(s) = S
<1> DEFINE n == Cardinality(S)
<1>1. n \in Nat
  BY FS_CardinalityType
<1>2. s \in [1..n -> S] /\ \A i, j \in 1..n : i # j => s[i] # s[j]
  BY DEF SetToSeqs
<1>3. s \in Injection(1..n, S)
  BY <1>2 DEF Injection, IsInjective
<1>4. Cardinality(1..n) = n
  <2>1. n >= 1 \/ n = 0
    BY <1>1
  <2> HIDE DEF n
  <2>2. QED
    BY <1>1, <2>1, FS_Interval
<1>5. s \in Surjection(1..n, S)
  BY <1>3, <1>4, FS_Injection
<1>6. QED
  BY <1>2, <1>5 DEF Surjection, ToSet

\* What a walker may find is a set of files.
LEMMA FoundFinite ==
    ASSUME NEW f, NEW t, NEW S \in FoundImporters(f, t)
    PROVE  IsFiniteSet(S)
<1>1. S \in SUBSET File
  BY DEF FoundImporters, TsImporters, PyImporters, Scans, PyFiles, Files
<1>2. QED
  BY <1>1, FileAssumption, FS_Subset

LEMMA FoundInit == RepoInit => FInv
<1> SUFFICES ASSUME RepoInit PROVE FInv
  OBVIOUS
<1>1. PICK s \in Starts : story = s.story
  BY DEF RepoInit
<1>2. /\ Len(story) \in Nat \ {0} /\ DOMAIN story = 1..Len(story)
      /\ \A i \in DOMAIN story : Readable(story[i].tree)
  BY <1>1, StartsAssumption
<1>3. {"seeds"} \union UNION {Reads[w] : w \in DOMAIN Reads}
          = {"own", "importers", "symbols", "diff", "names", "seeds"}
  BY DEF Reads
<1>4. at = [r \in {"own", "importers", "symbols", "diff", "names", "seeds"} |-> 0]
  BY <1>3 DEF RepoInit
<1>5. DOMAIN found = {"imports", "importedBy", "graph", "diff", "changed", "seeds"}
  BY DEF RepoInit, Nothing
<1>6. active \in File \union {NoFile} /\ now = 1
  BY DEF RepoInit, Init
<1>7. QED
  BY <1>2, <1>4, <1>5, <1>6 DEF FInv, StoryOK, FoundThere

\* Steps that leave the story and the import walker as they are.
LEMMA Elsewhere ==
    ASSUME FInv, active' = active, story' = story,
           now' \in 1..Len(story), DOMAIN at' = DOMAIN at,
           at'["own"] = at["own"], at'["importers"] = at["importers"],
           "imports" \in failed => "imports" \in failed',
           DOMAIN found' = DOMAIN found, found'.importedBy = found.importedBy
    PROVE  FInv'
BY DEF FInv, StoryOK, FoundThere

\* Reads of the other walkers.
LEMMA OtherRead ==
    ASSUME StoryOK, NEW rs \in SUBSET {"symbols", "diff", "names", "seeds"}, Read(rs)
    PROVE  /\ DOMAIN at' = DOMAIN at
           /\ at'["own"] = at["own"] /\ at'["importers"] = at["importers"]
<1>1. at' = [r \in DOMAIN at |-> IF r \in rs THEN now ELSE at[r]]
  BY DEF Read
<1>2. "own" \in DOMAIN at /\ "importers" \in DOMAIN at
  BY DEF StoryOK
<1>3. "own" \notin rs /\ "importers" \notin rs
  OBVIOUS
<1>4. QED
  BY <1>1, <1>2, <1>3

\* What the imports come from is dropped: nothing is claimed any more.
LEMMA ImportsDropped ==
    ASSUME FInv, active' = active, DropImports
    PROVE  FInv'
<1>1. StoryOK
  BY DEF FInv
<1>2. at' = [r \in DOMAIN at |->
                 IF r = "seeds" \/ \E w \in {"imports"} : r \in Reads[w] THEN 0 ELSE at[r]]
  BY DEF DropImports, Drop
<1>3. at'["own"] = 0 /\ at'["importers"] = 0 /\ DOMAIN at' = DOMAIN at
  BY <1>1, <1>2 DEF StoryOK, Reads
<1>4. DOMAIN found' = DOMAIN found /\ story' = story /\ now' = now
  BY DEF DropImports, Drop
<1>5. QED
  BY <1>1, <1>3, <1>4 DEF FInv, StoryOK, FoundThere

LEMMA FoundStep == FInv /\ [RepoNext]_allVars => FInv'
<1> SUFFICES ASSUME FInv, [RepoNext]_allVars PROVE FInv'
  OBVIOUS
<1>1. StoryOK /\ now \in 1..Len(story)
  BY DEF FInv, StoryOK
<1>2. CASE UNCHANGED allVars
  BY <1>1, <1>2, Elsewhere DEF allVars, vars, repoVars, walkVars
<1>3. CASE Develop
  <2>1. now' \in 1..Len(story)
    BY <1>1, <1>3 DEF Develop, StoryOK
  <2>2. QED
    BY <1>3, <2>1, Elsewhere DEF Develop, vars, walkVars
<1>4. CASE ReadImports
  <2>1. /\ active' = active /\ story' = story /\ now' = now /\ failed' = failed
        /\ at["own"] = 0 /\ at["importers"] = 0
    BY <1>1, <1>4 DEF ReadImports, Unread, vars, StoryOK
  <2>2. DOMAIN found' = DOMAIN found
    BY <1>4 DEF ReadImports
  <2>3. CASE Exists(active, tree)
    <3>1. at' = [r \in DOMAIN at |-> IF r \in {"own"} THEN now ELSE at[r]]
      BY <1>4, <2>3 DEF ReadImports, Read
    <3>2. at'["own"] = now /\ at'["importers"] = 0 /\ DOMAIN at' = DOMAIN at
      BY <1>1, <2>1, <3>1 DEF StoryOK
    <3>3. QED
      BY <1>1, <2>1, <2>2, <3>2 DEF FInv, StoryOK, FoundThere
  <2>4. CASE ~Exists(active, tree)
    <3>1. at' = [r \in DOMAIN at |-> IF r \in {"own", "importers"} THEN now ELSE at[r]]
      BY <1>4, <2>4 DEF ReadImports, Read, Reads
    <3>2. at'["own"] = now /\ at'["importers"] = now /\ DOMAIN at' = DOMAIN at
      BY <1>1, <3>1 DEF StoryOK
    <3>3. ~Exists(active, story[now].tree)
      BY <2>4 DEF tree
    <3>4. QED
      BY <1>1, <2>1, <2>2, <3>2, <3>3 DEF FInv, StoryOK, FoundThere
  <2>5. QED
    BY <2>3, <2>4
<1>5. CASE FindImporters
  <2>1. /\ active' = active /\ story' = story /\ now' = now /\ failed' = failed
        /\ at["own"] # 0
    BY <1>5 DEF FindImporters, Unread, vars
  <2>2. PICK S \in FoundImporters(active, tree) :
            \E s \in SetToSeqs(S) : found' = [found EXCEPT !.importedBy = s]
    BY <1>5 DEF FindImporters
  <2>3. PICK s \in SetToSeqs(S) : found' = [found EXCEPT !.importedBy = s]
    BY <2>2
  <2>4. ToSet(found'.importedBy) = S /\ DOMAIN found' = DOMAIN found
    BY <1>1, <2>3, FoundFinite, SeqHasAll DEF StoryOK
  <2>5. at' = [r \in DOMAIN at |-> IF r \in {"importers"} THEN now ELSE at[r]]
    BY <1>5 DEF FindImporters, Read
  <2>6. at'["own"] = at["own"] /\ at'["importers"] = now /\ DOMAIN at' = DOMAIN at
    BY <1>1, <2>5 DEF StoryOK
  <2>7. ToSet(found'.importedBy) \in FoundImporters(active, story[now].tree)
    BY <2>3, <2>4 DEF tree
  <2>8. QED
    BY <1>1, <2>1, <2>4, <2>6, <2>7 DEF FInv, StoryOK, FoundThere
<1>6. CASE ReadSymbols
  <2>1. DOMAIN at' = DOMAIN at /\ at'["own"] = at["own"] /\ at'["importers"] = at["importers"]
    BY <1>1, <1>6, OtherRead DEF ReadSymbols
  <2>2. DOMAIN found' = DOMAIN found /\ found'.importedBy = found.importedBy
    BY <1>1, <1>6 DEF ReadSymbols, StoryOK
  <2>3. QED
    BY <1>1, <1>6, <2>1, <2>2, Elsewhere DEF ReadSymbols, vars
<1>7. CASE ReadDiff
  <2>1. DOMAIN at' = DOMAIN at /\ at'["own"] = at["own"] /\ at'["importers"] = at["importers"]
    <3>1. Read({"diff", "names"}) \/ Read({"diff"})
      BY <1>7 DEF ReadDiff, Reads
    <3>2. QED
      BY <1>1, <3>1, OtherRead
  <2>2. DOMAIN found' = DOMAIN found /\ found'.importedBy = found.importedBy
    BY <1>1, <1>7 DEF ReadDiff, StoryOK
  <2>3. failed \subseteq failed'
    BY <1>7 DEF ReadDiff, Git
  <2>4. QED
    BY <1>1, <1>7, <2>1, <2>2, <2>3, Elsewhere DEF ReadDiff, vars
<1>8. CASE ReadNames
  <2>1. DOMAIN at' = DOMAIN at /\ at'["own"] = at["own"] /\ at'["importers"] = at["importers"]
    BY <1>1, <1>8, OtherRead DEF ReadNames
  <2>2. DOMAIN found' = DOMAIN found /\ found'.importedBy = found.importedBy
    BY <1>1, <1>8 DEF ReadNames, StoryOK
  <2>3. failed \subseteq failed'
    BY <1>8 DEF ReadNames, Git
  <2>4. QED
    BY <1>1, <1>8, <2>1, <2>2, <2>3, Elsewhere DEF ReadNames, vars
<1>9. ASSUME NEW w \in DOMAIN Reads, WalkerFails(w) PROVE FInv'
  <2>1. w = "imports" \/ w = "symbols" \/ w = "diff"
    BY DEF Reads
  <2>2. /\ active' = active /\ story' = story /\ now' = now /\ at' = at
        /\ failed \subseteq failed'
    BY <1>9 DEF WalkerFails, vars
  <2>3. DOMAIN found' = DOMAIN found /\ found'.importedBy = found.importedBy
    BY <1>1, <1>9, <2>1 DEF WalkerFails, StoryOK
  <2>4. QED
    BY <1>1, <2>2, <2>3, Elsewhere
<1>10. ASSUME NEW h \in Headers, Header(h) PROVE FInv'
  BY <1>1, <1>10, Elsewhere DEF Header, TakeHeader, repoVars, walkVars
<1>11. ASSUME NEW d \in Diffs, Diff(d) PROVE FInv'
  <2>1. /\ active' = active /\ story' = story /\ now' = now
        /\ failed' = failed \ {"diff", "git"}
        /\ at' = [r \in DOMAIN at |->
                     IF r = "seeds" \/ \E w \in {"diff"} : r \in Reads[w] THEN 0 ELSE at[r]]
    BY <1>11 DEF Diff, TakeDiff, Drop
  <2>2. DOMAIN at' = DOMAIN at /\ at'["own"] = at["own"] /\ at'["importers"] = at["importers"]
    BY <1>1, <2>1 DEF StoryOK, Reads
  <2>3. DOMAIN found' = DOMAIN found /\ found'.importedBy = found.importedBy
    BY <1>1, <1>11 DEF Diff, StoryOK
  <2>4. "imports" \in failed => "imports" \in failed'
    BY <2>1
  <2>5. QED
    BY <1>1, <2>1, <2>2, <2>3, <2>4, Elsewhere
<1>12. CASE Graph
  BY <1>1, <1>12, Elsewhere DEF Graph, TakeGraph, repoVars, walkVars
<1>13. ASSUME NEW r \in Rankings, RankIndexed(r) PROVE FInv'
  BY <1>13, ImportsDropped DEF RankIndexed
<1>14. CASE RankFallback
  BY <1>14, ImportsDropped DEF RankFallback
<1>15. CASE Skip \/ Dedup \/ ReadRaises \/ End
  <2>1. active' = active /\ UNCHANGED repoVars
    BY <1>15 DEF Skip, Dedup, ReadRaises, End, SkipFile, DedupFile, ReadFails, Finish
  <2>2. QED
    BY <1>1, <2>1, Elsewhere DEF repoVars, walkVars
<1>16. CASE Slice
  <2>1. active' = active /\ UNCHANGED <<story, now, walkVars>>
    BY <1>16 DEF Slice, TakeSlice
  <2>2. QED
    BY <1>1, <2>1, Elsewhere DEF walkVars
<1>17. CASE Filter
  <2>1. DOMAIN at' = DOMAIN at /\ at'["own"] = at["own"] /\ at'["importers"] = at["importers"]
    BY <1>1, <1>17, OtherRead DEF Filter
  <2>2. DOMAIN found' = DOMAIN found /\ found'.importedBy = found.importedBy
    BY <1>1, <1>17 DEF Filter, StoryOK
  <2>3. QED
    BY <1>1, <1>17, <2>1, <2>2, Elsewhere DEF Filter, vars
<1>18. QED
  BY <1>2, <1>3, <1>4, <1>5, <1>6, <1>7, <1>8, <1>9, <1>10, <1>11, <1>12, <1>13, <1>14,
     <1>15, <1>16, <1>17 DEF RepoNext

-----------------------------------------------------------------------------

LEMMA FoundMeans == FInv => ImportersFound
<1> SUFFICES ASSUME FInv, at["importers"] # 0, "imports" \notin failed,
                    Exists(active, story[at["own"]].tree)
             PROVE  ImportersFound
  BY Zenon DEF ImportersFound
<1> DEFINE t  == story[at["importers"]].tree
           by == ToSet(found.importedBy)
<1>1. active \in File
  BY DEF Exists, Files
<1>2. Readable(t)
  BY DEF FInv, StoryOK
<1>3. by \in FoundImporters(active, t)
  BY DEF FInv, FoundThere
<1> HIDE DEF t, by
<1>4. IsTs(active) => by \subseteq TrueImporters(active, t)
  BY <1>1, <1>3, TsSound
<1>5. ASSUME ~IsPackage(active), IsTs(active) \/ Cardinality(PyFiles(t)) <= MaxFiles,
             NEW f \in TrueImporters(active, t), IsTs(f) => ~Skipped(f)
      PROVE  f \in by
  <2>1. IsTs(active) => IsTs(f)
    BY <1>5 DEF TrueImporters, IsTs
  <2>2. QED
    BY <1>1, <1>2, <1>3, <1>5, <2>1, ImportersNotLost
<1>6. QED
  BY <1>4, <1>5 DEF ImportersFound, t, by

\* In every run, whatever the developer does between the reads, the importers a
\* walker hands over are, on the tree it scanned, all the importers of a file that
\* does not stand for its directory, and for TypeScript no others.
THEOREM WalkersFindImporters == RepoSpec => []ImportersFound
BY FoundInit, FoundStep, FoundMeans, PTL DEF RepoSpec

-----------------------------------------------------------------------------
(* The diff shown and the seeds of the ranking *)

\* The uncommitted changes of a snapshot.
ChangedAt(i) ==
    IF story[i].head = NoGit THEN {}
    ELSE ChangedIn(story[i])

\* What is left of these names when they are looked for.
SeedsOf(names, i) == {f \in names : Exists(f, story[i].tree) /\ MaySeed(f)}

Unfailed == failed \intersect {"git", "diff"} = {}

\* What the diff walker found is of the snapshots its calls are marked with, and
\* the seeds are of what it found; after the diff is in the pack nothing is
\* marked.
DiffThere ==
    /\ at["diff"] = 0 => at["names"] = 0 /\ found.diff = "none" /\ found.changed = {}
    /\ at["seeds"] = 0 => found.seeds = {}
    /\ at["seeds"] # 0 => /\ "diff" \in failed \/ (at["diff"] # 0 /\ at["names"] # 0)
                         /\ found.seeds = SeedsOf(found.changed, at["seeds"])
    /\ pc \notin {"header", "diff"} => at["diff"] = 0 /\ at["seeds"] = 0
    /\ at["diff"] # 0 /\ story[at["diff"]].head = NoGit => at["names"] # 0
    /\ Unfailed /\ at["diff"] # 0 =>
           (found.diff = "uncommitted" <=> ChangedAt(at["diff"]) # {})
    /\ Unfailed /\ at["names"] # 0 /\ at["names"] = at["diff"] =>
           found.changed = ChangedAt(at["names"])

\* Steps that leave the diff walker as it is.
LEMMA DiffElsewhere ==
    ASSUME StoryOK, DiffThere, story' = story,
           at'["diff"] = at["diff"], at'["names"] = at["names"], at'["seeds"] = at["seeds"],
           found'.diff = found.diff, found'.changed = found.changed,
           found'.seeds = found.seeds,
           pc' \in {"header", "diff"} \/ (at["diff"] = 0 /\ at["seeds"] = 0),
           "diff" \in failed => "diff" \in failed',
           Unfailed' => Unfailed \/ at["diff"] = 0
    PROVE  DiffThere'
BY DEF StoryOK, DiffThere, ChangedAt, SeedsOf

\* Steps that drop the diff, or come when it has been dropped.
LEMMA DiffDropped ==
    ASSUME at'["diff"] = 0, at'["names"] = 0, at'["seeds"] = 0,
           found'.diff = "none", found'.changed = {}, found'.seeds = {}
    PROVE  DiffThere'
BY DEF DiffThere

LEMMA MarksAre ==
    ASSUME StoryOK, NEW rs \in SUBSET {"own", "importers", "symbols", "diff", "names", "seeds"},
           Read(rs)
    PROVE  /\ at'["diff"] = (IF "diff" \in rs THEN now ELSE at["diff"])
           /\ at'["names"] = (IF "names" \in rs THEN now ELSE at["names"])
           /\ at'["seeds"] = (IF "seeds" \in rs THEN now ELSE at["seeds"])
BY DEF StoryOK, Read

LEMMA ReadDiffStep ==
    ASSUME StoryOK, DiffThere, ReadDiff
    PROVE  DiffThere'
<1>1. /\ at["diff"] = 0 /\ at["names"] = 0 /\ found.diff = "none" /\ found.changed = {}
      /\ at["seeds"] = 0 /\ found.seeds = {}
      /\ story' = story /\ now' = now /\ now # 0 /\ pc' = "header"
  BY DEF ReadDiff, Walking, Unread, DiffThere, vars, StoryOK
<1>2. CASE head = NoGit
  <2>1. Read({"diff", "names"}) /\ found' = found
    BY <1>2 DEF ReadDiff, Reads
  <2>2. at'["diff"] = now /\ at'["names"] = now /\ at'["seeds"] = 0
    BY <1>1, <2>1, MarksAre
  <2>3. (IF story'[now].head = NoGit THEN {} ELSE ChangedIn(story'[now])) = {}
    BY <1>1, <1>2 DEF head
  <2>4. QED
    BY <1>1, <2>1, <2>2, <2>3 DEF DiffThere, ChangedAt
<1>3. CASE head # NoGit
  <2>1. Read({"diff"})
    BY <1>3 DEF ReadDiff
  <2>2. at'["diff"] = now /\ at'["names"] = 0 /\ at'["seeds"] = 0
    BY <1>1, <2>1, MarksAre
  <2>3. PICK diff \in BOOLEAN, show \in BOOLEAN :
            /\ Git(diff /\ (show \/ Changed # {}))
            /\ found' = [found EXCEPT !.diff =
                            IF diff /\ Changed # {} THEN "uncommitted"
                            ELSE IF show THEN "commit" ELSE "none"]
    BY <1>3 DEF ReadDiff
  <2>4. Unfailed' => diff
    BY <2>3 DEF Git, Unfailed
  <2>5. found'.diff = IF diff /\ Changed # {} THEN "uncommitted"
                      ELSE IF show THEN "commit" ELSE "none"
    BY <2>3 DEF StoryOK
  <2>6. found'.seeds = {}
    BY <1>1, <2>3 DEF StoryOK
  <2>7. story'[now].head # NoGit
    BY <1>1, <1>3 DEF head
  <2>8. Changed = ChangedIn(story'[now])
    BY <1>1 DEF Changed
  <2>9. Unfailed' => (found'.diff = "uncommitted" <=> Changed # {})
    BY <2>4, <2>5
  <2> HIDE DEF Changed
  <2>10. QED
    BY <1>1, <2>2, <2>7, <2>8, <2>9, <2>6 DEF DiffThere, ChangedAt
<1>4. QED
  BY <1>2, <1>3

LEMMA ReadNamesStep ==
    ASSUME StoryOK, DiffThere, ReadNames
    PROVE  DiffThere'
<1>1. /\ at["diff"] # 0 /\ at["names"] = 0 /\ at["seeds"] = 0 /\ found.seeds = {}
      /\ story' = story /\ now # 0 /\ pc' = "header"
  BY DEF ReadNames, Walking, Unread, vars, StoryOK, DiffThere
<1>2. at'["diff"] = at["diff"] /\ at'["names"] = now /\ at'["seeds"] = at["seeds"]
  BY MarksAre DEF ReadNames
<1>3. PICK g \in BOOLEAN : /\ Git(g)
                           /\ found' = [found EXCEPT !.changed = IF g THEN Changed ELSE {}]
  BY DEF ReadNames
<1>4. /\ found'.diff = found.diff /\ found'.changed = (IF g THEN Changed ELSE {})
      /\ found'.seeds = found.seeds
  BY <1>3 DEF StoryOK
<1>5. Unfailed' => g /\ Unfailed
  BY <1>3 DEF Git, Unfailed
<1>6. now = at["diff"] => story[now].head # NoGit
  BY <1>1 DEF DiffThere
<1>7. Changed = ChangedIn(story[now])
  BY DEF Changed
<1>8. QED
  BY <1>1, <1>2, <1>4, <1>5, <1>6, <1>7 DEF DiffThere, ChangedAt

LEMMA DiffStep == StoryOK /\ DiffThere /\ [RepoNext]_allVars => DiffThere'
<1> SUFFICES ASSUME StoryOK, DiffThere, [RepoNext]_allVars PROVE DiffThere'
  OBVIOUS
<1>1. CASE UNCHANGED allVars
  BY <1>1, DiffElsewhere DEF allVars, vars, repoVars, walkVars, Unfailed, DiffThere
<1>2. CASE Develop
  BY <1>2, DiffElsewhere DEF Develop, vars, walkVars, Unfailed, DiffThere
<1>3. CASE ReadImports
  <2>1. Read({"own"}) \/ Read({"own", "importers"})
    BY <1>3 DEF ReadImports, Reads
  <2>2. /\ at'["diff"] = at["diff"] /\ at'["names"] = at["names"]
        /\ at'["seeds"] = at["seeds"]
    BY <2>1, MarksAre
  <2>3. /\ found'.diff = found.diff /\ found'.changed = found.changed
        /\ found'.seeds = found.seeds
    BY <1>3 DEF ReadImports, StoryOK
  <2>4. story' = story /\ failed' = failed /\ pc' = "header"
    BY <1>3 DEF ReadImports, Walking, vars
  <2>5. QED
    BY <2>2, <2>3, <2>4, DiffElsewhere DEF Unfailed
<1>4. CASE FindImporters
  <2>1. Read({"importers"})
    BY <1>4 DEF FindImporters
  <2>2. /\ at'["diff"] = at["diff"] /\ at'["names"] = at["names"]
        /\ at'["seeds"] = at["seeds"]
    BY <2>1, MarksAre
  <2>3. /\ found'.diff = found.diff /\ found'.changed = found.changed
        /\ found'.seeds = found.seeds
    <3>1. PICK S \in FoundImporters(active, tree) :
              \E s \in SetToSeqs(S) : found' = [found EXCEPT !.importedBy = s]
      BY <1>4 DEF FindImporters
    <3>2. PICK s \in SetToSeqs(S) : found' = [found EXCEPT !.importedBy = s]
      BY <3>1
    <3>3. QED
      BY <3>2 DEF StoryOK
  <2>4. story' = story /\ failed' = failed /\ pc' = "header"
    BY <1>4 DEF FindImporters, Walking, vars
  <2>5. QED
    BY <2>2, <2>3, <2>4, DiffElsewhere DEF Unfailed
<1>5. CASE ReadSymbols
  <2>1. Read({"symbols"})
    BY <1>5 DEF ReadSymbols
  <2>2. /\ at'["diff"] = at["diff"] /\ at'["names"] = at["names"]
        /\ at'["seeds"] = at["seeds"]
    BY <2>1, MarksAre
  <2>3. /\ found'.diff = found.diff /\ found'.changed = found.changed
        /\ found'.seeds = found.seeds
    BY <1>5 DEF ReadSymbols, StoryOK
  <2>4. story' = story /\ failed' = failed /\ pc' = "header"
    BY <1>5 DEF ReadSymbols, Walking, vars
  <2>5. QED
    BY <2>2, <2>3, <2>4, DiffElsewhere DEF Unfailed
<1>6. ASSUME NEW w \in DOMAIN Reads, WalkerFails(w) PROVE DiffThere'
  <2>1. w = "imports" \/ w = "symbols" \/ w = "diff"
    BY DEF Reads
  <2>2. /\ story' = story /\ at' = at /\ pc' = "header" /\ failed' = failed \union {w}
        /\ pc = "header"
    BY <1>6 DEF WalkerFails, vars
  <2>3. CASE w # "diff"
    <3>1. /\ found'.diff = found.diff /\ found'.changed = found.changed
          /\ found'.seeds = found.seeds
      BY <1>6, <2>1, <2>3 DEF WalkerFails, StoryOK
    <3>2. QED
      BY <2>2, <3>1, DiffElsewhere DEF Unfailed
  <2>4. CASE w = "diff"
    <3>1. /\ found'.diff = "none" /\ found'.changed = found.changed
          /\ found'.seeds = found.seeds
      BY <1>6, <2>4 DEF WalkerFails, StoryOK
    <3>2. ~Unfailed'
      BY <2>2, <2>4 DEF Unfailed
    <3>3. SeedsOf(found.changed, at["seeds"]) = (SeedsOf(found.changed, at["seeds"]))'
      BY <2>2, <3>1 DEF SeedsOf
    <3>4. QED
      BY <2>2, <2>4, <3>1, <3>2, <3>3 DEF DiffThere
  <2>5. QED
    BY <2>3, <2>4
<1>7. ASSUME NEW h \in Headers, Header(h) PROVE DiffThere'
  BY <1>7, DiffElsewhere DEF Header, TakeHeader, repoVars, walkVars, Unfailed
<1>8. ASSUME NEW d \in Diffs, Diff(d) PROVE DiffThere'
  <2>1. at' = [r \in DOMAIN at |->
                 IF r = "seeds" \/ \E w \in {"diff"} : r \in Reads[w] THEN 0 ELSE at[r]]
    BY <1>8 DEF Diff, Drop
  <2>2. at'["diff"] = 0 /\ at'["names"] = 0 /\ at'["seeds"] = 0
    BY <2>1 DEF StoryOK, Reads
  <2>3. found'.diff = "none" /\ found'.changed = {} /\ found'.seeds = {}
    BY <1>8 DEF Diff, StoryOK
  <2>4. QED
    BY <2>2, <2>3, DiffDropped
<1>9. ASSUME DropImports, at["diff"] = 0, at["names"] = 0, at["seeds"] = 0 PROVE DiffThere'
  <2>1. at' = [r \in DOMAIN at |->
                 IF r = "seeds" \/ \E w \in {"imports"} : r \in Reads[w] THEN 0 ELSE at[r]]
    BY <1>9 DEF DropImports, Drop
  <2>2. at'["diff"] = 0 /\ at'["names"] = 0 /\ at'["seeds"] = 0
    BY <1>9, <2>1 DEF StoryOK, Reads
  <2>3. /\ found'.diff = found.diff /\ found'.changed = found.changed
        /\ found'.seeds = found.seeds
    BY <1>9 DEF DropImports, StoryOK
  <2>4. QED
    BY <1>9, <2>2, <2>3, DiffDropped DEF DiffThere
<1>10. ASSUME pc = "rank" PROVE at["diff"] = 0 /\ at["names"] = 0 /\ at["seeds"] = 0
  BY <1>10 DEF DiffThere
<1>11. ASSUME NEW r \in Rankings, RankIndexed(r) PROVE DiffThere'
  BY <1>9, <1>10, <1>11 DEF RankIndexed
<1>12. CASE RankFallback
  BY <1>9, <1>10, <1>12 DEF RankFallback
<1>13. CASE Graph \/ Skip \/ Dedup \/ Slice \/ ReadRaises \/ End
  <2>1. story' = story /\ at' = at /\ failed' = failed /\ found' = found
    BY <1>13 DEF Graph, Skip, Dedup, Slice, ReadRaises, End, repoVars, walkVars
  <2>2. pc \notin {"header", "diff"}
    BY <1>13 DEF Graph, Skip, Dedup, Slice, ReadRaises, End, TakeGraph, SkipFile, DedupFile,
                 TakeSlice, ReadFails, Finish, AtFile
  <2>3. at["diff"] = 0 /\ at["seeds"] = 0
    BY <2>2 DEF DiffThere
  <2>4. QED
    BY <2>1, <2>3, DiffElsewhere
<1>14. CASE Filter
  <2>1. /\ story' = story /\ now' = now /\ failed' = failed /\ pc' = pc /\ pc = "header"
        /\ Read({"seeds"}) /\ Ended("diff") /\ now # 0
    BY <1>14 DEF Filter, vars, Reads, StoryOK
  <2>2. at'["diff"] = at["diff"] /\ at'["names"] = at["names"] /\ at'["seeds"] = now
    BY <2>1, MarksAre
  <2>3. /\ found'.diff = found.diff /\ found'.changed = found.changed
        /\ found'.seeds = SeedsOf(found.changed, now)
    BY <1>14 DEF Filter, StoryOK, SeedsOf, tree
  <2>4. "diff" \in failed \/ (at["diff"] # 0 /\ at["names"] # 0)
    BY <2>1 DEF Ended, Reads, Unread
  <2>5. (SeedsOf(found.changed, at["seeds"]))' = SeedsOf(found.changed, now)
    BY <2>1, <2>2, <2>3 DEF SeedsOf
  <2>6. (Unfailed' <=> Unfailed) /\ \A i : ChangedAt(i)' = ChangedAt(i)
    BY <2>1 DEF Unfailed, ChangedAt
  <2>7. QED
    BY <2>1, <2>2, <2>3, <2>4, <2>5, <2>6 DEF DiffThere, ChangedAt, Unfailed
<1>15. QED
  BY <1>1, <1>2, <1>3, <1>4, <1>5, <1>6, <1>7, <1>8, <1>11, <1>12, <1>13, <1>14,
     ReadDiffStep, ReadNamesStep DEF RepoNext

LEMMA DiffInit == RepoInit => DiffThere
<1> SUFFICES ASSUME RepoInit PROVE DiffThere
  OBVIOUS
<1>1. {"seeds"} \union UNION {Reads[w] : w \in DOMAIN Reads}
          = {"own", "importers", "symbols", "diff", "names", "seeds"}
  BY DEF Reads
<1>2. /\ at["diff"] = 0 /\ at["names"] = 0 /\ at["seeds"] = 0
      /\ found.diff = "none" /\ found.changed = {} /\ found.seeds = {}
  BY <1>1 DEF RepoInit, Nothing
<1>3. pc = "header"
  BY DEF RepoInit, Init
<1>4. QED
  BY <1>2, <1>3 DEF DiffThere

\* Whenever git answers the diff walker's calls, and the developer rests between
\* them, files seed the ranking only if the diff in the pack is of uncommitted
\* work, and then all its files do that are still there, but tests and docs.
THEOREM SeedsGoWithDiff == RepoSpec => []DiffNamesSeeds
<1>1. FInv /\ DiffThere /\ [RepoNext]_allVars => DiffThere'
  BY DiffStep DEF FInv
<1>2. DiffThere => DiffNamesSeeds
  <2> SUFFICES ASSUME DiffThere, at["diff"] # 0, at["diff"] = at["names"], Unfailed
               PROVE  /\ found.seeds # {} => found.diff = "uncommitted"
                      /\ at["seeds"] # 0 /\ found.diff = "uncommitted" =>
                             found.seeds = SeedsOf(ChangedIn(story[at["diff"]]), at["seeds"])
    BY DEF DiffNamesSeeds, Unfailed, SeedsOf
  <2>1. /\ found.diff = "uncommitted" <=> ChangedAt(at["diff"]) # {}
        /\ found.changed = ChangedAt(at["diff"])
    BY DEF DiffThere
  <2>2. found.seeds # {} => found.changed # {}
    BY DEF DiffThere, SeedsOf
  <2>3. found.diff = "uncommitted" => found.changed = ChangedIn(story[at["diff"]])
    BY <2>1 DEF ChangedAt
  <2>4. QED
    BY <2>1, <2>2, <2>3 DEF DiffThere
<1>3. QED
  BY <1>1, <1>2, DiffInit, FoundInit, FoundStep, PTL DEF RepoSpec

-----------------------------------------------------------------------------
(* The order of a list *)

\* The place of an element in a finite total order.
PlaceIn(j, D, R) == 1 + Cardinality({i \in D : <<i, j>> \in R})

\* These places are 1, 2, 3 and so on.
LEMMA Placing ==
    ASSUME NEW D, IsFiniteSet(D), NEW R,
           \A i \in D : <<i, i>> \notin R,
           \A i, j \in D : i # j => <<i, j>> \in R \/ <<j, i>> \in R,
           \A i, j, k \in D : <<i, j>> \in R /\ <<j, k>> \in R => <<i, k>> \in R
    PROVE  /\ \A j \in D : PlaceIn(j, D, R) \in 1..Cardinality(D)
           /\ \A i, j \in D : <<i, j>> \in R <=> PlaceIn(i, D, R) < PlaceIn(j, D, R)
           /\ \A k \in 1..Cardinality(D) : \E j \in D : PlaceIn(j, D, R) = k
<1> DEFINE Below(j) == {i \in D : <<i, j>> \in R}
           n == Cardinality(D)
           p == [j \in D |-> PlaceIn(j, D, R)]
<1>1. n \in Nat
  BY FS_CardinalityType
<1>2. \A j \in D : IsFiniteSet(Below(j)) /\ Cardinality(Below(j)) \in Nat
                  /\ p[j] = 1 + Cardinality(Below(j))
  <2>1. \A j \in D : Below(j) \subseteq D
    OBVIOUS
  <2>2. QED
    BY <2>1, FS_Subset, FS_CardinalityType DEF PlaceIn
<1> HIDE DEF p
<1>3. ASSUME NEW i \in D, NEW j \in D, <<i, j>> \in R PROVE p[i] < p[j]
  <2>1. i \notin Below(i) /\ Below(i) \union {i} \subseteq Below(j)
    BY <1>3
  <2>2. Cardinality(Below(i) \union {i}) = Cardinality(Below(i)) + 1
    BY <1>2, <2>1, FS_AddElement
  <2>3. Cardinality(Below(i) \union {i}) <= Cardinality(Below(j))
    BY <1>2, <2>1, FS_Subset
  <2> HIDE DEF Below
  <2>4. QED
    BY <1>2, <2>2, <2>3
<1>4. ASSUME NEW j \in D PROVE p[j] \in 1..n
  <2>1. Below(j) \subseteq D \ {j}
    OBVIOUS
  <2>2. IsFiniteSet(D \ {j}) /\ Cardinality(D \ {j}) = n - 1
    BY FS_RemoveElement
  <2> HIDE DEF Below, n
  <2>3. Cardinality(Below(j)) <= Cardinality(D \ {j})
    BY <2>1, <2>2, FS_Subset
  <2>4. QED
    BY <1>1, <1>2, <2>2, <2>3
<1>5. p \in [D -> 1..n]
  BY <1>4 DEF p
<1>6. \A i, j \in D : <<i, j>> \in R <=> p[i] < p[j]
  <2>1. \A i \in D : p[i] \in Nat
    BY <1>1, <1>4
  <2>2. TAKE i, j \in D
  <2>3. CASE i = j
    BY <2>1, <2>3
  <2>4. CASE i # j /\ <<i, j>> \in R
    BY <1>3, <2>4
  <2>5. CASE i # j /\ <<i, j>> \notin R
    <3>1. p[j] < p[i]
      BY <1>3, <2>5
    <3>2. QED
      BY <2>1, <2>5, <3>1
  <2>6. QED
    BY <2>3, <2>4, <2>5
<1>7. p \in Injection(D, 1..n)
  <2>1. \A i \in D : p[i] \in Nat
    BY <1>1, <1>4
  <2>2. \A i, j \in D : p[i] = p[j] => i = j
    BY <1>6, <2>1
  <2>3. DOMAIN p = D
    BY <1>5
  <2> HIDE DEF n
  <2>4. QED
    BY <1>5, <2>2, <2>3 DEF Injection, IsInjective
<1>8. IsFiniteSet(1..n) /\ Cardinality(1..n) = n
  <2> HIDE DEF n
  <2>1. n >= 1 \/ n = 0
    BY <1>1
  <2>2. QED
    BY <1>1, <2>1, FS_Interval
<1>9. p \in Surjection(D, 1..n)
  BY <1>7, <1>8, FS_Injection
<1>10. \A j \in D : p[j] = PlaceIn(j, D, R)
  BY DEF p
<1>11. QED
  BY <1>5, <1>6, <1>9, <1>10 DEF Surjection

\* SortByScore puts the elements of a list in descending order, each once.
LEMMA SortIsSort ==
    ASSUME NEW T, NEW r, r \in Seq(T), \A x \in T : x.score \in Nat
    PROVE  /\ SortByScore(r) \in Seq(T)
           /\ Sorted(SortByScore(r))
           /\ Distinct(r) => Distinct(SortByScore(r))
           /\ FilesOf(SortByScore(r)) = FilesOf(r)
           /\ \A k \in DOMAIN SortByScore(r) : \E j \in DOMAIN r : SortByScore(r)[k] = r[j]
<1> DEFINE D == DOMAIN r
           n == Len(r)
           o == SortByScore(r)
           Before(i, j) == r[i].score > r[j].score \/ (r[i].score = r[j].score /\ i < j)
           R == {x \in D \X D : Before(x[1], x[2])}
           p == [j \in D |-> 1 + Cardinality({i \in D : Before(i, j)})]
           from == [k \in D |-> CHOOSE j \in D : 1 + Cardinality({i \in D : Before(i, j)}) = k]
<1>1. n \in Nat /\ D = 1..n /\ \A i \in D : i \in Nat /\ r[i] \in T /\ r[i].score \in Nat
  OBVIOUS
<1>2. IsFiniteSet(D) /\ Cardinality(D) = n
  <2> HIDE DEF D, n
  <2>1. n >= 1 \/ n = 0
    BY <1>1
  <2>2. QED
    BY <1>1, <2>1, FS_Interval
<1>3. /\ \A i, j \in D : <<i, j>> \in R <=> Before(i, j)
      /\ \A i, j \in D : i # j => <<i, j>> \in R \/ <<j, i>> \in R
  BY <1>1
<1>4. o = [k \in D |-> r[from[k]]]
  BY DEF SortByScore
<1>5. /\ \A i, j \in D : <<i, j>> \in R <=> p[i] < p[j]
      /\ \A k \in D : \E j \in D : p[j] = k
      /\ \A j \in D : p[j] \in D
  <2>1. \A i \in D : <<i, i>> \notin R
    BY <1>1, <1>3
  <2>2. \A i, j, k \in D : <<i, j>> \in R /\ <<j, k>> \in R => <<i, k>> \in R
    BY <1>1, <1>3
  <2>3. \A j \in D : {i \in D : Before(i, j)} = {i \in D : <<i, j>> \in R}
    BY <1>3
  <2> HIDE DEF R, Before, D
  <2>4. \A j \in D : p[j] = PlaceIn(j, D, R)
    BY <2>3 DEF PlaceIn
  <2> HIDE DEF p
  <2>5. /\ \A j \in D : PlaceIn(j, D, R) \in 1..Cardinality(D)
        /\ \A i, j \in D : <<i, j>> \in R <=> PlaceIn(i, D, R) < PlaceIn(j, D, R)
        /\ \A k \in 1..Cardinality(D) : \E j \in D : PlaceIn(j, D, R) = k
    BY <1>2, <1>3, <2>1, <2>2, Placing
  <2>6. D = 1..Cardinality(D)
    BY <1>1, <1>2
  <2>7. QED
    BY <2>4, <2>5, <2>6
<1>6. \A k \in D : from[k] \in D /\ p[from[k]] = k
  <2>1. \A k \in D : \E j \in D : 1 + Cardinality({i \in D : Before(i, j)}) = k
    BY <1>5
  <2> HIDE DEF Before, D
  <2>2. QED
    BY <2>1
<1> HIDE DEF p, from, R, Before, D
<1>7. \A k \in D : o[k] = r[from[k]]
  BY <1>4
<1>8. o \in Seq(T) /\ DOMAIN o = D /\ Len(o) = n
  <2>1. o \in [1..n -> T]
    BY <1>1, <1>4, <1>6
  <2>2. QED
    BY <1>1, <1>4, <2>1
<1>9. Sorted(o)
  <2>1. ASSUME NEW k \in D, NEW l \in D, k < l PROVE o[k].score >= o[l].score
    <3>1. from[k] \in D /\ from[l] \in D /\ p[from[k]] < p[from[l]]
      BY <1>6, <2>1
    <3>2. Before(from[k], from[l])
      BY <1>3, <1>5, <3>1
    <3>3. r[from[k]].score >= r[from[l]].score
      BY <1>1, <1>6, <3>2 DEF Before
    <3>4. QED
      BY <1>7, <3>3
  <2>2. QED
    BY <1>8, <2>1 DEF Sorted
<1>10. Distinct(r) => Distinct(o)
  <2>1. SUFFICES ASSUME Distinct(r), NEW k \in D, NEW l \in D, o[k].file = o[l].file
                 PROVE  k = l
    BY <1>8 DEF Distinct
  <2>2. from[k] = from[l]
    BY <1>6, <1>7, <2>1 DEF Distinct, D
  <2>3. QED
    BY <1>6, <2>2
<1>11. \A k \in DOMAIN o : \E j \in DOMAIN r : o[k] = r[j]
  BY <1>6, <1>7, <1>8 DEF D
<1>12. FilesOf(o) = FilesOf(r)
  <2>1. \A j \in D : from[p[j]] = j
    <3>1. TAKE j \in D
    <3>2. p[j] \in D /\ from[p[j]] \in D /\ p[from[p[j]]] = p[j]
      BY <1>5, <1>6
    <3>3. ~(p[j] < p[j])
      BY <1>1, <3>2
    <3>4. <<from[p[j]], j>> \notin R /\ <<j, from[p[j]]>> \notin R
      BY <1>5, <3>2, <3>3
    <3>5. QED
      BY <1>3, <3>2, <3>4
  <2>2. \A j \in D : o[p[j]] = r[j]
    BY <1>5, <1>7, <2>1
  <2>3. \A k \in D : from[k] \in D /\ p[k] \in D
    BY <1>5, <1>6
  <2>4. \A k \in D : o[k].file \in FilesOf(r)
    BY <1>7, <2>3 DEF FilesOf, D
  <2>5. \A j \in D : r[j].file \in FilesOf(o)
    BY <1>8, <2>2, <2>3 DEF FilesOf
  <2>6. QED
    BY <1>8, <2>4, <2>5 DEF FilesOf, D
<1>13. QED
  BY <1>8, <1>9, <1>10, <1>11, <1>12

\* Keep keeps what is in the set, all of it, in order.
LEMMA KeepIs ==
    ASSUME NEW T, NEW s \in Seq(T), NEW S
    PROVE  /\ Keep(s, S) \in Seq(S \intersect T)
           /\ Len(Keep(s, S)) = Cardinality({i \in DOMAIN s : s[i] \in S})
           /\ \A j \in DOMAIN s : s[j] \in S =>
                  \E k \in DOMAIN Keep(s, S) : Keep(s, S)[k] = s[j]
           /\ \E from \in [DOMAIN Keep(s, S) -> DOMAIN s] :
                  /\ \A k \in DOMAIN Keep(s, S) : Keep(s, S)[k] = s[from[k]]
                  /\ \A k, l \in DOMAIN Keep(s, S) : k < l => from[k] < from[l]
<1> DEFINE D == {i \in DOMAIN s : s[i] \in S}
           R == {x \in D \X D : x[1] < x[2]}
           size == Cardinality(D)
           from == [k \in 1..size |-> CHOOSE j \in D : 1 + Cardinality({i \in D : i < j}) = k]
           o == Keep(s, S)
<1>1. D \subseteq DOMAIN s /\ \A i \in D : i \in Nat /\ s[i] \in S /\ s[i] \in T
  OBVIOUS
<1>2. IsFiniteSet(D) /\ size \in Nat
  <2>1. D \subseteq 1..Len(s) /\ Len(s) \in Nat
    OBVIOUS
  <2>2. IsFiniteSet(1..Len(s))
    BY <2>1, FS_Interval
  <2>3. QED
    BY <2>1, <2>2, FS_Subset, FS_CardinalityType
<1>3. \A i, j \in D : <<i, j>> \in R <=> i < j
  OBVIOUS
<1>4. /\ \A j \in D : PlaceIn(j, D, R) \in 1..size
      /\ \A i, j \in D : <<i, j>> \in R <=> PlaceIn(i, D, R) < PlaceIn(j, D, R)
      /\ \A k \in 1..size : \E j \in D : PlaceIn(j, D, R) = k
  <2>1. /\ \A i \in D : <<i, i>> \notin R
        /\ \A i, j \in D : i # j => <<i, j>> \in R \/ <<j, i>> \in R
        /\ \A i, j, k \in D : <<i, j>> \in R /\ <<j, k>> \in R => <<i, k>> \in R
    BY <1>1, <1>3
  <2> HIDE DEF D, R
  <2>2. QED
    BY <1>2, <2>1, Placing
<1>5. \A j \in D : PlaceIn(j, D, R) = 1 + Cardinality({i \in D : i < j})
  <2>1. \A j \in D : {i \in D : <<i, j>> \in R} = {i \in D : i < j}
    BY <1>3
  <2> HIDE DEF D, R
  <2>2. QED
    BY <2>1 DEF PlaceIn
<1>6. \A k \in 1..size : from[k] \in D /\ PlaceIn(from[k], D, R) = k
  <2> HIDE DEF D, R, size
  <2>1. \A k \in 1..size : \E j \in D : 1 + Cardinality({i \in D : i < j}) = k
    BY <1>4, <1>5
  <2>2. \A k \in 1..size : from[k] \in D /\ 1 + Cardinality({i \in D : i < from[k]}) = k
    BY <2>1
  <2> HIDE DEF from
  <2>3. QED
    BY <1>5, <2>2
<1>7. o = [k \in 1..size |-> s[from[k]]]
  BY DEF Keep
<1> HIDE DEF D, R, size, from
<1>8. o \in Seq(S \intersect T) /\ DOMAIN o = 1..size /\ Len(o) = size
  <2>1. o \in [1..size -> S \intersect T]
    BY <1>1, <1>6, <1>7
  <2>2. QED
    BY <1>2, <2>1
<1>9. ASSUME NEW j \in DOMAIN s, s[j] \in S PROVE \E k \in DOMAIN o : o[k] = s[j]
  <2>1. j \in D
    BY <1>9 DEF D
  <2> DEFINE k == PlaceIn(j, D, R)
  <2>2. k \in 1..size /\ from[k] \in D /\ PlaceIn(from[k], D, R) = k
    BY <1>4, <1>6, <2>1
  <2>3. ~(k < k)
    BY <1>2, <2>2
  <2>4. <<from[k], j>> \notin R /\ <<j, from[k]>> \notin R
    BY <1>4, <2>1, <2>2, <2>3
  <2>5. ~(from[k] < j) /\ ~(j < from[k])
    BY <1>3, <2>1, <2>2, <2>4
  <2>6. from[k] \in Nat /\ j \in Nat
    BY <1>1, <2>1, <2>2
  <2>7. from[k] = j
    <3> HIDE DEF k
    <3>1. QED
      BY <2>5, <2>6
  <2>8. o[k] = s[j]
    BY <1>7, <2>2, <2>7
  <2>9. QED
    BY <1>8, <2>2, <2>8
<1>10. from \in [DOMAIN o -> DOMAIN s]
  <2>1. \A k \in 1..size : (CHOOSE j \in D : 1 + Cardinality({i \in D : i < j}) = k) \in DOMAIN s
    BY <1>1, <1>6 DEF from
  <2>2. QED
    BY <1>8, <2>1 DEF from
<1>11. \A k \in DOMAIN o : o[k] = s[from[k]]
  BY <1>7, <1>8
<1>12. \A k, l \in DOMAIN o : k < l => from[k] < from[l]
  BY <1>3, <1>4, <1>6, <1>8
<1>13. QED
  BY <1>8, <1>9, <1>10, <1>11, <1>12 DEF size, D

LEMMA KeepKeeps ==
    ASSUME NEW T, NEW s \in Seq(T), NEW S
    PROVE  Keep(s, S) \in Seq(S)
<1>1. Keep(s, S) \in Seq(S \intersect T)
  BY KeepIs
<1>2. QED
  BY <1>1

-----------------------------------------------------------------------------
(* assemble over a repository does what ContextPack says *)

\* Sizes and Graphs have what comes up: they are there for TLC, which cannot
\* try all numbers.
CostsCovered ==
    /\ GraphTokens \in Graphs
    /\ \A f \in File : Exists(f, tree) => SliceLines(SliceOf(f)) \in Sizes

FoundTypes == found.imports \in Seq(File) /\ found.importedBy \in Seq(File)

LEMMA KeptImports ==
    ASSUME NEW s, NEW n \in Nat, DOMAIN s = 1..n, s = [i \in DOMAIN s |-> s[i]]
    PROVE  Keep(s, File) \in Seq(File)
<1> DEFINE T == {s[i] : i \in 1..n}
<1>1. s \in [1..n -> T]
  OBVIOUS
<1>2. s \in Seq(T)
  BY <1>1
<1>3. QED
  BY <1>2, KeepKeeps

LEMMA OwnTyped ==
    ASSUME NEW f \in File, NEW t, Readable(t), Exists(f, t)
    PROVE  OwnImports(f, t) \in Seq(File)
<1>1. t[f].specs \in Seq(Path) /\ t[f].modules \in Seq(PathName)
  BY DEF Exists, Readable
<1>2. TsImports(t[f], t) \in Seq(File)
  <2> DEFINE s == [i \in DOMAIN t[f].specs |-> ResolveSpecifier(t[f].specs[i], t)]
  <2>1. Len(t[f].specs) \in Nat /\ DOMAIN s = 1..Len(t[f].specs)
    BY <1>1
  <2>2. s = [i \in DOMAIN s |-> s[i]]
    OBVIOUS
  <2>3. TsImports(t[f], t) = Keep(s, File)
    BY DEF TsImports
  <2> HIDE DEF s
  <2>4. QED
    BY <2>1, <2>2, <2>3, KeptImports
<1>3. PyImports(t[f], t) \in Seq(File)
  <2> DEFINE m == Modules(t[f])
             s == [i \in DOMAIN m |-> ModuleToFile(m[i], t)]
  <2>1. m \in Seq(PathName)
    BY <1>1 DEF Modules
  <2> HIDE DEF m
  <2>2. Len(m) \in Nat /\ DOMAIN s = 1..Len(m)
    BY <2>1
  <2>3. s = [i \in DOMAIN s |-> s[i]]
    OBVIOUS
  <2>4. PyImports(t[f], t) = Keep(s, File)
    BY DEF PyImports, m
  <2> HIDE DEF s
  <2>5. QED
    BY <2>2, <2>3, <2>4, KeptImports
<1>4. QED
  BY <1>2, <1>3 DEF OwnImports

LEMMA TypesStep == StoryOK /\ FoundTypes /\ [RepoNext]_allVars => FoundTypes'
<1> SUFFICES ASSUME StoryOK, FoundTypes, [RepoNext]_allVars PROVE FoundTypes'
  OBVIOUS
<1>1. CASE found' = found
  BY <1>1 DEF FoundTypes
<1>2. CASE ReadImports
  <2>1. CASE Exists(active, tree)
    <3>1. active \in File /\ Readable(tree)
      BY <2>1 DEF StoryOK, tree, Exists, Files
    <3>2. OwnImports(active, tree) \in Seq(File)
      BY <2>1, <3>1, OwnTyped
    <3>3. found'.imports = OwnImports(active, tree) /\ found'.importedBy = found.importedBy
      BY <1>2, <2>1 DEF ReadImports, StoryOK
    <3>4. QED
      BY <3>2, <3>3 DEF FoundTypes
  <2>2. QED
    BY <1>1, <1>2, <2>1 DEF ReadImports
<1>3. CASE FindImporters
  <2>1. PICK S \in FoundImporters(active, tree) :
            \E s \in SetToSeqs(S) : found' = [found EXCEPT !.importedBy = s]
    BY <1>3 DEF FindImporters
  <2>2. PICK s \in SetToSeqs(S) : found' = [found EXCEPT !.importedBy = s]
    BY <2>1
  <2>3. S \subseteq File /\ IsFiniteSet(S)
    <3>1. S \in SUBSET File
      BY DEF FoundImporters, TsImporters, PyImporters, Scans, PyFiles, Files
    <3>2. QED
      BY <3>1, FoundFinite
  <2>4. s \in Seq(File)
    <3>1. s \in [1..Cardinality(S) -> S] /\ Cardinality(S) \in Nat
      BY <2>3, FS_CardinalityType DEF SetToSeqs
    <3>2. QED
      BY <2>3, <3>1
  <2>5. found'.importedBy = s /\ found'.imports = found.imports
    BY <2>2 DEF StoryOK
  <2>6. QED
    BY <2>4, <2>5 DEF FoundTypes
<1>4. CASE ReadSymbols \/ ReadDiff \/ ReadNames \/ Filter \/ \E d \in Diffs : Diff(d)
  <2>1. found'.importedBy = found.importedBy /\ found'.imports = found.imports
    BY <1>4 DEF StoryOK, ReadSymbols, ReadDiff, ReadNames, Filter, Diff
  <2>2. QED
    BY <2>1 DEF FoundTypes
<1>5. ASSUME NEW w \in DOMAIN Reads, WalkerFails(w) PROVE FoundTypes'
  <2>1. w = "imports" \/ w = "symbols" \/ w = "diff"
    BY DEF Reads
  <2>2. /\ found'.imports = found.imports \/ found'.imports = <<>>
        /\ found'.importedBy = found.importedBy
    BY <1>5, <2>1 DEF WalkerFails, StoryOK
  <2>3. <<>> \in Seq(File)
    OBVIOUS
  <2>4. QED
    BY <2>2, <2>3 DEF FoundTypes
<1>6. CASE DropImports
  <2>1. found'.imports = <<>> /\ found'.importedBy = <<>>
    BY <1>6 DEF DropImports, StoryOK
  <2>2. QED
    BY <2>1 DEF FoundTypes
<1>7. CASE UNCHANGED allVars \/ Develop \/ (\E h \in Headers : Header(h)) \/ Graph
  BY <1>1, <1>7 DEF allVars, repoVars, walkVars, Develop, Header, Graph
<1>8. CASE (\E r \in Rankings : RankIndexed(r)) \/ RankFallback
  BY <1>6, <1>8 DEF RankIndexed, RankFallback
<1>9. CASE Skip \/ Dedup \/ Slice \/ ReadRaises \/ End
  BY <1>1, <1>9 DEF repoVars, walkVars, Skip, Dedup, Slice, ReadRaises, End
<1>10. QED
  BY <1>2, <1>3, <1>4, <1>5, <1>7, <1>8, <1>9 DEF RepoNext

\* Sorting candidates keeps them candidates, and distinct.
LEMMA SortedCandidates ==
    \A q \in Seq(Candidate) : \A s :
        Distinct(q) /\ s = SortByScore(q) =>
            /\ s \in Seq(Candidate) /\ Sorted(s) /\ Distinct(s)
            /\ \A k \in DOMAIN s : \E j \in DOMAIN q : s[k] = q[j]
<1> SUFFICES ASSUME NEW q \in Seq(Candidate), NEW s, Distinct(q), s = SortByScore(q)
             PROVE  /\ s \in Seq(Candidate) /\ Sorted(s) /\ Distinct(s)
                    /\ \A k \in DOMAIN s : \E j \in DOMAIN q : s[k] = q[j]
  OBVIOUS
<1>1. \A x \in Candidate : x.score \in Nat
  BY DEF Candidate
<1> DEFINE T == Candidate
<1>2. q \in Seq(T) /\ \A x \in T : x.score \in Nat
  BY <1>1
<1> HIDE DEF T
<1>3. /\ s \in Seq(T) /\ Sorted(s) /\ Distinct(s)
      /\ \A k \in DOMAIN s : \E j \in DOMAIN q : s[k] = q[j]
  BY <1>2, SortIsSort
<1>4. QED
  BY <1>3 DEF T

\* A ranking whose scores are raised, with the open file, names no file twice
\* and has the open file high.
LEMMA RaisedList ==
    ASSUME NEW r \in Rankings, StoryOK,
           NEW w, w = WithActive([i \in DOMAIN r |-> Raised(r[i])])
    PROVE  /\ w \in Seq(Candidate) /\ Distinct(w)
           /\ \A i \in DOMAIN w : w[i].file = active => w[i].score >= 15
<1> DEFINE known == UNION {Files(story[i].tree) : i \in 1..now}
           rr == [i \in DOMAIN r |-> Raised(r[i])]
           wa == WithActive(rr)
<1>1. known \subseteq File
  BY DEF Files
<1>2. PICK n \in 0..Cardinality(known) : r \in [1..n -> [file : known, score : Scores]]
  BY DEF Rankings
<1>3. n \in Nat /\ DOMAIN r = 1..n /\ Distinct(r)
  BY <1>2 DEF Rankings
<1> HIDE DEF known
<1>4. \A i \in 1..n : /\ rr[i] \in Candidate /\ rr[i].file = r[i].file
                      /\ rr[i].file = active => rr[i].score >= 15
  <2>1. TAKE i \in 1..n
  <2>2. r[i] \in [file : File, score : Nat]
    BY <1>1, <1>2, ScoresAssumption
  <2>3. rr[i] = Raised(r[i])
    BY <1>3
  <2>4. QED
    BY <2>2, <2>3 DEF Raised, Candidate
<1>5. rr \in Seq(Candidate) /\ DOMAIN rr = 1..n
  BY <1>3, <1>4
<1>6. Distinct(rr)
  BY <1>3, <1>4 DEF Distinct
<1> HIDE DEF rr
<1>7. /\ wa \in Seq(Candidate) /\ Distinct(wa)
      /\ \A i \in DOMAIN wa : wa[i].file = active => wa[i].score >= 15
  <2>1. CASE wa = rr
    BY <1>4, <1>5, <1>6, <2>1
  <2>2. CASE wa = Append(rr, [file |-> active, score |-> 20])
             /\ active \notin FilesOf(rr) /\ Exists(active, tree)
    <3>1. active \in File
      BY <2>2 DEF Exists, Files
    <3>2. [file |-> active, score |-> 20] \in Candidate
      BY <3>1 DEF Candidate
    <3>3. /\ wa \in Seq(Candidate) /\ DOMAIN wa = 1..n + 1 /\ Len(rr) = n
          /\ \A i \in 1..n : wa[i] = rr[i]
          /\ wa[n + 1] = [file |-> active, score |-> 20]
      BY <1>3, <1>5, <2>2, <3>2
    <3>4. \A i \in 1..n : rr[i].file # active
      BY <1>5, <2>2 DEF FilesOf
    <3>5. Distinct(wa)
      BY <1>3, <1>5, <1>6, <3>3, <3>4 DEF Distinct
    <3>6. \A i \in DOMAIN wa : wa[i].file = active => wa[i].score >= 15
      BY <1>3, <3>3, <3>4
    <3>7. QED
      BY <3>3, <3>5, <3>6
  <2>3. QED
    BY <2>1, <2>2 DEF WithActive
<1>8. w = wa
  BY DEF rr
<1>9. QED
  BY <1>7, <1>8

\* The ranking of the index becomes a list that ContextPack allows.
LEMMA IndexedList ==
    ASSUME NEW r \in Rankings, StoryOK
    PROVE  \A s : s = SortByScore(WithActive([i \in DOMAIN r |-> Raised(r[i])])) =>
               /\ s \in Seq(Candidate) /\ Sorted(s) /\ Distinct(s)
               /\ \A i \in DOMAIN s : s[i].file = active => s[i].score >= 15
<1> DEFINE w == WithActive([i \in DOMAIN r |-> Raised(r[i])])
<1> HIDE DEF w
<1>1. /\ w \in Seq(Candidate) /\ Distinct(w)
      /\ \A i \in DOMAIN w : w[i].file = active => w[i].score >= 15
  BY RaisedList DEF w
<1>2. ASSUME NEW s, s = SortByScore(w)
      PROVE  /\ s \in Seq(Candidate) /\ Sorted(s) /\ Distinct(s)
             /\ \A i \in DOMAIN s : s[i].file = active => s[i].score >= 15
  <2>1. /\ s \in Seq(Candidate) /\ Sorted(s) /\ Distinct(s)
        /\ \A k \in DOMAIN s : \E j \in DOMAIN w : s[k] = w[j]
    BY <1>1, <1>2, SortedCandidates
  <2>2. QED
    BY <1>1, <2>1
<1>3. QED
  BY <1>2 DEF w

\* A list of one kind of files, with one score.
LEMMA ScoredList ==
    ASSUME NEW S, S \subseteq File, NEW s, s \in Seq(S), NEW k, k \in Nat
    PROVE  /\ Scored(s, k) \in Seq(Candidate)
           /\ \A i \in DOMAIN Scored(s, k) :
                  Scored(s, k)[i].score = k /\ Scored(s, k)[i].file \in S
<1>1. Len(s) \in Nat /\ DOMAIN s = 1..Len(s) /\ \A i \in 1..Len(s) : s[i] \in S
  OBVIOUS
<1>2. Scored(s, k) = [i \in 1..Len(s) |-> [file |-> s[i], score |-> k]]
  BY <1>1 DEF Scored
<1>3. \A i \in 1..Len(s) : [file |-> s[i], score |-> k] \in Candidate
  BY <1>1 DEF Candidate
<1>4. QED
  BY <1>1, <1>2, <1>3

\* A list with scores from k up and one with scores up to k are one in order.
LEMMA OneList ==
    ASSUME NEW p \in Seq(Candidate), NEW q \in Seq(Candidate), NEW k \in Nat,
           Sorted(p), Sorted(q), ActiveHigh(p, active), ActiveHigh(q, active),
           \A i \in DOMAIN p : p[i].score >= k, \A i \in DOMAIN q : k >= q[i].score
    PROVE  p \o q \in Seq(Candidate) /\ Sorted(p \o q) /\ ActiveHigh(p \o q, active)
<1> DEFINE m == Len(p)
           n == Len(q)
           s == p \o q
<1>1. m \in Nat /\ n \in Nat /\ DOMAIN p = 1..m /\ DOMAIN q = 1..n
  OBVIOUS
<1>2. /\ s \in Seq(Candidate) /\ DOMAIN s = 1..m + n
      /\ \A i \in 1..m : s[i] = p[i]
      /\ \A i \in 1..m + n : m < i => s[i] = q[i - m] /\ i - m \in 1..n
  <2>1. Len(s) = m + n /\ s \in Seq(Candidate)
    BY ConcatProperties
  <2>2. \A i \in 1..m + n : s[i] = IF i <= m THEN p[i] ELSE q[i - m]
    BY <2>1, ConcatProperties
  <2> HIDE DEF s, m, n
  <2>3. \A i \in 1..m + n : m < i => s[i] = q[i - m] /\ i - m \in 1..n
    BY <1>1, <2>2
  <2>4. \A i \in 1..m : s[i] = p[i]
    BY <1>1, <2>2
  <2>5. DOMAIN s = 1..m + n
    BY <2>1, LenProperties
  <2>6. QED
    BY <2>1, <2>3, <2>4, <2>5
<1>3. /\ \A i \in 1..m : p[i].score \in Nat
      /\ \A i \in 1..n : q[i].score \in Nat
  <2>1. /\ \A i \in 1..m : p[i] \in Candidate
        /\ \A i \in 1..n : q[i] \in Candidate
    BY ElementOfSeq
  <2>2. QED
    BY <2>1 DEF Candidate
<1> HIDE DEF s, m, n
<1>4. Sorted(s)
  <2>1. SUFFICES ASSUME NEW i \in 1..m + n, NEW j \in 1..m + n, i < j
                 PROVE  s[i].score >= s[j].score
    BY <1>2 DEF Sorted
  <2>2. CASE j <= m
    <3>1. i \in 1..m /\ j \in 1..m
      BY <1>1, <2>1, <2>2
    <3>2. QED
      BY <1>1, <1>2, <2>1, <3>1 DEF Sorted
  <2>3. CASE m < i
    <3>1. m < j /\ i - m < j - m
      BY <1>1, <2>1, <2>3
    <3>2. QED
      BY <1>1, <1>2, <2>3, <3>1 DEF Sorted
  <2>4. CASE i <= m /\ m < j
    <3>1. i \in 1..m
      BY <1>1, <2>4
    <3>2. s[i].score \in Nat /\ s[i].score >= k
      BY <1>1, <1>2, <1>3, <3>1
    <3>3. s[j].score \in Nat /\ k >= s[j].score
      BY <1>1, <1>2, <1>3, <2>4
    <3>4. QED
      BY <3>2, <3>3
  <2>5. QED
    BY <1>1, <2>2, <2>3, <2>4
<1>5. ActiveHigh(s, active)
  <2>1. SUFFICES ASSUME NEW i \in 1..m + n, s[i].file = active PROVE s[i].score >= 15
    BY <1>2 DEF ActiveHigh
  <2>2. i \in 1..m \/ m < i
    BY <1>1
  <2>3. QED
    BY <1>1, <1>2, <2>1, <2>2 DEF ActiveHigh
<1>6. QED
  BY <1>2, <1>4, <1>5 DEF s

\* And so does the list without a ranking.
LEMMA FallbackList ==
    ASSUME FoundTypes, NEW s,
           s = (IF Exists(active, tree) THEN Scored(<<active>>, 15) ELSE <<>>)
               \o Scored(NotActive(found.imports), 10)
               \o Scored(NotActive(found.importedBy), 7)
    PROVE  s \in Seq(Candidate) /\ Sorted(s) /\ ActiveHigh(s, active)
<1> DEFINE a == IF Exists(active, tree) THEN Scored(<<active>>, 15) ELSE <<>>
           b == Scored(NotActive(found.imports), 10)
           c == Scored(NotActive(found.importedBy), 7)
<1>1. a \in Seq(Candidate) /\ \A i \in DOMAIN a : a[i].score = 15
  <2>1. CASE Exists(active, tree)
    <3>1. <<active>> \in Seq(File)
      BY <2>1 DEF Exists, Files
    <3> DEFINE one == <<active>>
    <3> HIDE DEF a, b, c, one
    <3>2. /\ Scored(one, 15) \in Seq(Candidate)
          /\ \A i \in DOMAIN Scored(one, 15) : Scored(one, 15)[i].score = 15
      <4>1. one \in Seq(File) /\ 15 \in Nat /\ File \subseteq File
        BY <3>1 DEF one
      <4>2. QED
        BY <4>1, ScoredList
    <3>3. a = Scored(one, 15)
      BY <2>1 DEF a, one
    <3>4. QED
      BY <3>2, <3>3
  <2>2. CASE ~Exists(active, tree)
    <3>1. a = <<>>
      BY <2>2
    <3> HIDE DEF a
    <3>2. QED
      BY <3>1
  <2>3. QED
    BY <2>1, <2>2
<1>2. /\ b \in Seq(Candidate) /\ \A i \in DOMAIN b : b[i].score = 10 /\ b[i].file # active
      /\ c \in Seq(Candidate) /\ \A i \in DOMAIN c : c[i].score = 7 /\ c[i].file # active
  <2>1. /\ NotActive(found.imports) \in Seq(File \ {active})
        /\ NotActive(found.importedBy) \in Seq(File \ {active})
    BY KeepKeeps DEF FoundTypes, NotActive
  <2>2. File \ {active} \subseteq File
    OBVIOUS
  <2>3. /\ b \in Seq(Candidate)
        /\ \A i \in DOMAIN b : b[i].score = 10 /\ b[i].file \in File \ {active}
    BY <2>1, <2>2, ScoredList
  <2>4. /\ c \in Seq(Candidate)
        /\ \A i \in DOMAIN c : c[i].score = 7 /\ c[i].file \in File \ {active}
    BY <2>1, <2>2, ScoredList
  <2> HIDE DEF b, c
  <2>5. QED
    BY <2>3, <2>4
<1>3. s = (a \o b) \o c
  OBVIOUS
<1> HIDE DEF a, b, c
<1>4. /\ Sorted(a) /\ Sorted(b) /\ Sorted(c)
      /\ ActiveHigh(a, active) /\ ActiveHigh(b, active) /\ ActiveHigh(c, active)
  BY <1>1, <1>2 DEF Sorted, ActiveHigh
<1>5. /\ a \o b \in Seq(Candidate) /\ Sorted(a \o b) /\ ActiveHigh(a \o b, active)
      /\ \A i \in DOMAIN (a \o b) : (a \o b)[i].score >= 7
  <2>1. /\ \A i \in DOMAIN a : a[i].score >= 10
        /\ \A i \in DOMAIN b : 10 >= b[i].score
    BY <1>1, <1>2
  <2>2. a \o b \in Seq(Candidate) /\ Sorted(a \o b) /\ ActiveHigh(a \o b, active)
    BY <1>1, <1>2, <1>4, <2>1, OneList
  <2>3. /\ Len(a) \in Nat /\ DOMAIN a = 1..Len(a)
        /\ Len(b) \in Nat /\ DOMAIN b = 1..Len(b)
        /\ DOMAIN (a \o b) = 1..Len(a) + Len(b)
        /\ \A i \in 1..Len(a) + Len(b) :
               (a \o b)[i] = IF i <= Len(a) THEN a[i] ELSE b[i - Len(a)]
    BY <1>1, <1>2, <2>2, ConcatProperties, LenProperties
  <2>4. ASSUME NEW i \in DOMAIN (a \o b) PROVE (a \o b)[i].score >= 7
    <3>1. i \in 1..Len(a) + Len(b)
      BY <2>3, <2>4
    <3>2. CASE i <= Len(a)
      <4>1. i \in DOMAIN a
        BY <2>3, <3>1, <3>2
      <4>2. QED
        BY <1>1, <2>3, <3>1, <3>2, <4>1
    <3>3. CASE ~(i <= Len(a))
      <4>1. i - Len(a) \in DOMAIN b
        BY <2>3, <3>1, <3>3
      <4>2. QED
        BY <1>2, <2>3, <3>1, <3>3, <4>1
    <3>4. QED
      BY <3>2, <3>3
  <2>5. QED
    BY <2>2, <2>4
<1>6. \A i \in DOMAIN c : 7 >= c[i].score
  BY <1>2
<1>7. QED
  BY <1>2, <1>3, <1>4, <1>5, <1>6, OneList

LEMMA PackStep ==
    ASSUME StoryOK, FoundTypes, CostsCovered, [RepoNext]_allVars
    PROVE  [Next]_vars
<1>1. CASE UNCHANGED allVars
  BY <1>1 DEF allVars
<1>2. CASE \/ Develop \/ ReadImports \/ FindImporters \/ ReadSymbols \/ ReadDiff
           \/ ReadNames \/ Filter \/ \E w \in DOMAIN Reads : WalkerFails(w)
  BY <1>2 DEF Develop, ReadImports, FindImporters, ReadSymbols, ReadDiff, ReadNames,
              Filter, WalkerFails, vars
<1>3. CASE \E h \in Headers : Header(h)
  BY <1>3 DEF Header, Next
<1>4. CASE \E d \in Diffs : Diff(d)
  BY <1>4 DEF Diff, Next
<1>5. CASE Graph
  BY <1>5 DEF Graph, Next, CostsCovered
<1>6. ASSUME NEW r \in Rankings, RankIndexed(r) PROVE RankFiles
  <2>1. todo' = SortByScore(WithActive([i \in DOMAIN r |-> Raised(r[i])]))
    BY <1>6 DEF RankIndexed
  <2>2. /\ todo' \in Seq(Candidate) /\ Sorted(todo') /\ Distinct(todo')
        /\ \A i \in DOMAIN todo' : todo'[i].file = active => todo'[i].score >= 15
    BY <2>1, IndexedList
  <2>3. QED
    BY <1>6, <2>2 DEF RankIndexed, RankFiles
<1>7. CASE RankFallback
  <2>1. /\ todo' \in Seq(Candidate) /\ Sorted(todo')
        /\ \A i \in DOMAIN todo' : todo'[i].file = active => todo'[i].score >= 15
    BY <1>7, FallbackList DEF RankFallback, ActiveHigh
  <2>2. RankFiles
    BY <1>7, <2>1 DEF RankFallback, RankFiles
  <2>3. QED
    BY <2>2 DEF Next
<1>8. CASE Skip \/ Dedup \/ ReadRaises \/ End
  BY <1>8 DEF Skip, Dedup, ReadRaises, End, Next
<1>9. CASE Slice
  <2>1. Here \in File
    BY <1>9 DEF Slice, Exists, Files
  <2>2. SliceLines(SliceOf(Here)) \in Sizes
    BY <1>9, <2>1 DEF Slice, CostsCovered
  <2>3. QED
    BY <1>9, <2>2 DEF Slice, Next
<1>10. QED
  BY <1>1, <1>2, <1>3, <1>4, <1>5, <1>6, <1>7, <1>8, <1>9 DEF RepoNext, Next

\* Whatever walkers find, whichever of them fail, and whatever the developer
\* does meanwhile, a pack of a repository is one that ContextPack allows.
THEOREM AssemblyRefines == RepoSpec /\ []CostsCovered => Assembles
<1>1. RepoInit => Init /\ FInv /\ FoundTypes
  BY FoundInit, EmptySeq DEF RepoInit, FoundTypes, Nothing
<1>2. FInv /\ FoundTypes /\ [RepoNext]_allVars => FInv' /\ FoundTypes'
  BY FoundStep, TypesStep DEF FInv
<1>3. FInv /\ FoundTypes /\ CostsCovered /\ [RepoNext]_allVars => [Next]_vars
  BY PackStep DEF FInv
<1>4. QED
  BY <1>1, <1>2, <1>3, PTL DEF RepoSpec, Assembles, Spec

\* So what is proved of ContextPack is true of packs of repositories.
THEOREM PacksKeepRules ==
    RepoSpec /\ []CostsCovered => [](WithinBudget /\ RankOrder /\ CarriedOnce)
BY AssemblyRefines, NoCredit, InOrder, NoneTwice, PTL DEF Assembles

-----------------------------------------------------------------------------
(***************************************************************************)
(* Symbols: what is cut out of a text.                                     *)
(*                                                                         *)
(* Definitions at module scope follow each other, so those chosen do, and  *)
(* one turn of _merge_ranges' loop only ever meets the end of the          *)
(* definition before.  The invariant CutThere says that each slice was cut *)
(* by the call graph of the one snapshot the symbol walker read.           *)
(***************************************************************************)

\* What holds at 0 and passes from each number to the next holds up to m.
LEMMA UpTo ==
    ASSUME NEW m \in Nat, NEW S \in SUBSET (0..m), 0 \in S,
           \A k \in 0..m : k + 1 \in 0..m /\ k \in S => k + 1 \in S
    PROVE  S = 0..m
<1> DEFINE rest == (0..m) \ S
<1>1. SUFFICES ASSUME rest # {} PROVE FALSE
  OBVIOUS
<1>2. rest \in SUBSET Nat
  OBVIOUS
<1>3. PICK x \in rest : \A y \in rest : x <= y
  BY <1>1, <1>2, Least
<1> DEFINE k == x - 1
<1>4. k \in 0..m /\ k + 1 = x /\ k < x
  BY <1>3
<1>5. k \in S
  BY <1>3, <1>4
<1>6. k + 1 \in S
  BY <1>3, <1>4, <1>5
<1>7. QED
  BY <1>3, <1>4, <1>6

\* Lines of one definition, then of the next.
OneByOne(s) ==
    /\ \A i \in DOMAIN s : /\ s[i].first \in Nat /\ s[i].last \in Nat
                           /\ s[i].first <= s[i].last
    /\ \A i, j \in DOMAIN s : i < j => s[i].last < s[j].first

\* What is kept of them follows each other, too.
LEMMA KeptFollow ==
    ASSUME NEW T, NEW s \in Seq(T), NEW S,
           \A i \in DOMAIN s : s[i] \in S => /\ s[i].first \in Nat /\ s[i].last \in Nat
                                             /\ s[i].first <= s[i].last,
           \A i, j \in DOMAIN s : i < j /\ s[i] \in S /\ s[j] \in S => s[i].last < s[j].first
    PROVE  OneByOne(Keep(s, S))
<1> DEFINE o == Keep(s, S)
<1>1. /\ o \in Seq(S \intersect T)
      /\ \E from \in [DOMAIN o -> DOMAIN s] :
             /\ \A k \in DOMAIN o : o[k] = s[from[k]]
             /\ \A k, l \in DOMAIN o : k < l => from[k] < from[l]
  <2>1. /\ Keep(s, S) \in Seq(S \intersect T)
        /\ \E from \in [DOMAIN Keep(s, S) -> DOMAIN s] :
               /\ \A k \in DOMAIN Keep(s, S) : Keep(s, S)[k] = s[from[k]]
               /\ \A k, l \in DOMAIN Keep(s, S) : k < l => from[k] < from[l]
    BY ONLY KeepIs, s \in Seq(T)
  <2>2. QED
    BY <2>1
<1> HIDE DEF o
<1>2. PICK from \in [DOMAIN o -> DOMAIN s] :
          /\ \A k \in DOMAIN o : o[k] = s[from[k]]
          /\ \A k, l \in DOMAIN o : k < l => from[k] < from[l]
  BY <1>1
<1>3. \A k \in DOMAIN o : o[k] \in S
  BY <1>1
<1>4. \A k \in DOMAIN o : from[k] \in DOMAIN s /\ s[from[k]] \in S /\ o[k] = s[from[k]]
  BY <1>2, <1>3
<1>5. \A k \in DOMAIN o : /\ o[k].first \in Nat /\ o[k].last \in Nat
                          /\ o[k].first <= o[k].last
  BY <1>4
<1>6. \A k, l \in DOMAIN o : k < l => o[k].last < o[l].first
  BY <1>2, <1>4
<1>7. QED
  BY <1>5, <1>6 DEF OneByOne, o

LEMMA TopLevelIs ==
    ASSUME NEW t, Grammatical(t)
    PROVE  \E T : TopLevel(t) \in Seq(T) /\ OneByOne(TopLevel(t))
<1> DEFINE s == Defs(t)
           S == {d \in ToSet(s) : d.top}
<1>1. s = t.defs \/ s = <<>>
  BY DEF Defs
<1>2. \E T : /\ s \in Seq(T)
             /\ \A i \in DOMAIN s : s[i] \in S => /\ s[i].first \in Nat /\ s[i].last \in Nat
                                                  /\ s[i].first <= s[i].last
             /\ \A i, j \in DOMAIN s : i < j /\ s[i] \in S /\ s[j] \in S =>
                                           s[i].last < s[j].first
  <2>1. CASE s = <<>>
    <3>1. s \in Seq({}) /\ DOMAIN s = {}
      BY <2>1
    <3>2. QED
      BY <3>1
  <2>2. CASE s = t.defs
    <3>1. s \in Seq(ToSet(t.defs))
      BY <2>2 DEF Grammatical
    <3>2. \A i \in DOMAIN s : s[i] \in S => s[i].top
      OBVIOUS
    <3>3. /\ \A i \in DOMAIN s : /\ s[i].first \in Nat /\ s[i].last \in Nat
                                 /\ s[i].first <= s[i].last
          /\ \A i, j \in DOMAIN s : i < j /\ s[i].top /\ s[j].top => s[i].last < s[j].first
      BY <2>2 DEF Grammatical
    <3>4. QED
      BY <3>1, <3>2, <3>3
  <2>3. QED
    BY <1>1, <2>1, <2>2
<1>3. TopLevel(t) = Keep(s, S)
  BY DEF TopLevel
<1> HIDE DEF s, S
<1>4. PICK T : /\ s \in Seq(T)
               /\ \A i \in DOMAIN s : s[i] \in S => /\ s[i].first \in Nat /\ s[i].last \in Nat
                                                    /\ s[i].first <= s[i].last
               /\ \A i, j \in DOMAIN s : i < j /\ s[i] \in S /\ s[j] \in S =>
                                             s[i].last < s[j].first
  BY <1>2
<1>5. Keep(s, S) \in Seq(S \intersect T) /\ OneByOne(Keep(s, S))
  BY <1>4, KeepIs, KeptFollow
<1>6. QED
  BY <1>3, <1>5

\* Some symbol is chosen, and every symbol of interest is.
LEMMA ChosenIs ==
    ASSUME NEW T, NEW s \in Seq(T), s # <<>>, NEW keywords, NEW called
    PROVE  /\ Chosen(s, keywords, called) \subseteq DOMAIN s
           /\ Chosen(s, keywords, called) # {}
           /\ \A i \in DOMAIN s : s[i].name \in keywords \union called =>
                  i \in Chosen(s, keywords, called)
<1> DEFINE high     == {i \in DOMAIN s : s[i].name \in keywords \union called}
           selected == IF high = {} THEN FirstOf(DOMAIN s, TopSymbols) ELSE high
           fillers  == Len(s) \div FillerShare - Cardinality(selected)
<1>1. Chosen(s, keywords, called) = selected \union FirstOf(DOMAIN s \ high, fillers)
  BY DEF Chosen
<1>2. /\ FirstOf(DOMAIN s, TopSymbols) \subseteq DOMAIN s
      /\ FirstOf(DOMAIN s \ high, fillers) \subseteq DOMAIN s
  BY DEF FirstOf
<1>3. selected # {}
  <2>1. 1 \in DOMAIN s /\ {j \in DOMAIN s : j < 1} = {}
    OBVIOUS
  <2>2. Cardinality({}) = 0 /\ 0 < TopSymbols
    BY FS_EmptySet, SymbolsAssumption
  <2>3. 1 \in FirstOf(DOMAIN s, TopSymbols)
    BY <2>1, <2>2 DEF FirstOf
  <2>4. QED
    BY <2>3
<1>4. high \subseteq selected /\ high \subseteq DOMAIN s
  OBVIOUS
<1>5. selected \subseteq DOMAIN s
  BY <1>2, <1>4
<1>6. \A i \in DOMAIN s : s[i].name \in keywords \union called => i \in selected
  BY <1>4
<1> HIDE DEF selected, fillers, high
<1>7. QED
  BY <1>1, <1>2, <1>3, <1>5, <1>6

-----------------------------------------------------------------------------
(* _merge_ranges *)

Span == [first : Nat, last : Nat]

\* What the loop has made of the first k definitions: it ends where the last of
\* them ends, keeps its ranges apart, has each of them, and has no line but
\* theirs and those of short gaps.
Merged(D, k, r) ==
    /\ r \in Seq(Span)
    /\ k = 0 <=> r = <<>>
    /\ k > 0 => r[Len(r)].last = D[k].last /\ r[Len(r)].first <= D[k].last
    /\ \A m \in 1..(Len(r) - 1) : r[m].last + Gap + 1 < r[m + 1].first
    /\ \A j \in 1..k : \E m \in DOMAIN r : r[m].first <= D[j].first /\ D[j].last <= r[m].last
    /\ \A m \in DOMAIN r : \A l \in Lines(r[m]) :
           \E i, j \in 1..k : /\ D[i].first <= l /\ l <= D[j].last
                              /\ \/ i = j
                                 \/ /\ D[i].last < l /\ l < D[j].first
                                    /\ D[j].first - D[i].last <= Gap + 1

\* One turn: the next definition begins a range of its own or makes the last
\* range longer.
LEMMA TurnIs ==
    ASSUME NEW T, NEW D \in Seq(T), OneByOne(D), NEW k \in Nat, k + 1 \in DOMAIN D,
           NEW r, Merged(D, k, r)
    PROVE  /\ r \in Seq(Span)
           /\ \/ /\ r = <<>> \/ r[Len(r)].last + Gap + 1 < D[k + 1].first
                 /\ Joined(r, D[k + 1]) =
                        Append(r, [first |-> D[k + 1].first, last |-> D[k + 1].last])
              \/ /\ r # <<>> /\ D[k + 1].first <= r[Len(r)].last + Gap + 1
                 /\ Joined(r, D[k + 1]) = [r EXCEPT ![Len(r)].last = D[k + 1].last]
<1> DEFINE d == D[k + 1]
           p == r[Len(r)]
<1>1. /\ r \in Seq(Span)
      /\ k > 0 => p.last = D[k].last
      /\ k = 0 <=> r = <<>>
  BY DEF Merged
<1>2. /\ d.first \in Nat /\ d.last \in Nat /\ d.first <= d.last
      /\ k > 0 => /\ D[k].last \in Nat /\ D[k].last < d.first
  <2>1. k > 0 => k \in DOMAIN D /\ k < k + 1
    OBVIOUS
  <2>2. QED
    BY <2>1 DEF OneByOne
<1>3. Joined(r, d) =
          IF r # <<>> /\ d.first <= p.last + Gap + 1
          THEN [r EXCEPT ![Len(r)].last = IF d.last > p.last THEN d.last ELSE p.last]
          ELSE Append(r, [first |-> d.first, last |-> d.last])
  BY DEF Joined
<1> HIDE DEF d, p
<1>4. CASE r # <<>> /\ d.first <= p.last + Gap + 1
  <2>1. d.last > p.last
    <3>1. k > 0
      BY <1>1, <1>4
    <3>2. QED
      BY <1>1, <1>2, <3>1
  <2>2. Joined(r, d) = [r EXCEPT ![Len(r)].last = d.last]
    BY <1>3, <1>4, <2>1
  <2>3. r # <<>> /\ D[k + 1].first <= r[Len(r)].last + Gap + 1
    BY <1>4 DEF d, p
  <2>4. QED
    BY <1>1, <2>2, <2>3 DEF d
<1>5. CASE ~(r # <<>> /\ d.first <= p.last + Gap + 1)
  <2>1. Joined(r, d) = Append(r, [first |-> d.first, last |-> d.last])
    BY <1>3, <1>5
  <2>2. ASSUME r # <<>> PROVE p.last + Gap + 1 < d.first
    <3>1. k > 0
      BY <1>1, <2>2
    <3>2. p.last \in Nat /\ Gap \in Nat /\ d.first \in Nat
      BY <1>1, <1>2, <3>1, SymbolsAssumption
    <3>3. QED
      BY <1>2, <1>5, <2>2, <3>2
  <2>3. r = <<>> \/ r[Len(r)].last + Gap + 1 < D[k + 1].first
    BY <2>2 DEF d, p
  <2>4. QED
    BY <1>1, <2>1, <2>3 DEF d
<1>6. QED
  BY <1>4, <1>5

\* A range of its own.
LEMMA TurnBegins ==
    ASSUME NEW T, NEW D \in Seq(T), OneByOne(D), NEW k \in Nat, k + 1 \in DOMAIN D,
           NEW r, Merged(D, k, r),
           r = <<>> \/ r[Len(r)].last + Gap + 1 < D[k + 1].first
    PROVE  Merged(D, k + 1, Append(r, [first |-> D[k + 1].first, last |-> D[k + 1].last]))
<1> DEFINE d == D[k + 1]
           x == [first |-> d.first, last |-> d.last]
           o == Append(r, x)
           n == Len(r)
<1>1. d.first \in Nat /\ d.last \in Nat /\ d.first <= d.last
  BY DEF OneByOne
<1>2. x \in Span /\ x.first = d.first /\ x.last = d.last
  BY <1>1 DEF Span
<1>3. r \in Seq(Span) /\ n \in Nat /\ DOMAIN r = 1..n
  BY DEF Merged
<1> HIDE DEF x
<1>4. /\ o \in Seq(Span) /\ Len(o) = n + 1 /\ DOMAIN o = 1..(n + 1) /\ o # <<>>
      /\ o[n + 1] = x /\ \A m \in 1..n : o[m] = r[m]
  <2>1. /\ o \in Seq(Span) /\ Len(o) = n + 1
        /\ o[n + 1] = x /\ \A m \in 1..n : o[m] = r[m]
    BY <1>2, <1>3
  <2> HIDE DEF o, n
  <2>2. DOMAIN o = 1..(n + 1)
    BY <2>1
  <2>3. n + 1 \in 1..(n + 1)
    BY <1>3
  <2>4. o # <<>>
    BY <2>2, <2>3
  <2>5. QED
    BY <2>1, <2>2, <2>4
<1>5. n > 0 => r # <<>> /\ r[n].last + Gap + 1 < d.first
  BY <1>3
<1> HIDE DEF o, n
<1>6. \A m \in 1..(n + 1) : m \in 1..n \/ m = n + 1
  BY <1>3
<1>7. \A m \in 1..(Len(o) - 1) : o[m].last + Gap + 1 < o[m + 1].first
  <2>1. SUFFICES ASSUME NEW m \in 1..n PROVE o[m].last + Gap + 1 < o[m + 1].first
    BY <1>3, <1>4
  <2>2. CASE m = n
    <3>1. n > 0
      BY <1>3, <2>2
    <3>2. o[m].last = r[n].last /\ o[m + 1].first = d.first
      BY <1>2, <1>4, <2>2
    <3>3. QED
      BY <1>5, <3>1, <3>2
  <2>3. CASE m # n
    <3>1. m \in 1..(n - 1) /\ m + 1 \in 1..n
      BY <1>3, <2>3
    <3>2. r[m].last + Gap + 1 < r[m + 1].first
      BY <3>1 DEF Merged, n
    <3>3. QED
      BY <1>4, <3>1, <3>2
  <2>4. QED
    BY <2>2, <2>3
<1>8. \A j \in 1..(k + 1) : \E m \in DOMAIN o : o[m].first <= D[j].first /\ D[j].last <= o[m].last
  <2>1. TAKE j \in 1..(k + 1)
  <2>2. CASE j \in 1..k
    <3>1. PICK m \in DOMAIN r : r[m].first <= D[j].first /\ D[j].last <= r[m].last
      BY <2>2 DEF Merged
    <3>2. m \in DOMAIN o /\ o[m] = r[m]
      BY <1>3, <1>4, <3>1
    <3>3. QED
      BY <3>1, <3>2
  <2>3. CASE j = k + 1
    <3>1. /\ n + 1 \in DOMAIN o /\ o[n + 1].first = D[j].first /\ o[n + 1].last = D[j].last
          /\ D[j].first \in Nat /\ D[j].last \in Nat
      BY <1>1, <1>2, <1>3, <1>4, <2>3
    <3>2. QED
      BY <3>1
  <2>4. j \in 1..k \/ j = k + 1
    OBVIOUS
  <2>5. QED
    BY <2>2, <2>3, <2>4
<1>9. \A m \in DOMAIN o : \A l \in Lines(o[m]) :
          \E i, j \in 1..(k + 1) : /\ D[i].first <= l /\ l <= D[j].last
                                   /\ \/ i = j
                                      \/ /\ D[i].last < l /\ l < D[j].first
                                         /\ D[j].first - D[i].last <= Gap + 1
  <2>1. TAKE m \in DOMAIN o
  <2>2. TAKE l \in Lines(o[m])
  <2>3. CASE m \in 1..n
    <3>1. m \in DOMAIN r /\ l \in Lines(r[m])
      BY <1>3, <1>4, <2>3
    <3>2. PICK i \in 1..k, j \in 1..k :
              /\ D[i].first <= l /\ l <= D[j].last
              /\ \/ i = j
                 \/ /\ D[i].last < l /\ l < D[j].first
                    /\ D[j].first - D[i].last <= Gap + 1
      BY <3>1 DEF Merged
    <3>3. i \in 1..(k + 1) /\ j \in 1..(k + 1)
      OBVIOUS
    <3>4. QED
      BY <3>2, <3>3
  <2>4. CASE m = n + 1
    <3>1. l \in d.first..d.last
      BY <1>2, <1>4, <2>4 DEF Lines
    <3>2. k + 1 \in 1..(k + 1) /\ D[k + 1].first <= l /\ l <= D[k + 1].last
      BY <1>1, <3>1
    <3>3. QED
      BY <3>2
  <2>5. QED
    BY <1>4, <1>6, <2>3, <2>4
<1>10. /\ k + 1 # 0 /\ o[Len(o)].last = D[k + 1].last /\ o[Len(o)].first <= D[k + 1].last
  BY <1>1, <1>2, <1>4
<1>11. Merged(D, k + 1, o)
  BY <1>4, <1>7, <1>8, <1>9, <1>10 DEF Merged
<1>12. QED
  BY <1>11 DEF o, x

\* The last range made longer.
LEMMA TurnLengthens ==
    ASSUME NEW T, NEW D \in Seq(T), OneByOne(D), NEW k \in Nat, k + 1 \in DOMAIN D,
           NEW r, Merged(D, k, r),
           r # <<>>, D[k + 1].first <= r[Len(r)].last + Gap + 1
    PROVE  Merged(D, k + 1, [r EXCEPT ![Len(r)].last = D[k + 1].last])
<1> DEFINE d == D[k + 1]
           n == Len(r)
           x == [r[n] EXCEPT !.last = d.last]
           o == [r EXCEPT ![n].last = d.last]
<1>1. /\ r \in Seq(Span) /\ k # 0 /\ n \in Nat /\ n > 0 /\ DOMAIN r = 1..n
  BY DEF Merged
<1>2. /\ d.first \in Nat /\ d.last \in Nat /\ d.first <= d.last
      /\ D[k].first \in Nat /\ D[k].last \in Nat /\ D[k].last < d.first
  <2>1. k \in DOMAIN D /\ k < k + 1
    BY <1>1
  <2>2. QED
    BY <2>1 DEF OneByOne
<1>3. /\ r[n] \in Span /\ r[n].last = D[k].last /\ r[n].first <= D[k].last
      /\ d.first <= D[k].last + Gap + 1 /\ Gap \in Nat
  BY <1>1, SymbolsAssumption DEF Merged
<1>4. /\ x \in Span /\ x.first = r[n].first /\ x.last = d.last
      /\ r[n].first \in Nat
  BY <1>2, <1>3 DEF Span
<1>5. /\ o \in Seq(Span) /\ Len(o) = n /\ DOMAIN o = 1..n
      /\ o[n] = x /\ \A m \in 1..n : m # n => o[m] = r[m]
  <2>1. o = [m \in 1..n |-> IF m = n THEN x ELSE r[m]]
    BY <1>1
  <2>2. \A m \in 1..n : r[m] \in Span
    BY <1>1
  <2> HIDE DEF o, x, n
  <2>3. o \in [1..n -> Span]
    BY <1>4, <2>1, <2>2
  <2>4. o \in Seq(Span) /\ Len(o) = n /\ DOMAIN o = 1..n
    BY <1>1, <2>3
  <2>5. n \in 1..n
    BY <1>1
  <2>6. QED
    BY <2>1, <2>4, <2>5
<1> HIDE DEF o, n, x, d
<1>6. o # <<>> /\ k + 1 # 0
  <2>1. n \in DOMAIN o
    BY <1>1, <1>5
  <2>2. QED
    BY <2>1
<1>7. \A m \in 1..(Len(o) - 1) : o[m].last + Gap + 1 < o[m + 1].first
  <2>1. SUFFICES ASSUME NEW m \in 1..(n - 1) PROVE o[m].last + Gap + 1 < o[m + 1].first
    BY <1>5
  <2>2. m \in 1..n /\ m # n /\ m + 1 \in 1..n
    BY <1>1
  <2>3. o[m].last = r[m].last /\ o[m + 1].first = r[m + 1].first
    BY <1>4, <1>5, <2>2
  <2>4. r[m].last + Gap + 1 < r[m + 1].first
    BY DEF Merged, n
  <2>5. QED
    BY <2>3, <2>4
<1>8. \A j \in 1..(k + 1) : \E m \in DOMAIN o : o[m].first <= D[j].first /\ D[j].last <= o[m].last
  <2>1. TAKE j \in 1..(k + 1)
  <2>2. CASE j \in 1..k
    <3>1. PICK m \in DOMAIN r : r[m].first <= D[j].first /\ D[j].last <= r[m].last
      BY <2>2 DEF Merged
    <3>2. CASE m # n
      BY <1>1, <1>5, <3>1, <3>2
    <3>3. CASE m = n
      <4>1. D[j].last \in Nat /\ D[j].last <= D[k].last
        BY <1>3, <2>2, <3>1, <3>3 DEF OneByOne
      <4>2. D[j].last <= d.last
        BY <1>2, <4>1
      <4>3. o[n].first <= D[j].first /\ D[j].last <= o[n].last /\ n \in DOMAIN o
        BY <1>1, <1>4, <1>5, <3>1, <3>3, <4>2
      <4>4. QED
        BY <4>3
    <3>4. QED
      BY <3>2, <3>3
  <2>3. CASE j = k + 1
    <3>1. o[n].first <= d.first /\ d.last <= o[n].last /\ n \in DOMAIN o
      BY <1>1, <1>2, <1>3, <1>4, <1>5
    <3>2. QED
      BY <2>3, <3>1 DEF d
  <2>4. j \in 1..k \/ j = k + 1
    OBVIOUS
  <2>5. QED
    BY <2>2, <2>3, <2>4
<1>9. \A m \in DOMAIN o : \A l \in Lines(o[m]) :
          \E i, j \in 1..(k + 1) : /\ D[i].first <= l /\ l <= D[j].last
                                   /\ \/ i = j
                                      \/ /\ D[i].last < l /\ l < D[j].first
                                         /\ D[j].first - D[i].last <= Gap + 1
  <2>1. TAKE m \in DOMAIN o
  <2>2. TAKE l \in Lines(o[m])
  <2>3. CASE m \in DOMAIN r /\ l \in Lines(r[m])
    <3>1. PICK i \in 1..k, j \in 1..k :
              /\ D[i].first <= l /\ l <= D[j].last
              /\ \/ i = j
                 \/ /\ D[i].last < l /\ l < D[j].first
                    /\ D[j].first - D[i].last <= Gap + 1
      BY <2>3 DEF Merged
    <3>2. i \in 1..(k + 1) /\ j \in 1..(k + 1)
      OBVIOUS
    <3>3. QED
      BY <3>1, <3>2
  <2>4. CASE ~(m \in DOMAIN r /\ l \in Lines(r[m]))
    <3>1. m = n
      BY <1>1, <1>5, <2>4
    <3>2. l \in r[n].first..d.last /\ ~(l \in r[n].first..D[k].last)
      BY <1>1, <1>3, <1>4, <1>5, <2>4, <3>1 DEF Lines
    <3>3. l \in Nat /\ D[k].last < l /\ l <= d.last
      BY <1>2, <1>4, <3>2
    <3>4. CASE d.first <= l
      <4>1. k + 1 \in 1..(k + 1) /\ D[k + 1].first <= l /\ l <= D[k + 1].last
        BY <3>3, <3>4 DEF d
      <4>2. QED
        BY <4>1
    <3>5. CASE l < d.first
      <4>1. k \in 1..(k + 1) /\ k + 1 \in 1..(k + 1)
        BY <1>1
      <4>2. D[k].first <= l
        <5>1. k \in DOMAIN D
          BY <1>1
        <5>2. D[k].first <= D[k].last
          BY <5>1 DEF OneByOne
        <5>3. QED
          BY <1>2, <3>3, <5>2
      <4>3. d.first - D[k].last <= Gap + 1
        BY <1>2, <1>3
      <4>4. /\ D[k].first <= l /\ l <= D[k + 1].last /\ D[k].last < l /\ l < D[k + 1].first
            /\ D[k + 1].first - D[k].last <= Gap + 1
        BY <3>3, <3>5, <4>2, <4>3 DEF d
      <4>5. QED
        BY <4>1, <4>4
    <3>6. QED
      BY <1>2, <3>3, <3>4, <3>5
  <2>5. QED
    BY <2>3, <2>4
<1>10. o[Len(o)].last = D[k + 1].last /\ o[Len(o)].first <= D[k + 1].last
  <2>1. o[n].last = d.last /\ o[n].first <= d.last
    BY <1>2, <1>3, <1>4, <1>5
  <2>2. QED
    BY <1>5, <2>1 DEF d
<1>11. Merged(D, k + 1, o)
  BY <1>5, <1>6, <1>7, <1>8, <1>9, <1>10 DEF Merged
<1>12. QED
  BY <1>11 DEF o, n, d

LEMMA TurnKeeps ==
    ASSUME NEW T, NEW D \in Seq(T), OneByOne(D), NEW k \in Nat, k + 1 \in DOMAIN D,
           NEW r, Merged(D, k, r)
    PROVE  Merged(D, k + 1, Joined(r, D[k + 1]))
<1>1. \/ /\ r = <<>> \/ r[Len(r)].last + Gap + 1 < D[k + 1].first
         /\ Joined(r, D[k + 1]) = Append(r, [first |-> D[k + 1].first, last |-> D[k + 1].last])
      \/ /\ r # <<>> /\ D[k + 1].first <= r[Len(r)].last + Gap + 1
         /\ Joined(r, D[k + 1]) = [r EXCEPT ![Len(r)].last = D[k + 1].last]
  BY TurnIs
<1>2. CASE /\ r = <<>> \/ r[Len(r)].last + Gap + 1 < D[k + 1].first
           /\ Joined(r, D[k + 1]) = Append(r, [first |-> D[k + 1].first, last |-> D[k + 1].last])
  <2>1. Merged(D, k + 1, Append(r, [first |-> D[k + 1].first, last |-> D[k + 1].last]))
    BY <1>2, TurnBegins
  <2>2. QED
    BY <1>2, <2>1
<1>3. CASE /\ r # <<>> /\ D[k + 1].first <= r[Len(r)].last + Gap + 1
           /\ Joined(r, D[k + 1]) = [r EXCEPT ![Len(r)].last = D[k + 1].last]
  <2>1. Merged(D, k + 1, [r EXCEPT ![Len(r)].last = D[k + 1].last])
    BY <1>3, TurnLengthens
  <2>2. QED
    BY <1>3, <2>1
<1>4. QED
  BY <1>1, <1>2, <1>3


\* The loop as a whole.
LEMMA MergeRangesIs ==
    ASSUME NEW T, NEW D \in Seq(T), OneByOne(D)
    PROVE  Merged(D, Len(D), MergeRanges(D))
<1> DEFINE n == Len(D)
           Fits(F, m) == /\ \A k \in 0..m : Merged(D, k, F[k])
                         /\ F[0] = <<>>
                         /\ \A k \in 0..m : k + 1 \in 0..m => F[k + 1] = Joined(F[k], D[k + 1])
           S == {m \in 0..n : \E F : Fits(F, m)}
<1>1. n \in Nat /\ DOMAIN D = 1..n
  OBVIOUS
<1>2. Merged(D, 0, <<>>)
  <2> DEFINE e == <<>>
  <2>1. e \in Seq(Span) /\ Len(e) = 0 /\ DOMAIN e = {} /\ e = <<>>
    BY EmptySeq
  <2> HIDE DEF e
  <2>2. Merged(D, 0, e)
    BY <2>1 DEF Merged
  <2>3. QED
    BY <2>2 DEF e
<1>3. 0 \in S
  <2> DEFINE F == [k \in 0..0 |-> <<>>]
  <2>1. F[0] = <<>> /\ \A k \in 0..0 : k = 0 /\ ~(k + 1 \in 0..0)
    OBVIOUS
  <2> HIDE DEF F
  <2>2. Fits(F, 0)
    BY <1>2, <2>1
  <2>3. QED
    BY <1>1, <2>2
<1>4. ASSUME NEW m \in 0..n, m + 1 \in 0..n, m \in S PROVE m + 1 \in S
  <2>1. PICK F : Fits(F, m)
    BY <1>4
  <2> DEFINE next == Joined(F[m], D[m + 1])
             G == [k \in 0..m + 1 |-> IF k = m + 1 THEN next ELSE F[k]]
  <2>2. m \in Nat /\ m \in 0..m /\ m + 1 \in DOMAIN D
    BY <1>1, <1>4
  <2>3. Merged(D, m, F[m])
    BY <2>1, <2>2
  <2>4. Merged(D, m + 1, next)
    BY <2>2, <2>3, TurnKeeps
  <2>5. \A k \in 0..m + 1 : k = m + 1 \/ k \in 0..m
    BY <2>2
  <2>6. /\ \A k \in 0..m : G[k] = F[k]
        /\ G[m + 1] = next
    BY <2>2
  <2>7. \A k \in 0..m : k + 1 \in 0..m => F[k + 1] = Joined(F[k], D[k + 1])
    BY <2>1
  <2>8. F[0] = <<>> /\ \A k \in 0..m : Merged(D, k, F[k])
    BY <2>1
  <2> HIDE DEF G
  <2>9. \A k \in 0..m + 1 : k + 1 \in 0..m + 1 => G[k + 1] = Joined(G[k], D[k + 1])
    <3>1. SUFFICES ASSUME NEW k \in 0..m + 1, k + 1 \in 0..m + 1
                   PROVE  G[k + 1] = Joined(G[k], D[k + 1])
      OBVIOUS
    <3>2. k \in 0..m /\ (k = m \/ k + 1 \in 0..m)
      BY <2>2, <3>1
    <3>3. CASE k = m
      BY <2>2, <2>6, <3>3
    <3>4. CASE k + 1 \in 0..m
      <4>1. G[k + 1] = F[k + 1] /\ G[k] = F[k]
        BY <2>6, <3>2, <3>4
      <4>2. QED
        BY <2>7, <3>2, <3>4, <4>1
    <3>5. QED
      BY <3>2, <3>3, <3>4
  <2> HIDE DEF next
  <2>10. \A k \in 0..m + 1 : Merged(D, k, G[k])
    BY <2>4, <2>5, <2>6, <2>8
  <2>11. G[0] = <<>>
    BY <2>2, <2>6, <2>8
  <2>12. Fits(G, m + 1)
    BY <2>9, <2>10, <2>11
  <2>13. QED
    BY <1>4, <2>12
<1>5. S = 0..n
  <2>1. S \in SUBSET (0..n)
    OBVIOUS
  <2>2. \A k \in 0..n : k + 1 \in 0..n /\ k \in S => k + 1 \in S
    BY <1>4
  <2> HIDE DEF S, n
  <2>3. QED
    BY <1>1, <1>3, <2>1, <2>2, UpTo
<1>6. PICK F : Fits(F, n)
  <2>1. n \in S
    BY <1>1, <1>5
  <2>2. QED
    BY <2>1
<1> DEFINE Def(G) == G = [k \in 0..n |-> IF k = 0 THEN <<>> ELSE Joined(G[k - 1], D[k])]
           whole == [k \in 0..n |-> F[k]]
           B == CHOOSE G : Def(G)
<1>7. Def(whole)
  <2>1. \A k \in 0..n : k # 0 => k - 1 \in 0..n /\ (k - 1) + 1 = k
    BY <1>1
  <2>2. \A k \in 0..n : F[k] = IF k = 0 THEN <<>> ELSE Joined(F[k - 1], D[k])
    <3>1. \A k \in 0..n : k + 1 \in 0..n => F[k + 1] = Joined(F[k], D[k + 1])
      BY <1>6
    <3>2. F[0] = <<>>
      BY <1>6
    <3> HIDE DEF Fits, n
    <3>3. QED
      BY <2>1, <3>1, <3>2
  <2>3. \A k \in 0..n : k # 0 => whole[k - 1] = F[k - 1]
    BY <2>1
  <2>4. QED
    BY <2>2, <2>3
<1>8. MergeRanges(D) = B[n]
  BY SMT DEF MergeRanges
<1>9. Def(B)
  <2> HIDE DEF Def, whole
  <2>1. QED
    BY <1>7
<1> HIDE DEF B
<1>10. \A k \in 0..n : B[k] = IF k = 0 THEN <<>> ELSE Joined(B[k - 1], D[k])
  BY <1>9
<1> HIDE DEF Def
<1> DEFINE R == {k \in 0..n : Merged(D, k, B[k])}
<1>11. 0 \in R
  BY <1>1, <1>2, <1>10
<1>12. ASSUME NEW k \in 0..n, k + 1 \in 0..n, k \in R PROVE k + 1 \in R
  <2>1. k \in Nat /\ k + 1 \in DOMAIN D /\ k + 1 # 0 /\ (k + 1) - 1 = k
    BY <1>1, <1>12
  <2>2. B[k + 1] = Joined(B[k], D[k + 1])
    BY <1>10, <1>12, <2>1
  <2>3. Merged(D, k, B[k])
    BY <1>12
  <2>4. Merged(D, k + 1, Joined(B[k], D[k + 1]))
    BY <2>1, <2>3, TurnKeeps
  <2>5. QED
    BY <1>12, <2>2, <2>4
<1>13. R = 0..n
  <2>1. R \in SUBSET (0..n)
    OBVIOUS
  <2>2. \A k \in 0..n : k + 1 \in 0..n /\ k \in R => k + 1 \in R
    BY <1>12
  <2> HIDE DEF R, n
  <2>3. QED
    BY <1>1, <1>11, <2>1, <2>2, UpTo
<1>14. n \in R
  BY <1>1, <1>13
<1>15. QED
  BY <1>8, <1>14

-----------------------------------------------------------------------------
(* _extract_symbol_slice *)

\* Ranges that are whole symbols of s and short gaps between two of them.
WholeOf(rs, s) ==
    LET whole == {d \in s : \E k \in DOMAIN rs : Lines(d) \subseteq Lines(rs[k])}
    IN /\ rs # <<>>
       /\ \A k \in 1..(Len(rs) - 1) : rs[k].last + Gap + 1 < rs[k + 1].first
       /\ \A k \in DOMAIN rs : \A l \in Lines(rs[k]) :
              \E d, e \in whole : /\ d.first <= l /\ l <= e.last
                                  /\ \/ d = e
                                     \/ /\ d.last < l /\ l < e.first
                                        /\ e.first - d.last <= Gap + 1

\* Ranges that have the symbols of s with a name of a set.
HaveNamed(rs, s, names) ==
    \A d \in s : d.name \in names => \E k \in DOMAIN rs : Lines(d) \subseteq Lines(rs[k])

\* What _merge_ranges makes of definitions that follow each other is whole, and
\* has all of them.
LEMMA MergedWhole ==
    ASSUME NEW T, NEW D \in Seq(T), D # <<>>, OneByOne(D), NEW s, \A i \in DOMAIN D : D[i] \in s,
           NEW r, Merged(D, Len(D), r)
    PROVE  /\ r \in Seq(Span) /\ WholeOf(r, s)
           /\ \A i \in DOMAIN D : \E k \in DOMAIN r : Lines(D[i]) \subseteq Lines(r[k])
<1> DEFINE n == Len(D)
           whole == {d \in s : \E k \in DOMAIN r : Lines(d) \subseteq Lines(r[k])}
<1>1. n \in Nat /\ n # 0 /\ DOMAIN D = 1..n
  OBVIOUS
<1>2. /\ r \in Seq(Span) /\ r # <<>>
      /\ \A m \in 1..(Len(r) - 1) : r[m].last + Gap + 1 < r[m + 1].first
      /\ \A j \in 1..n : \E m \in DOMAIN r : r[m].first <= D[j].first /\ D[j].last <= r[m].last
      /\ \A m \in DOMAIN r : \A l \in Lines(r[m]) :
             \E i, j \in 1..n : /\ D[i].first <= l /\ l <= D[j].last
                                /\ \/ i = j
                                   \/ /\ D[i].last < l /\ l < D[j].first
                                      /\ D[j].first - D[i].last <= Gap + 1
  BY <1>1 DEF Merged
<1>3. ASSUME NEW i \in 1..n PROVE \E k \in DOMAIN r : Lines(D[i]) \subseteq Lines(r[k])
  <2>1. PICK k \in DOMAIN r : r[k].first <= D[i].first /\ D[i].last <= r[k].last
    BY <1>2
  <2>2. r[k].first \in Nat /\ r[k].last \in Nat
    <3>1. r[k] \in Span
      BY <1>2, <2>1
    <3>2. QED
      BY <3>1 DEF Span
  <2>3. D[i].first \in Nat /\ D[i].last \in Nat
    BY <1>1 DEF OneByOne
  <2>4. Lines(D[i]) \subseteq Lines(r[k])
    BY <2>1, <2>2, <2>3 DEF Lines
  <2>5. QED
    BY <2>1, <2>4
<1>4. \A i \in 1..n : D[i] \in whole
  BY <1>1, <1>3
<1> HIDE DEF whole, n
<1>5. ASSUME NEW m \in DOMAIN r, NEW l \in Lines(r[m])
      PROVE  \E d, e \in whole : /\ d.first <= l /\ l <= e.last
                                 /\ \/ d = e
                                    \/ /\ d.last < l /\ l < e.first
                                       /\ e.first - d.last <= Gap + 1
  <2>1. PICK i \in 1..n, j \in 1..n : /\ D[i].first <= l /\ l <= D[j].last
                                      /\ \/ i = j
                                         \/ /\ D[i].last < l /\ l < D[j].first
                                            /\ D[j].first - D[i].last <= Gap + 1
    BY <1>2
  <2>2. QED
    BY <1>4, <2>1
<1>6. WholeOf(r, s)
  BY <1>2, <1>5 DEF WholeOf, whole
<1>7. QED
  BY <1>1, <1>2, <1>3, <1>6 DEF n

\* What is kept, and that all of it is.
LEMMA KeptHas ==
    ASSUME NEW T, NEW s \in Seq(T), NEW S
    PROVE  /\ Keep(s, S) \in Seq(S \intersect T)
           /\ \A j \in DOMAIN s : s[j] \in S =>
                  \E k \in DOMAIN Keep(s, S) : Keep(s, S)[k] = s[j]
<1>1. /\ Keep(s, S) \in Seq(S \intersect T)
      /\ Len(Keep(s, S)) = Cardinality({i \in DOMAIN s : s[i] \in S})
      /\ \A j \in DOMAIN s : s[j] \in S =>
             \E k \in DOMAIN Keep(s, S) : Keep(s, S)[k] = s[j]
      /\ \E from \in [DOMAIN Keep(s, S) -> DOMAIN s] :
             /\ \A k \in DOMAIN Keep(s, S) : Keep(s, S)[k] = s[from[k]]
             /\ \A k, l \in DOMAIN Keep(s, S) : k < l => from[k] < from[l]
  BY KeepIs, Zenon
<1>2. QED
  BY <1>1, Zenon

\* With line numbers as the parser counts them, what is cut out of a text with
\* symbols is whole, and has every symbol the task names or the active file calls.
LEMMA SlicesWhole ==
    ASSUME NEW t, Grammatical(t), TopLevel(t) # <<>>, t.feeds = 0,
           NEW keywords, NEW called, NEW rs, rs = SymbolSlice(t, keywords, called)
    PROVE  /\ WholeOf(rs, ToSet(TopLevel(t)))
           /\ HaveNamed(rs, ToSet(TopLevel(t)), keywords \union called)
<1> DEFINE s == TopLevel(t)
           c == Chosen(s, keywords, called)
           C == {s[i] : i \in c}
           D == Keep(s, C)
           merged == MergeRanges(D)
<1>1. PICK T : s \in Seq(T) /\ OneByOne(s)
  BY TopLevelIs
<1>2. s # <<>>
  OBVIOUS
<1>3. rs = [k \in DOMAIN merged |-> Shifted(merged[k], t)]
  BY DEF SymbolSlice
<1> HIDE DEF merged, s
<1>4. /\ c \subseteq DOMAIN s /\ c # {}
      /\ \A i \in DOMAIN s : s[i].name \in keywords \union called => i \in c
  BY <1>1, <1>2, ChosenIs
<1> HIDE DEF c
<1>5. C # {} /\ \A x \in C : \E i \in DOMAIN s : s[i] = x
  BY <1>4
<1> HIDE DEF C
<1>6. OneByOne(D)
  BY <1>1, KeptFollow DEF OneByOne
<1>7. /\ D \in Seq(C \intersect T)
      /\ \A j \in DOMAIN s : s[j] \in C => \E k \in DOMAIN D : D[k] = s[j]
  <2>1. s \in Seq(T)
    BY <1>1
  <2>2. /\ Keep(s, C) \in Seq(C \intersect T)
        /\ \A j \in DOMAIN s : s[j] \in C =>
               \E k \in DOMAIN Keep(s, C) : Keep(s, C)[k] = s[j]
    BY <2>1, KeptHas
  <2>3. QED
    BY <2>2
<1> HIDE DEF D
<1>8. D # <<>>
  <2>1. \E k \in DOMAIN D : TRUE
    BY <1>5, <1>7
  <2>2. QED
    BY <2>1
<1>9. \A k \in DOMAIN D : D[k] \in ToSet(s)
  <2>1. \A k \in DOMAIN D : D[k] \in C
    BY <1>7
  <2>2. QED
    BY <1>5, <2>1 DEF ToSet
<1>10. Merged(D, Len(D), merged)
  BY <1>6, <1>7, MergeRangesIs DEF merged
<1>11. /\ merged \in Seq(Span) /\ WholeOf(merged, ToSet(s))
       /\ \A i \in DOMAIN D : \E k \in DOMAIN merged : Lines(D[i]) \subseteq Lines(merged[k])
  <2> DEFINE own == ToSet(s)
             U == C \intersect T
  <2>1. D \in Seq(U) /\ \A i \in DOMAIN D : D[i] \in own
    BY <1>7, <1>9
  <2> HIDE DEF own, U
  <2>2. /\ merged \in Seq(Span) /\ WholeOf(merged, own)
        /\ \A i \in DOMAIN D : \E k \in DOMAIN merged : Lines(D[i]) \subseteq Lines(merged[k])
    BY ONLY <1>6, <1>8, <1>10, <2>1, MergedWhole
  <2>3. QED
    BY <2>2 DEF own
<1>12. rs = merged
  <2>1. \A k \in DOMAIN merged : merged[k] \in Span
    BY <1>11
  <2>2. \A x \in Span : Shifted(x, t) = x
    BY DEF Shifted, Span
  <2>3. \A k \in DOMAIN merged : Shifted(merged[k], t) = merged[k]
    BY <2>1, <2>2
  <2>4. merged = [k \in DOMAIN merged |-> merged[k]]
    BY <1>11
  <2>5. QED
    BY <1>3, <2>3, <2>4
<1>13. ASSUME NEW d \in ToSet(s), d.name \in keywords \union called
       PROVE  \E k \in DOMAIN merged : Lines(d) \subseteq Lines(merged[k])
  <2>1. PICK j \in DOMAIN s : s[j] = d
    BY DEF ToSet
  <2>2. d \in C
    BY <1>4, <1>13, <2>1 DEF C
  <2>3. PICK k \in DOMAIN D : D[k] = d
    BY <1>7, <2>1, <2>2
  <2>4. QED
    BY <1>11, <2>3
<1>14. QED
  BY <1>11, <1>12, <1>13 DEF HaveNamed, s

\* Definitions with names of their own all have an entry in the table, so all
\* that they call is called.
LEMMA CallsCalled ==
    ASSUME NEW t, Grammatical(t),
           \A i, j \in Walked(t) : Defs(t)[i].name = Defs(t)[j].name => i = j,
           NEW i \in Walked(t)
    PROVE  CallsOf(Defs(t)[i]) \subseteq CalledNames(SymbolGraph(t))
<1> DEFINE e == [name |-> Defs(t)[i].name, calls |-> CallsOf(Defs(t)[i])]
<1>1. SUFFICES ASSUME CallsOf(Defs(t)[i]) # {}
               PROVE  CallsOf(Defs(t)[i]) \subseteq CalledNames(SymbolGraph(t))
  OBVIOUS
<1>2. i \in Entries(t)
  <2>1. \A j \in Walked(t) : j \in Nat
    <3>1. Defs(t) \in Seq(ToSet(t.defs))
      BY EmptySeq DEF Defs, Grammatical
    <3>2. QED
      BY <3>1 DEF Walked
  <2>2. QED
    BY <2>1 DEF Entries
<1>3. e \in SymbolGraph(t)
  BY <1>1, <1>2 DEF SymbolGraph
<1>4. e.calls = CallsOf(Defs(t)[i])
  OBVIOUS
<1> HIDE DEF e
<1>5. QED
  BY <1>3, <1>4 DEF CalledNames

-----------------------------------------------------------------------------
(* The slices of a pack *)

\* What the symbol walker reads of a snapshot.
GraphOf(t) == IF Exists(active, t) THEN SymbolGraph(t[active]) ELSE {}

\* What is cut out of a text, given the call graph.
RangesOf(f, t, g) ==
    IF Suffix(f) = "py" THEN SymbolSlice(t, TaskKeywords(Task), CalledNames(g)) ELSE Plain(t)

CutBy(x, g) == Grammatical(x.text) /\ x.ranges = RangesOf(x.file, x.text, g)

Texts == \A i \in DOMAIN story : \A f \in Files(story[i].tree) : Grammatical(story[i].tree[f])

\* The call graph is that of the snapshot the walker is marked with, there are no
\* slices before it is read, and every slice is cut by it.
CutThere ==
    /\ Texts
    /\ at["symbols"] \in 0..Len(story)
    /\ found.graph = IF at["symbols"] = 0 THEN {} ELSE GraphOf(story[at["symbols"]].tree)
    /\ pc = "header" => shown = <<>>
    /\ shown \in Seq(ToSet(shown))
    /\ \A i \in DOMAIN shown : CutBy(shown[i], found.graph)

LEMMA CutInit == RepoInit => CutThere
<1> SUFFICES ASSUME RepoInit PROVE CutThere
  OBVIOUS
<1>1. PICK s \in Starts : story = s.story
  BY DEF RepoInit
<1>2. Texts /\ Len(story) \in Nat
  BY <1>1, StartsAssumption DEF Texts
<1>3. at["symbols"] = 0 /\ found.graph = {}
  <2>1. UNION {Reads[w] : w \in DOMAIN Reads} = {"own", "importers", "symbols", "diff", "names"}
    BY DEF Reads
  <2>2. QED
    BY <2>1 DEF RepoInit, Nothing
<1>4. shown = <<>>
  BY DEF RepoInit
<1>5. shown \in Seq(ToSet(shown)) /\ DOMAIN shown = {}
  BY <1>4
<1>6. QED
  BY <1>2, <1>3, <1>4, <1>5 DEF CutThere

\* Steps that read no symbols and cut nothing.
LEMMA CutElsewhere ==
    ASSUME CutThere, active' = active, story' = story, at'["symbols"] = at["symbols"],
           found'.graph = found.graph, shown' = shown, pc' = "header" => pc = "header"
    PROVE  CutThere'
<1>1. Texts'
  BY DEF CutThere, Texts
<1>2. QED
  BY <1>1 DEF CutThere, GraphOf

LEMMA CutReads ==
    ASSUME StoryOK, CutThere, ReadSymbols
    PROVE  CutThere'
<1>1. /\ pc = "header" /\ at["symbols"] = 0 /\ UNCHANGED <<vars, story, shown>>
      /\ found' = IF Exists(active, tree) THEN [found EXCEPT !.graph = SymbolGraph(tree[active])]
                  ELSE found
      /\ at' = [r \in DOMAIN at |-> IF r \in {"symbols"} THEN now ELSE at[r]]
  BY DEF ReadSymbols, Walking, Unread, Read
<1>2. pc' = pc /\ active' = active /\ story' = story /\ shown' = shown
  BY <1>1 DEF vars
<1>3. at'["symbols"] = now /\ now \in 1..Len(story) /\ now # 0 /\ Len(story) \in Nat
  BY <1>1 DEF StoryOK
<1>4. found.graph = {}
  BY <1>1 DEF CutThere
<1>5. found'.graph = GraphOf(story[now].tree)
  <2>1. tree = story[now].tree
    BY DEF tree
  <2>2. CASE Exists(active, tree)
    <3>1. found'.graph = SymbolGraph(tree[active])
      BY <1>1, <2>2 DEF StoryOK
    <3>2. QED
      BY <2>1, <2>2, <3>1 DEF GraphOf
  <2>3. CASE ~Exists(active, tree)
    <3>1. found' = found
      BY <1>1, <2>3
    <3>2. QED
      BY <1>4, <2>1, <2>3, <3>1 DEF GraphOf
  <2>4. QED
    BY <2>2, <2>3
<1>6. Texts'
  BY <1>2 DEF CutThere, Texts
<1>7. shown = <<>> /\ shown \in Seq(ToSet(shown)) /\ DOMAIN shown = {}
  BY <1>1 DEF CutThere
<1>8. at'["symbols"] \in 0..Len(story) /\ at'["symbols"] # 0
  BY <1>3
<1>9. (GraphOf(story[at["symbols"]].tree))' = GraphOf(story[now].tree)
  BY <1>2, <1>3 DEF GraphOf
<1>10. QED
  BY <1>2, <1>5, <1>6, <1>7, <1>8, <1>9 DEF CutThere

LEMMA CutSlices ==
    ASSUME StoryOK, CutThere, Slice
    PROVE  CutThere'
<1> DEFINE x == [file |-> Here, text |-> tree[Here], ranges |-> SliceOf(Here)]
           s == Append(shown, x)
<1>1. /\ pc = "slices" /\ pc' = pc /\ active' = active /\ UNCHANGED <<story, at, found>>
      /\ shown' = s /\ Exists(Here, tree)
  BY DEF Slice, AtFile, TakeSlice, walkVars
<1>2. CutBy(x, found.graph)
  <2>1. x.file = Here /\ x.text = tree[Here] /\ x.ranges = SliceOf(Here)
    OBVIOUS
  <2>2. SliceOf(Here) = RangesOf(Here, tree[Here], found.graph)
    BY DEF SliceOf, RangesOf
  <2>3. Grammatical(tree[Here])
    BY <1>1 DEF CutThere, Texts, StoryOK, tree, Exists
  <2>4. QED
    BY <2>1, <2>2, <2>3 DEF CutBy
<1> DEFINE S == ToSet(shown) \union {x}
<1> HIDE DEF x
<1>3. shown \in Seq(S) /\ x \in S
  BY DEF CutThere
<1> HIDE DEF S
<1>4. /\ s \in Seq(S) /\ Len(s) = Len(shown) + 1 /\ Len(shown) \in Nat
      /\ s[Len(shown) + 1] = x /\ \A i \in 1..Len(shown) : s[i] = shown[i]
  BY <1>3
<1> HIDE DEF s
<1>5. DOMAIN s = 1..(Len(shown) + 1) /\ DOMAIN shown = 1..Len(shown)
  BY <1>3, <1>4
<1>6. \A i \in DOMAIN s : CutBy(s[i], found.graph)
  <2>1. \A i \in 1..Len(shown) : CutBy(shown[i], found.graph)
    BY <1>5 DEF CutThere
  <2>2. \A i \in DOMAIN s : i \in 1..Len(shown) \/ i = Len(shown) + 1
    BY <1>4, <1>5
  <2>3. QED
    BY <1>2, <1>4, <2>1, <2>2
<1>7. s \in Seq(ToSet(s))
  <2>1. \A i \in 1..Len(s) : s[i] \in ToSet(s)
    BY <1>4, <1>5 DEF ToSet
  <2>2. QED
    BY <1>4, <2>1
<1>8. Texts'
  BY <1>1 DEF CutThere, Texts
<1>9. QED
  BY <1>1, <1>6, <1>7, <1>8 DEF CutThere, GraphOf

LEMMA CutStep == StoryOK /\ CutThere /\ [RepoNext]_allVars => CutThere'
<1> SUFFICES ASSUME StoryOK, CutThere, [RepoNext]_allVars PROVE CutThere'
  OBVIOUS
<1>1. ASSUME NEW rs \in SUBSET {"own", "importers", "diff", "names", "seeds"}, Read(rs)
      PROVE  at'["symbols"] = at["symbols"]
  <2>1. "symbols" \notin rs
    OBVIOUS
  <2>2. QED
    BY <1>1, <2>1 DEF Read, StoryOK
<1>2. CASE UNCHANGED allVars
  BY <1>2, CutElsewhere DEF allVars, vars, repoVars, walkVars
<1>3. CASE Develop
  BY <1>3, CutElsewhere DEF Develop, vars, walkVars
<1>4. CASE ReadImports
  <2>1. Read({"own"}) \/ Read({"own", "importers"})
    BY <1>4 DEF ReadImports, Reads
  <2>2. found'.graph = found.graph
    BY <1>4 DEF ReadImports, StoryOK
  <2>3. UNCHANGED <<vars, story, shown>>
    BY <1>4 DEF ReadImports
  <2>4. QED
    BY <1>1, <2>1, <2>2, <2>3, CutElsewhere DEF vars
<1>5. CASE FindImporters
  <2>1. Read({"importers"}) /\ UNCHANGED <<vars, story, shown>>
    BY <1>5 DEF FindImporters
  <2>2. found'.graph = found.graph
    <3>1. PICK S \in FoundImporters(active, tree) :
              \E s \in SetToSeqs(S) : found' = [found EXCEPT !.importedBy = s]
      BY <1>5 DEF FindImporters
    <3>2. PICK s \in SetToSeqs(S) : found' = [found EXCEPT !.importedBy = s]
      BY <3>1
    <3>3. QED
      BY <3>2 DEF StoryOK
  <2>3. QED
    BY <1>1, <2>1, <2>2, CutElsewhere DEF vars
<1>6. CASE ReadDiff \/ ReadNames \/ Filter
  <2>1. Read({"diff", "names"}) \/ Read({"diff"}) \/ Read({"names"}) \/ Read({"seeds"})
    BY <1>6 DEF ReadDiff, ReadNames, Filter, Reads
  <2>2. found'.graph = found.graph
    BY <1>6 DEF ReadDiff, ReadNames, Filter, StoryOK
  <2>3. UNCHANGED <<vars, story, shown>>
    BY <1>6 DEF ReadDiff, ReadNames, Filter
  <2>4. QED
    BY <1>1, <2>1, <2>2, <2>3, CutElsewhere DEF vars
<1>7. ASSUME NEW w \in DOMAIN Reads, WalkerFails(w) PROVE CutThere'
  <2>1. w = "imports" \/ w = "symbols" \/ w = "diff"
    BY DEF Reads
  <2>2. found'.graph = found.graph
    BY <1>7, <2>1 DEF WalkerFails, StoryOK
  <2>3. UNCHANGED <<vars, story, at, shown>>
    BY <1>7 DEF WalkerFails
  <2>4. QED
    BY <2>2, <2>3, CutElsewhere DEF vars
<1>8. CASE (\E h \in Headers : Header(h)) \/ Graph
  <2>1. active' = active /\ pc' # "header" /\ UNCHANGED repoVars
    BY <1>8 DEF Header, Graph, TakeHeader, TakeGraph
  <2>2. QED
    BY <2>1, CutElsewhere DEF repoVars, walkVars
<1>9. ASSUME NEW ws \in SUBSET {"imports", "diff"}, Drop(ws)
      PROVE  at'["symbols"] = at["symbols"] /\ UNCHANGED <<story, shown>>
  <2>1. at' = [r \in DOMAIN at |->
                 IF r = "seeds" \/ \E w \in ws : r \in Reads[w] THEN 0 ELSE at[r]]
    BY <1>9 DEF Drop
  <2>2. \A w \in ws : "symbols" \notin Reads[w]
    BY DEF Reads
  <2>3. QED
    BY <1>9, <2>1, <2>2 DEF Drop, StoryOK
<1>10. ASSUME NEW d \in Diffs, Diff(d) PROVE CutThere'
  <2>1. active' = active /\ pc' # "header" /\ Drop({"diff"})
    BY <1>10 DEF Diff, TakeDiff
  <2>2. found'.graph = found.graph
    BY <1>10 DEF Diff, StoryOK
  <2>3. QED
    BY <1>9, <2>1, <2>2, CutElsewhere
<1>11. CASE (\E r \in Rankings : RankIndexed(r)) \/ RankFallback
  <2>1. active' = active /\ pc' # "header" /\ DropImports
    BY <1>11 DEF RankIndexed, RankFallback
  <2>2. Drop({"imports"}) /\ found'.graph = found.graph
    BY <2>1 DEF DropImports, StoryOK
  <2>3. QED
    BY <1>9, <2>1, <2>2, CutElsewhere
<1>12. CASE Skip \/ Dedup \/ ReadRaises \/ End
  <2>1. active' = active /\ (pc' = "header" => pc = "header") /\ UNCHANGED repoVars
    BY <1>12 DEF Skip, Dedup, ReadRaises, End, SkipFile, DedupFile, ReadFails, Finish
  <2>2. QED
    BY <2>1, CutElsewhere DEF repoVars, walkVars
<1>13. QED
  BY <1>2, <1>3, <1>4, <1>5, <1>6, <1>7, <1>8, <1>10, <1>11, <1>12, CutReads, CutSlices
  DEF RepoNext

\* A slice that is cut along symbols is one SlicesWhole speaks of.
LEMMA CutMeans ==
    ASSUME CutThere, NEW i \in Cut
    PROVE  LET s == ToSet(TopLevel(shown[i].text)) IN
           /\ WholeOf(shown[i].ranges, s)
           /\ HaveNamed(shown[i].ranges, s, (Task \ StopWords) \union CalledNames(found.graph))
<1> DEFINE t      == shown[i].text
           rs     == shown[i].ranges
           called == CalledNames(found.graph)
<1>1. Suffix(shown[i].file) = "py" /\ t.feeds = 0 /\ TopLevel(t) # <<>> /\ i \in DOMAIN shown
  BY DEF Cut
<1>2. Grammatical(t) /\ rs = SymbolSlice(t, TaskKeywords(Task), called)
  BY <1>1 DEF CutThere, CutBy, RangesOf
<1>3. TaskKeywords(Task) = Task \ StopWords
  BY DEF TaskKeywords
<1> DEFINE words == Task \ StopWords
<1>4. rs = SymbolSlice(t, words, called)
  BY <1>2, <1>3
<1> HIDE DEF t, rs, called, words
<1>5. /\ WholeOf(rs, ToSet(TopLevel(t)))
      /\ HaveNamed(rs, ToSet(TopLevel(t)), words \union called)
  BY <1>1, <1>2, <1>4, SlicesWhole
<1>6. QED
  BY <1>5 DEF t, rs, called, words

LEMMA CutIsWhole == CutThere => SymbolsWhole
<1> SUFFICES ASSUME CutThere PROVE SymbolsWhole
  OBVIOUS
<1>1. \A i \in Cut : WholeOf(shown[i].ranges, ToSet(TopLevel(shown[i].text)))
  BY CutMeans
<1>2. QED
  BY <1>1 DEF SymbolsWhole, WholeOf

LEMMA CutHasInterest == StoryOK /\ CutThere => InterestShown
<1> DEFINE t     == IF Unread("symbols") \/ active = NoFile THEN Absent
                    ELSE story[at["symbols"]].tree[active]
           defs  == IF t = Absent THEN <<>> ELSE Defs(t)
           calls == UNION {CallsOf(defs[i]) : i \in DOMAIN defs}
<1>1. SUFFICES ASSUME StoryOK, CutThere,
                      \A i, j \in DOMAIN defs : defs[i].name = defs[j].name => i = j,
                      NEW i \in Cut, NEW d \in ToSet(TopLevel(shown[i].text)),
                      d.name \in (Task \ StopWords) \union calls
               PROVE  \E k \in DOMAIN shown[i].ranges : Lines(d) \subseteq Lines(shown[i].ranges[k])
  BY Zenon DEF InterestShown
<1>2. calls \subseteq CalledNames(found.graph)
  <2>1. CASE t = Absent
    <3>1. defs = <<>>
      BY <2>1
    <3> HIDE DEF defs
    <3>2. DOMAIN defs = {}
      BY <3>1
    <3>3. QED
      BY <3>2
  <2>2. CASE t # Absent
    <3>1. /\ at["symbols"] # 0 /\ active \in File
          /\ t = story[at["symbols"]].tree[active]
      BY <1>1, <2>2 DEF Unread, StoryOK
    <3>2. active \in Files(story[at["symbols"]].tree)
      BY <2>2, <3>1 DEF Files
    <3>3. found.graph = SymbolGraph(t)
      BY <1>1, <3>1, <3>2 DEF CutThere, GraphOf, Exists
    <3>4. Grammatical(t)
      <4>1. at["symbols"] \in DOMAIN story
        BY <1>1, <3>1 DEF StoryOK, CutThere
      <4>2. QED
        BY <1>1, <3>1, <3>2, <4>1 DEF CutThere, Texts
    <3>5. defs = Defs(t) /\ DOMAIN defs = Walked(t)
      BY <2>2 DEF Walked
    <3>6. \A k, j \in Walked(t) : Defs(t)[k].name = Defs(t)[j].name => k = j
      BY <1>1, <3>5
    <3> HIDE DEF t, defs
    <3>7. \A k \in Walked(t) : CallsOf(Defs(t)[k]) \subseteq CalledNames(SymbolGraph(t))
      BY <3>4, <3>6, CallsCalled
    <3>8. QED
      BY <3>3, <3>5, <3>7
  <2>3. QED
    BY <2>1, <2>2
<1> HIDE DEF calls, defs, t
<1>3. d.name \in (Task \ StopWords) \union CalledNames(found.graph)
  BY <1>1, <1>2
<1>4. HaveNamed(shown[i].ranges, ToSet(TopLevel(shown[i].text)),
                (Task \ StopWords) \union CalledNames(found.graph))
  BY <1>1, CutMeans
<1>5. QED
  BY <1>1, <1>3, <1>4 DEF HaveNamed

\* Whatever texts the files have, and however far the developer has gone on when
\* they are read, what is cut out along symbols has whole symbols, in order, each
\* line once, and between them no more than short gaps.
THEOREM CutsAreWhole == RepoSpec => []SymbolsWhole
<1>1. FInv /\ CutThere /\ [RepoNext]_allVars => CutThere'
  BY CutStep DEF FInv
<1>2. QED
  BY <1>1, CutInit, CutIsWhole, FoundInit, FoundStep, PTL DEF RepoSpec

\* And no symbol the task names, or the active file calls as the symbol walker
\* read it, is left out of a slice, however many there are.
THEOREM InterestKept == RepoSpec => []InterestShown
<1>1. FInv /\ CutThere /\ [RepoNext]_allVars => CutThere'
  BY CutStep DEF FInv
<1>2. FInv /\ CutThere => InterestShown
  BY CutHasInterest DEF FInv
<1>3. QED
  BY <1>1, <1>2, CutInit, FoundInit, FoundStep, PTL DEF RepoSpec
=============================================================================
