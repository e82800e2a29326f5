----------------------------- MODULE PackOfRepo -----------------------------
(***************************************************************************)
(* A pack of a repository: the three walkers build_context starts at once  *)
(* (src/rlm/main.py, src/rlm/walkers), then assemble                       *)
(* (src/rlm/context_pack.py) over what they found, while the developer     *)
(* goes on.  Each walker reads at moments of its own; git is asked three   *)
(* times.  The slices are read when the walkers have long ended.           *)
(*                                                                         *)
(* What the developer does is a story, a sequence of snapshots, of which   *)
(* the request meets the first; each has the tree, the last commit's, and  *)
(* the files added to git since then.                                      *)
(* A text is what Imports and Symbols see of it.  A line is a token.       *)
(***************************************************************************)
EXTENDS ContextPack, Imports, Symbols

CONSTANTS
    Starts,       \* story, active file and setting repo_index_enabled
    NoGit,        \* in place of the last commit where there is no .git
    NoSeedDirs,   \* _SKIP_PREFIXES: directories whose changes do not seed a ranking
    Task,         \* words of the task
    NameTokens,   \* tokens of a name in the call graph
    Scores        \* scores a ranking of the index may carry

ASSUME StartsAssumption ==
    \A s \in Starts :
        /\ Len(s.story) \in Nat \ {0} /\ DOMAIN s.story = 1..Len(s.story)
        /\ \A i \in DOMAIN s.story :
               LET t == s.story[i].tree
               IN Readable(t) /\ \A f \in Files(t) : Grammatical(t[f])

ASSUME ScoresAssumption == Scores \subseteq Nat

VARIABLES
    story, now,   \* the developer
    at,           \* the snapshot each read was made of, 0 before
    failed,       \* walkers that timed out or ended with an error; "git" if a call of it did
    found,        \* walker_results, and the seeds made of them
    shown         \* file, text and ranges of each slice

walkVars == <<at, failed, found>>
repoVars == <<story, now, walkVars, shown>>
allVars  == <<vars, repoVars>>

tree == story[now].tree
head == story[now].head

Reads == [imports |-> {"own", "importers"}, symbols |-> {"symbols"},
          diff |-> {"diff", "names"}]

Nothing == [imports |-> <<>>, importedBy |-> <<>>, graph |-> {}, diff |-> "none",
            changed |-> {}, seeds |-> {}]

RepoInit ==
    /\ \E s \in Starts : /\ story = s.story
                         /\ active = s.active
                         /\ indexed = (s.index /\ s.active # NoFile)
    /\ Init
    /\ now = 1
    /\ at = [r \in {"seeds"} \union UNION {Reads[w] : w \in DOMAIN Reads} |-> 0]
    /\ failed = {}
    /\ found = Nothing
    /\ shown = <<>>

Develop ==
    /\ now < Len(story) /\ pc \notin {"done", "failed"}
    /\ now' = now + 1
    /\ UNCHANGED <<vars, story, walkVars, shown>>

-----------------------------------------------------------------------------
(* The walkers *)

Walking(w) == pc = "header" /\ w \notin failed
Unread(r)  == at[r] = 0
Read(rs)   == at' = [r \in DOMAIN at |-> IF r \in rs THEN now ELSE at[r]]

\* run of the import walkers: nothing of a file that is absent.
ReadImports ==
    /\ Walking("imports") /\ Unread("own")
    /\ IF Exists(active, tree)
       THEN found' = [found EXCEPT !.imports = OwnImports(active, tree)] /\ Read({"own"})
       ELSE found' = found /\ Read(Reads.imports)
    /\ UNCHANGED <<vars, story, now, failed, shown>>

\* find_importers, in the order of the directories.
FindImporters ==
    /\ Walking("imports") /\ ~Unread("own") /\ Unread("importers")
    /\ \E S \in FoundImporters(active, tree) : \E s \in SetToSeqs(S) :
           found' = [found EXCEPT !.importedBy = s]
    /\ Read({"importers"})
    /\ UNCHANGED <<vars, story, now, failed, shown>>

ReadSymbols ==
    /\ Walking("symbols") /\ Unread("symbols")
    /\ found' = IF Exists(active, tree)
                THEN [found EXCEPT !.graph = SymbolGraph(tree[active])] ELSE found
    /\ Read({"symbols"})
    /\ UNCHANGED <<vars, story, now, failed, shown>>

\* git diff HEAD: files of the last commit that are different now or gone, and
\* those added since.
ChangedIn(s) == {f \in Files(s.head) \union s.added : s.tree[f] # s.head[f]}

Changed == ChangedIn(story[now])

\* run_git: the output, or nothing if git fails or takes too long.
Git(answers) == failed' = IF answers THEN failed ELSE failed \union {"git"}

\* The uncommitted changes or, if that came out empty, those of the last commit.
ReadDiff ==
    /\ Walking("diff") /\ Unread("diff")
    /\ IF head = NoGit
       THEN Read(Reads.diff) /\ UNCHANGED <<found, failed>>
       ELSE /\ Read({"diff"})
            /\ \E diff, show \in BOOLEAN :
                   /\ Git(diff /\ (show \/ Changed # {}))
                   /\ found' = [found EXCEPT !.diff =
                          IF diff /\ Changed # {} THEN "uncommitted"
                          ELSE IF show THEN "commit" ELSE "none"]
    /\ UNCHANGED <<vars, story, now, shown>>

\* Mutant: the names are those of git status, with files not yet added.
ReadStatus ==
    /\ Walking("diff") /\ ~Unread("diff") /\ Unread("names")
    /\ \E g \in BOOLEAN :
           /\ Git(g)
           /\ found' = [found EXCEPT !.changed =
                  IF g THEN {f \in File : tree[f] # head[f]} ELSE {}]
    /\ Read({"names"})
    /\ UNCHANGED <<vars, story, now, shown>>

\* git diff HEAD --name-only, asked after the diff.
ReadNames ==
    /\ Walking("diff") /\ ~Unread("diff") /\ Unread("names")
    /\ \E g \in BOOLEAN :
           /\ Git(g)
           /\ found' = [found EXCEPT !.changed = IF g THEN Changed ELSE {}]
    /\ Read({"names"})
    /\ UNCHANGED <<vars, story, now, shown>>

Ended(w) == w \in failed \/ \A r \in Reads[w] : ~Unread(r)

\* Whatever it had found is lost.
WalkerFails(w) ==
    /\ pc = "header" /\ ~Ended(w)
    /\ failed' = failed \union {w}
    /\ found' = CASE w = "imports" -> [found EXCEPT !.imports = <<>>]
                  [] w = "symbols" -> found
                  [] w = "diff"    -> [found EXCEPT !.diff = "none"]
    /\ UNCHANGED <<vars, story, now, at, shown>>

-----------------------------------------------------------------------------
(* build_context, when the walkers have ended *)

MaySeed(f) == ~(Len(f) > 1 /\ Head(f) \in NoSeedDirs)

\* changed_abs: of the names, those of files that are there now.
Filter ==
    /\ pc = "header" /\ indexed /\ Unread("seeds")
    /\ \A w \in DOMAIN Reads : Ended(w)
    /\ found' = [found EXCEPT !.seeds =
                     {f \in found.changed : Exists(f, tree) /\ MaySeed(f)}]
    /\ Read({"seeds"})
    /\ UNCHANGED <<vars, story, now, failed, shown>>

-----------------------------------------------------------------------------
(* assemble *)

Header(h) ==
    /\ \A w \in DOMAIN Reads : Ended(w)
    /\ indexed => ~Unread("seeds")
    /\ TakeHeader(h)
    /\ UNCHANGED repoVars

\* What assemble does not need any more is dropped here, so that fewer states
\* differ.
Drop(ws) ==
    /\ at' = [r \in DOMAIN at |->
                 IF r = "seeds" \/ \E w \in ws : r \in Reads[w] THEN 0 ELSE at[r]]
    /\ failed' = failed \ (ws \union {"git"})
    /\ UNCHANGED <<story, now, shown>>

Diff(d) ==
    /\ d.tokens = 0 <=> found.diff = "none"
    /\ TakeDiff(d)
    /\ Drop({"diff"})
    /\ found' = [found EXCEPT !.diff = "none", !.changed = {}, !.seeds = {}]

GraphTokens ==
    NameTokens * MapThenSumSet(LAMBDA e : 1 + Cardinality(e.calls), found.graph)

Graph == TakeGraph(GraphTokens) /\ UNCHANGED repoVars

\* What the gateway may hand over: files the index has met.
Rankings ==
    LET known == UNION {Files(story[i].tree) : i \in 1..now} IN
    {r \in UNION {[1..n -> [file : known, score : Scores]] : n \in 0..Cardinality(known)} :
        Distinct(r) /\ Sorted(r)}

\* max(score, 1.5) for the active file.
Raised(c) ==
    IF c.file = active /\ c.score < 15 THEN [c EXCEPT !.score = 15] ELSE c

\* Mutant: the active file comes in whether or not the ranking has it.
WithActiveAgain(r) ==
    IF Exists(active, tree) THEN Append(r, [file |-> active, score |-> 20]) ELSE r

\* The active file, if it exists and the ranking lacks it, comes in with 2.0.
WithActive(r) ==
    IF active \notin FilesOf(r) /\ Exists(active, tree)
    THEN Append(r, [file |-> active, score |-> 20]) ELSE r

DropImports ==
    /\ Drop({"imports"})
    /\ found' = [found EXCEPT !.imports = <<>>, !.importedBy = <<>>]

RankIndexed(r) ==
    /\ pc = "rank" /\ indexed
    /\ pc' = "slices"
    /\ todo' = SortByScore(WithActive([i \in DOMAIN r |-> Raised(r[i])]))
    /\ DropImports
    /\ UNCHANGED <<active, indexed, budget, slices, deduped>>

Scored(s, n) == [i \in DOMAIN s |-> [file |-> s[i], score |-> n]]

\* Mutant: the active file is listed among its own imports, too.
AnyFile(s) == s

NotActive(s) == Keep(s, File \ {active})

\* No ranking: active file, what it imports, what imports it.
RankFallback ==
    /\ pc = "rank" /\ ~indexed
    /\ pc' = "slices"
    /\ todo' = (IF Exists(active, tree) THEN Scored(<<active>>, 15) ELSE <<>>)
               \o Scored(NotActive(found.imports), 10)
               \o Scored(NotActive(found.importedBy), 7)
    /\ DropImports
    /\ UNCHANGED <<active, indexed, budget, slices, deduped>>

Here == Head(todo).file

Skip ==
    /\ SkipFile
    /\ ~Exists(Here, tree) \/ Here \notin Code
    /\ UNCHANGED repoVars

Dedup == DedupFile /\ Exists(Here, tree) /\ UNCHANGED repoVars

\* Only Python is cut along its symbols.
SliceOf(f) ==
    IF Suffix(f) = "py"
    THEN SymbolSlice(tree[f], TaskKeywords(Task), CalledNames(found.graph))
    ELSE Plain(tree[f])

Slice ==
    /\ AtFile /\ Exists(Here, tree)
    /\ TakeSlice(SliceLines(SliceOf(Here)))
    /\ shown' = Append(shown, [file |-> Here, text |-> tree[Here], ranges |-> SliceOf(Here)])
    /\ UNCHANGED <<story, now, walkVars>>

ReadRaises == ReadFails /\ Exists(Here, tree) /\ UNCHANGED repoVars

End == Finish /\ UNCHANGED repoVars

RepoNext ==
    \/ Develop
    \/ ReadImports \/ FindImporters \/ ReadSymbols \/ ReadDiff \/ ReadNames
    \/ \E w \in DOMAIN Reads : WalkerFails(w)
    \/ Filter
    \/ \E h \in Headers : Header(h)
    \/ \E d \in Diffs : Diff(d)
    \/ Graph
    \/ pc = "rank" /\ \E r \in Rankings : RankIndexed(r)
    \/ RankFallback
    \/ Skip \/ Dedup \/ Slice \/ ReadRaises \/ End

RepoSpec == RepoInit /\ [][RepoNext]_allVars

-----------------------------------------------------------------------------
(* Properties *)

\* Whatever walkers, repository and index come to, assemble does what
\* ContextPack says: the list is sorted, the active file early, and the rest
\* follows.
Assembles == Spec

\* On the tree it scanned, a walker finds every file of the active file's
\* language that imports it, by the walker's own resolution, if the active file
\* does not stand for a directory, and for TypeScript it finds no other.
ImportersFound ==
    at["importers"] # 0 /\ "imports" \notin failed
      /\ Exists(active, story[at["own"]].tree) =>
        LET t  == story[at["importers"]].tree
            by == ToSet(found.importedBy)
        IN /\ IsTs(active) => by \subseteq TrueImporters(active, t)
           /\ ~IsPackage(active) /\ (IsTs(active) \/ Cardinality(PyFiles(t)) <= MaxFiles) =>
                  {f \in TrueImporters(active, t) : IsTs(f) => ~Skipped(f)} \subseteq by

\* Text and seeds go together: if git answers and nobody commits, adds or saves
\* between its calls, files seed a ranking only if the diff shown is of
\* uncommitted work, and then all files of that work that are there when they
\* are looked for do, but for those in tests and docs.
DiffNamesSeeds ==
    at["diff"] # 0 /\ at["diff"] = at["names"] /\ failed \intersect {"git", "diff"} = {} =>
        /\ found.seeds # {} => found.diff = "uncommitted"
        /\ at["seeds"] # 0 /\ found.diff = "uncommitted" =>
               found.seeds = {f \in ChangedIn(story[at["diff"]]) :
                                 Exists(f, story[at["seeds"]].tree) /\ MaySeed(f)}

Lines(r) == r.first..r.last

\* Slices that are cut along symbols, at the lines the parser means.
Cut == {i \in DOMAIN shown : /\ Suffix(shown[i].file) = "py" /\ shown[i].text.feeds = 0
                             /\ TopLevel(shown[i].text) # <<>>}

\* What is cut out of a text are whole symbols, in order, a line once, and no
\* other lines but short gaps between two of them.
SymbolsWhole ==
    \A i \in Cut :
        LET rs    == shown[i].ranges
            s     == ToSet(TopLevel(shown[i].text))
            whole == {d \in s : \E k \in DOMAIN rs : Lines(d) \subseteq Lines(rs[k])}
        IN /\ rs # <<>>
           /\ \A k \in 1..(Len(rs) - 1) : rs[k].last + Gap + 1 < rs[k + 1].first
           /\ \A k \in DOMAIN rs : \A l \in Lines(rs[k]) :
                  \E d, e \in whole : /\ d.first <= l /\ l <= e.last
                                     /\ \/ d = e
                                        \/ /\ d.last < l /\ l < e.first
                                           /\ e.first - d.last <= Gap + 1

\* A symbol that the task names, or that a function of the active file calls, is
\* among the lines cut out, however many others there are, if no two
\* definitions of the active file have the same name.
InterestShown ==
    LET t     == IF Unread("symbols") \/ active = NoFile THEN Absent
                 ELSE story[at["symbols"]].tree[active]
        defs  == IF t = Absent THEN <<>> ELSE Defs(t)
        calls == UNION {CallsOf(defs[i]) : i \in DOMAIN defs}
    IN (\A i, j \in DOMAIN defs : defs[i].name = defs[j].name => i = j) =>
       \A i \in Cut : \A d \in ToSet(TopLevel(shown[i].text)) :
              d.name \in (Task \ StopWords) \union calls =>
                  \E k \in DOMAIN shown[i].ranges :
                      Lines(d) \subseteq Lines(shown[i].ranges[k])
=============================================================================
