------------------------------ MODULE RepoIndex ------------------------------
(***************************************************************************)
(* The live import graph of one repository: src/rlm/repo_index.py with its *)
(* rows in src/rlm/store.py.                                               *)
(*                                                                         *)
(* A developer saves and deletes files while threads of the RLM process    *)
(* (executor threads of requests, the watcher's thread) run                *)
(* RepoIndex.refresh_file.  One refresh is cut where another thread or the *)
(* file system can come between: after the stat, after the label is        *)
(* compared, after each of the two reads of the source, after the old back *)
(* edges are removed and the module names are looked up, after the entry   *)
(* is stored, after the back edges are added, after the label is set.  A   *)
(* crash or restart at any point keeps only the rows.                      *)
(*                                                                         *)
(* A file's content is abstracted to the set of repository files its       *)
(* import statements name.  A version of a file is its mtime: every save   *)
(* takes the next value of the clock, so two saves never share an mtime;   *)
(* mtime 0 means the file is absent.                                       *)
(*                                                                         *)
(* beside is auxiliary: {f, g} is in it once a thread began to refresh f   *)
(* while another was refreshing g, {f} once two refreshed f itself.  Only  *)
(* the properties read it.                                                 *)
(***************************************************************************)
EXTENDS Naturals

CONSTANTS
    File,         \* files of the repository
    Text,         \* import sets a saved file may have
    Thread,       \* threads that call refresh_file
    MaxClock,     \* bound on saves
    MaxRestarts   \* bound on restarts

ASSUME ConstantsAssumption ==
    /\ File # {}
    /\ Text \subseteq SUBSET File
    /\ MaxClock \in Nat
    /\ MaxRestarts \in Nat

VARIABLES
    clock, mtime, text,                     \* the file system
    imports, importedBy, mtimes, symbols,   \* RepoIndex in memory
    row,                                    \* table import_graph
    job,                                    \* refresh_file in each thread
    beside,                                 \* auxiliary: refreshes that overlapped
    restarts

disk  == <<clock, mtime, text>>
index == <<imports, importedBy, mtimes, symbols>>
vars  == <<disk, index, row, job, beside, restarts>>

PC == {"idle", "compare", "imports", "symbols", "unlink", "store", "link", "label", "save"}

\* Local variables of refresh_file: mtime, imports, symbols and the imports
\* whose module was found in the repository.
Job == [pc : PC, file : File, stat : 0..clock, seen : SUBSET File,
        found : SUBSET File, symv : 0..clock]

Idle == [pc |-> "idle", file |-> CHOOSE f \in File : TRUE, stat |-> 0,
         seen |-> {}, found |-> {}, symv |-> 0]

Row == [mtime : 0..clock, imports : SUBSET File, importedBy : SUBSET File]

NoRow == [mtime |-> 0, imports |-> {}, importedBy |-> {}]

Init ==
    /\ clock = 0
    /\ mtime = [f \in File |-> 0]
    /\ text = [f \in File |-> {}]
    /\ imports = [f \in File |-> {}]
    /\ importedBy = [f \in File |-> {}]
    /\ mtimes = [f \in File |-> 0]
    /\ symbols = [f \in File |-> 0]
    /\ row = [f \in File |-> NoRow]
    /\ job = [t \in Thread |-> Idle]
    /\ beside = {}
    /\ restarts = 0

-----------------------------------------------------------------------------
(* The developer *)

SaveFile(f, S) ==
    /\ clock < MaxClock
    /\ clock' = clock + 1
    /\ mtime' = [mtime EXCEPT ![f] = clock + 1]
    /\ text' = [text EXCEPT ![f] = S]
    /\ UNCHANGED <<index, row, job, beside, restarts>>

DeleteFile(f) ==
    /\ mtime[f] # 0
    /\ mtime' = [mtime EXCEPT ![f] = 0]
    /\ text' = [text EXCEPT ![f] = {}]
    /\ UNCHANGED <<clock, index, row, job, beside, restarts>>

-----------------------------------------------------------------------------
(* refresh_file, step by step *)

At(t, pc) == job[t].pc = pc

Exists(g) == mtime[g] # 0

\* What a refresh of f that t begins adds to beside.
Meet(t, f) ==
    beside' = beside \union {{f, job[u].file} : u \in {v \in Thread \ {t} : ~At(v, "idle")}}

\* Mutant: the mtime is rounded up to a whole tick.
StartRefreshRoundedUp(t, f) ==
    /\ At(t, "idle")
    /\ Exists(f)
    /\ Meet(t, f)
    /\ job' = [job EXCEPT ![t] = [Idle EXCEPT !.pc = "compare", !.file = f,
                                              !.stat = mtime[f] + 1]]
    /\ UNCHANGED <<disk, index, row, restarts>>

\* Mutant: an absent file is refreshed too.
StartRefreshOfAbsent(t, f) ==
    /\ At(t, "idle")
    /\ Meet(t, f)
    /\ job' = [job EXCEPT ![t] = [Idle EXCEPT !.pc = "compare", !.file = f,
                                              !.stat = mtime[f]]]
    /\ UNCHANGED <<disk, index, row, restarts>>

\* The stat; an absent file is left as it is.
StartRefresh(t, f) ==
    /\ At(t, "idle")
    /\ Exists(f)
    /\ Meet(t, f)
    /\ job' = [job EXCEPT ![t] = [Idle EXCEPT !.pc = "compare", !.file = f,
                                              !.stat = mtime[f]]]
    /\ UNCHANGED <<disk, index, row, restarts>>

\* The label is that of the stat: nothing to do.
Skip(t) ==
    /\ At(t, "compare")
    /\ mtimes[job[t].file] = job[t].stat
    /\ job' = [job EXCEPT ![t] = Idle]
    /\ UNCHANGED <<disk, index, row, beside, restarts>>

\* It is another.
Reindex(t) ==
    /\ At(t, "compare")
    /\ mtimes[job[t].file] # job[t].stat
    /\ job' = [job EXCEPT ![t].pc = "imports"]
    /\ UNCHANGED <<disk, index, row, beside, restarts>>

\* _parse_imports reads the file; absent or unparsable text has no imports.
ParseImports(t) ==
    /\ At(t, "imports")
    /\ job' = [job EXCEPT ![t].pc = "symbols", ![t].seen = text[job[t].file]]
    /\ UNCHANGED <<disk, index, row, beside, restarts>>

\* _parse_symbols reads it again; a result is named by the version it read.
ParseSymbols(t) ==
    /\ At(t, "symbols")
    /\ job' = [job EXCEPT ![t].pc = "unlink", ![t].symv = mtime[job[t].file]]
    /\ UNCHANGED <<disk, index, row, beside, restarts>>

\* importedBy without the edges from f to the files in S.
Unlinked(f, S) == [g \in File |-> IF g \in S THEN importedBy[g] \ {f}
                                             ELSE importedBy[g]]

\* importedBy with an edge from f to each file in S.
Linked(f, S) == [g \in File |-> IF g \in S THEN importedBy[g] \union {f}
                                           ELSE importedBy[g]]

\* Mutant: old back edges stay.
UnlinkNothing(t) ==
    /\ At(t, "unlink")
    /\ job' = [job EXCEPT ![t].pc = "store",
                          ![t].found = {g \in job[t].seen : Exists(g)}]
    /\ UNCHANGED <<disk, index, row, beside, restarts>>

\* Old back edges go; _module_to_rel, in the comprehension's condition, keeps
\* the imports whose file exists.
Unlink(t) ==
    /\ At(t, "unlink")
    /\ importedBy' = Unlinked(job[t].file, imports[job[t].file])
    /\ job' = [job EXCEPT ![t].pc = "store",
                          ![t].found = {g \in job[t].seen : Exists(g)}]
    /\ UNCHANGED <<disk, imports, mtimes, symbols, row, beside, restarts>>

\* _module_to_rel again, for the value, then the entry is replaced (it keeps
\* imported_by).
Store(t) ==
    /\ At(t, "store")
    /\ \A g \in job[t].found : Exists(g)
    /\ imports' = [imports EXCEPT ![job[t].file] = job[t].found]
    /\ job' = [job EXCEPT ![t].pc = "link"]
    /\ UNCHANGED <<disk, importedBy, mtimes, symbols, row, beside, restarts>>

\* A target deleted between the two look-ups makes the second return None:
\* repo_path / None raises TypeError and the refresh ends here.
StoreFails(t) ==
    /\ At(t, "store")
    /\ \E g \in job[t].found : ~Exists(g)
    /\ job' = [job EXCEPT ![t] = Idle]
    /\ UNCHANGED <<disk, index, row, beside, restarts>>

Link(t) ==
    /\ At(t, "link")
    /\ importedBy' = Linked(job[t].file, job[t].found)
    /\ job' = [job EXCEPT ![t].pc = "label"]
    /\ UNCHANGED <<disk, imports, mtimes, symbols, row, beside, restarts>>

\* Mutant: the file is stat'ed again for its label.
LabelStatAgain(t) ==
    /\ At(t, "label")
    /\ symbols' = [symbols EXCEPT ![job[t].file] = job[t].symv]
    /\ mtimes' = [mtimes EXCEPT ![job[t].file] = mtime[job[t].file]]
    /\ job' = [job EXCEPT ![t].pc = "save"]
    /\ UNCHANGED <<disk, imports, importedBy, row, beside, restarts>>

\* symbol_index and mtimes: two assignments with no switch point between.
Label(t) ==
    /\ At(t, "label")
    /\ symbols' = [symbols EXCEPT ![job[t].file] = job[t].symv]
    /\ mtimes' = [mtimes EXCEPT ![job[t].file] = job[t].stat]
    /\ job' = [job EXCEPT ![t].pc = "save"]
    /\ UNCHANGED <<disk, imports, importedBy, row, beside, restarts>>

\* save_file_graph: the row of this file only.
SaveRow(t) ==
    LET f == job[t].file IN
    /\ At(t, "save")
    /\ row' = [row EXCEPT ![f] = [mtime |-> job[t].stat, imports |-> imports[f],
                                  importedBy |-> importedBy[f]]]
    /\ job' = [job EXCEPT ![t] = Idle]
    /\ UNCHANGED <<disk, index, beside, restarts>>

-----------------------------------------------------------------------------
(* Crash or restart of the process, then RepoIndex._load_from_store *)

Restart ==
    /\ restarts < MaxRestarts
    /\ restarts' = restarts + 1
    /\ job' = [t \in Thread |-> Idle]
    /\ imports' = [f \in File |-> row[f].imports]
    /\ importedBy' = [f \in File |-> row[f].importedBy]
    /\ mtimes' = [f \in File |-> row[f].mtime]
    /\ symbols' = [f \in File |-> 0]
    /\ UNCHANGED <<disk, row, beside>>

Step(t) ==
    \/ \E f \in File : StartRefresh(t, f)
    \/ Skip(t) \/ Reindex(t) \/ ParseImports(t) \/ ParseSymbols(t) \/ Unlink(t)
    \/ Store(t) \/ StoreFails(t) \/ Link(t) \/ Label(t) \/ SaveRow(t)

Next ==
    \/ \E f \in File, S \in Text : SaveFile(f, S)
    \/ \E f \in File : DeleteFile(f)
    \/ \E t \in Thread : Step(t)
    \/ Restart

Spec == Init /\ [][Next]_vars

-----------------------------------------------------------------------------
(* Properties *)

\* Types, and: no version, label or stat is ever ahead of the clock (a label
\* ahead of it would be matched by a save that has not happened yet).
TypeOK ==
    /\ clock \in Nat
    /\ mtime \in [File -> 0..clock]
    /\ text \in [File -> SUBSET File]
    /\ imports \in [File -> SUBSET File]
    /\ importedBy \in [File -> SUBSET File]
    /\ mtimes \in [File -> 0..clock]
    /\ symbols \in [File -> 0..clock]
    /\ row \in [File -> Row]
    /\ job \in [Thread -> Job]
    /\ beside \in SUBSET SUBSET File
    /\ restarts \in 0..MaxRestarts

\* S is what the present text of f imports, given that the text was looked
\* at no earlier than version m: an import may be missing only if its file is
\* absent or was created later.
CurrentImports(f, m, S) ==
    /\ S \subseteq text[f]
    /\ \A g \in text[f] \ S : mtime[g] = 0 \/ mtime[g] > m

\* refresh_file skips a file whose label equals its mtime, so such a label
\* must never stand on edges or symbols of another version: nothing would
\* ever correct them.
LabelsCurrent(F) ==
    \A f \in F : Exists(f) /\ mtimes[f] = mtime[f] =>
        /\ CurrentImports(f, mtimes[f], imports[f])
        /\ symbols[f] \in {0, mtime[f]}

\* It never does for a file that no two threads refreshed at once, whatever
\* else they refresh meanwhile, whatever is saved or deleted during a refresh,
\* wherever one fails and wherever a crash cuts it.
CurrentLabelMeansCurrentIndex == LabelsCurrent({f \in File : {f} \notin beside})

\* "single-writer (event loop), multiple readers. Python GIL is sufficient":
\* it never does, whichever threads refresh.
GilIsSufficient == LabelsCurrent(File)

\* The two directions of the graph agree on every file with a current label:
\* refresh_neighborhood and the ranking follow imported_by as if it were the
\* inverse of imports.
EdgesAgree ==
    \A f \in File : Exists(f) /\ mtimes[f] = mtime[f] =>
        \A g \in File : g \in imports[f] <=> f \in importedBy[g]

\* Until the index is first loaded from its rows (a restart, and an eviction
\* likewise) and until two refreshes first overlap, they always do, whatever is
\* saved or deleted during a refresh and wherever one fails.  Overlapping
\* refreshes replace each other's lists of back edges, so of them nothing is
\* claimed, be they of one file or of two.
ReverseEdgesExact == restarts = 0 /\ beside = {} => EdgesAgree

\* A thread that is slow between its stat and its label may take a label back
\* to an older version, never to the one on disk: the file is refreshed again
\* when it is next asked for, and the older edges do not stay.
LateLabelIsStale ==
    [][restarts' = restarts =>
           \A f \in File : mtimes'[f] < mtimes[f] => mtimes'[f] # mtime'[f]]_vars
=============================================================================
