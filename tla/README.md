# CC-RLM in TLA+

CC-RLM puts a context pack in front of what a coding agent asks a model. The
proxy (CCR, `src/ccr/`) decides whether a request concerns a repository, asks
the gateway (RLM, `src/rlm/`) for a pack, sends both to the model and returns
the model's answer to the gateway as feedback. Most of what can go wrong is in
the gateway: it is one event loop with executor threads, a watcher thread and
subprocesses, over files a developer keeps changing, with state that must
survive restarts and state that must not.

This directory holds the models of it (TLA+), the configurations that check
them on small instances (TLC), and proofs for all instances (TLAPS).

## The system

| Part | State | Operations | Hard behaviour |
|---|---|---|---|
| Repository index, `rlm/repo_index.py` | `import_graph` (imports, imported_by), `mtimes`, `symbol_index` per repository; table of at most 20 indexes | `refresh_file`, `refresh_repo`, `refresh_neighborhood`, `get_relevant`, `get_relevant_from_diff`, `_load_from_store` | executor threads and the watcher refresh while the loop reads; files change between stat and reads; failures half-way; restarts |
| Persistent store, `rlm/store.py` | SQLite tables `import_graph`, `relevance` | load, save | one lock per call, none around load-change-save |
| Session deduplication, `rlm/session.py` | `_sessions`, `_session_repos` | `already_seen`, `_gc`, `invalidate`, `clear_all` | keys of repository, agent and hour; file may vanish at each step; a request may fail after recording |
| Relevance store, `rlm/relevance_store.py` | `_store`: path to dict of counts, loaded lazily | `record` (executor), `get_multiplier` (event loop) | a late load replaces a dict another thread counts in; crash between counting and saving |
| Walker cache and runner, `rlm/cache.py`, `rlm/workspace.py` | `_cache`: key to data and mtime | `get`, `set`, `clear`; `run_walker`, `mount` | calls interleave at awaits; file changes during a walk; walkers hang |
| Walkers, `rlm/walkers/*` | none (subprocesses) | imports and importers (Python, TypeScript), symbols and calls, git's diff and changed files | each reads the repository at moments of its own; text searches stand in for resolution |
| Context pack assembly, `rlm/context_pack.py` | one pack: budget, slices, deduped files | `assemble` | budget that may be negative, order of files, interplay with sessions |
| Gateway, `rlm/main.py` | none of its own | POST /context, POST /feedback, DELETE /cache, DELETE /session, collection loop | branches on a half-filled index, paths in two spellings |
| File watcher, `rlm/watcher.py` | an observer thread per repository | start, stop, on_modified | its thread ends on an exception |
| BM25, `rlm/bm25.py` | term statistics per repository | `build`, `query_if_sparse` | built once, on the first scan |
| Router, `ccr/router.py` | state file written by a prompt hook | `classify`, task, repository, file | file read several times for one request |
| Proxy, `ccr/main.py` | HTTP client | `_enrich`, `_stream_vllm`, `_forward`, feedback | time-outs, partial chunks, client hang-ups |
| Skill pruner, `ccr/skill_pruner.py` | none | `prune_tools` | pure |

How they interact: a request goes proxy -> gateway (HTTP); the gateway runs
three walkers at once, refreshes the index in an executor thread, ranks, asks
the relevance store for multipliers, and assembles, which asks the sessions
file by file. The answer goes back; after the model's stream has ended the
proxy posts the answer's text to /feedback, which counts citations in an
executor thread. The watcher refreshes files on its own. Index and relevance
rows are in SQLite; sessions and caches die with the process.

What makes each part correct:

* index: a file whose label equals its mtime is never looked at again, so such a
  label must stand on that version's imports and symbols; the two directions of
  the graph are used as inverses, so they must be; a label that goes back must not be
  taken for the file on disk.
* sessions: hold a file back only if a request of the same agent read its present
  version; read an unchanged file once; collect what has expired; keep two
  tables in step.
* relevance: rows count observations, one at a time, over restarts; multipliers
  stay within 0.5 and 2.0 in every interleaving; what is learned is used.
* walkers: a cached answer is that of the present text; the cache is bounded;
  every call returns although walkers hang; no importer is lost to the text search
  that decides what is parsed; the diff shown and the files changed agree.
* gateway: whatever branch a request takes, it is ranked around a file as new as
  the one asked about; no save is lost while the watcher runs; rows keep up with
  memory; the BM25 fallback is there when a sparse graph needs it.
* ranking: scores mean paths in the graph; files found over edges come first; the
  active file is not pushed out; the list is sorted and names no file twice.
* assembly: nothing goes in on credit; the ranking's order holds; no file is
  both carried and announced as already seen; the lines shown of a file are whole
  symbols, and what the task names or the active file calls is among them.
* proxy: route, repository and task of one request belong together although they are
  read at different moments; the model gets usable tools; a broken answer
  teaches nothing; every request ends.

## Modules

| Module | Models | Instances, proofs |
|---|---|---|
| `RepoIndex` | `RepoIndex.refresh_file` in several threads, its row, restart | `MCRepoIndex`, `RepoIndexProofs` |
| `SessionDedup` | `session.py`, driven by the slice loop of `assemble`, with the collection loop and DELETE /session | `MCSessionDedup`, `SessionDedupProofs` |
| `RelevanceCounter` | abstract: an ideal counter of observations | |
| `RelevanceStore` | `relevance_store.py` over its table; implements the counter when calls do not overlap | `MCRelevanceStore`, `RelevanceStoreProofs` |
| `WalkerCache` | `run_walker` over `cache.py` | `MCWalkerCache`, `WalkerCacheProofs` |
| `ScoredFiles` | lists of files with scores, the stable sort | |
| `Ranking` | `get_relevant`, `get_relevant_from_diff`, `query_if_sparse`, multipliers | `MCRanking`, `RankingProofs` |
| `Repository` | the files there may be; a tree of their texts | |
| `Lists` | the filter that keeps the order | |
| `ContextPack` | `assemble`, for any walkers, files and sessions: budget, list of files, slice loop | `PackOfRepoProofs` |
| `Imports` | `walkers/imports.py` and `walkers/ts_imports.py`: what a file imports, what imports it | `PackOfRepoProofs` |
| `Symbols` | `walkers/symbols.py`; `_extract_symbol_slice` and `_merge_ranges` | `PackOfRepoProofs` |
| `PackOfRepo` | walkers, git and `assemble` over a repository that changes; uses `Imports` and `Symbols`, implements `ContextPack` | `MCContextPack`, `PackOfRepoProofs` |
| `Gateway` | POST /context over the table of indexes, watchers, BM25 indexes, restarts | `MCGateway`, `GatewayProofs` |
| `SkillPruner` | `prune_tools` | `ProxyProofs` |
| `Proxy` | one request through `router.py` and `ccr/main.py`; uses `SkillPruner` | `MCProxy`, `ProxyProofs` |

How they fit: `Gateway` cuts `refresh_file` where threads meet over labels and rows
(stat, comparison, label, row) and leaves edges and symbols out; `RepoIndex` has those
and cuts it at every read and write; `Rank` of `Gateway` stands for what `Ranking` does, whose result (sorted,
distinct: `HandedOver`) is what `RankIndexed` of `PackOfRepo` takes in;
`SessionDedup` is the same slice loop as the sessions see it. `Proxy` sees the
gateway from outside, as an answer, a refusal or silence.

Operators marked "Mutant:" are wrong versions of the definition that follows
them, each with a bug that code could plausibly have. Put in place of the right
one, the property it is listed with in `PROJECT.json` fails.

### RepoIndex

`disk` is the file system: a clock of saves, each file's mtime (0 if absent) and
the set of files its text imports. `index` is the object's four dictionaries,
`row` the table, `job` the local variables of `refresh_file` in each thread.
One refresh is up to nine steps, because another thread or the developer can come
between any two: `StartRefresh` (stat; an absent file is left alone), `Skip` or `Reindex`
(the label is the stat's, or is not), `ParseImports`,
`ParseSymbols` (each opens the file again), `Unlink` (old reverse edges, first
module look-up), `Store` or `StoreFails` (second look-up; None raises),
`Link`, `Label` (symbols and mtime), `SaveRow`. `Restart` keeps rows only, and
`_load_from_store` brings back no symbols.

A symbol table is named by the version it was read from. A symbol table read
from an absent file is 0, the same as an empty one. mtimes are taken to be
distinct: two saves in one granule of the file system's clock are not modelled.

Properties, for any number of threads. `CurrentLabelMeansCurrentIndex` is of the files
that no two threads refreshed at once, whatever they do beside them; `beside` is history
and keeps the pairs of files (a file with itself) whose refreshes overlapped. For the
others it is false, and `RepoIndex_overlap` shows how (`GilIsSufficient`): a late refresh
puts older imports under the newer label. `LateLabelIsStale`: a slow thread may take a
label back, but never to the version on disk, so what it took back is refreshed when it is
next asked for. `ReverseEdgesExact` is stated until the index is first loaded from rows and
until refreshes first overlap: `SaveRow` is the refreshed file's row only, so after a restart (or an
eviction) the reverse edges of the files it imports are lost, and overlapping refreshes,
be they of one file or of two, replace each other's lists of back edges.

### SessionDedup

The event loop runs `assemble` without awaiting, so at most one request is
between `BeginRequest` and its end. The developer, the tool-read hook and the
clock do not wait, and so the slice loop is cut at each look at a file:
`exists()` (`SkipAbsent`, `TakeActive`, `DedupByTool`, `AskSession`), the stat
of `already_seen` (`CheckGone`, `DedupBySession`, `RecordNew`), the read
(`ReadSlice`, `ReadFails`). `ReadFails` is the exception that ends the request with an
error: the file has vanished, may not be read, or holds text the tokenizer refuses; the file
itself and earlier ones stay recorded. `todo` says how often the list names a file: the
fallback list may name one twice. `Reply` may come after any file: the
budget is abstracted to that.

A session id is the triple it is a hash of. `window` is what an agent's own tools have
shown it; a pack is not part of it, because the proxy is stateless and the pack
is in one upstream call only. `built` is a history variable: the recorded slices built
in the present hour since the last reset and restart, and with version 0 those whose read
failed.

Properties: `DedupedWasTried` and `UnchangedBuiltOncePerHour` are the two halves
of deduplication, `RegistryMatchesSessions` the two tables,
`ExpiredSessionsCollected` the liveness of `_session_gc_loop`.
Refuted: `DedupedIsInContext` (docstring of `already_seen`). `built`
counts requests that failed: that a file held back was ever *sent*, or even put in a pack,
is false too, because a request that fails leaves its records in place. What
`DedupedWasTried` does say is that a request of the same agent, repository and hour
read the present version into a pack, or failed at reading it.

### RelevanceStore

A thread is cut after the look-up in `_store`, after the rows are read, before
`repo_scores` is bound, after a file is counted, and after the arguments of
`save_relevance` are evaluated (its lock is inside). Dicts are objects with
numbers: a late load gives the path a new object while another thread counts in
the old one. An answer is the set of files it cites.

`CounterSpec` states that rows implement `RelevanceCounter`: each saved row is
the old one plus one observation. Check and assign are without a lock, so where two calls
overlap in a repository updates are lost by design. The counter says so: from `Overlap` to
the next start of the process `Overwrite` may put older counts in a row, though never more
citations than observations. `MultipliersInRange` is what the ranking needs of both.
Both are checked with two threads and proved for any number.
`Mount` is what `mount` resolves a client's path to: feedback is recorded under the
client's spelling, rankings look up the mounted one, and where they differ what
was learned is not used.

### WalkerCache

`Hit` and `StartWalker` are the look-up, `WalkerReads` the moment the subprocess
reads the file, `WalkerEnds` its exit and the labelling (`cache.set` stats
afterwards), `WalkerFails` and `Timeout` the other ends. A timed-out subprocess
becomes an orphan. An answer is named by the version of the file it read.
`HitIsCurrent` is refuted by `WalkerCache_race`. `OnlyRacedHitsAreOld` says that the race
found there is the only one: what is served was computed from the present text unless the
file was saved after the walker of that very answer had read it and before the answer
was labelled. `late` is history and marks such answers.

### ContextPack

The promise of `assemble`, whatever walkers, files and sessions do. Texts are numbers
of tokens. A diff is a number of tokens and the number of characters to one, because
it is cut by characters; `int(token_budget * 0.20)` is a division by 5. Scores are in
tenths. `RankFiles` takes any list that is sorted, has the active file with at least
1.5, and names no file twice if the index made it. At each file `SkipFile`,
`DedupFile`, `TakeSlice` or `ReadFails` may be the outcome.

`WithinBudget`: a pack that carries a slice is within its budget as a whole, and
only the slice that spends the last token is cut. `RankOrder`: slices follow the
scores, and only files with at least 1.5 precede the active file (the code says
"always first", which learned multipliers and changed files can prevent).
`CarriedOnce` is about a ranking of the index; the walker's list may name a file
twice (imports and imported by), and then it is carried and deduplicated.
A pack *without* slices can be over the budget, because the call graph is never cut
and a diff is cut by characters.

### PackOfRepo

What `ContextPack` leaves free is filled in: a developer, a repository, three
walkers, git. The developer is a `story`, a sequence of snapshots of which the
request meets the first; each has the tree and the tree of the last commit.
`Develop` goes on to the next at any moment. A walker is cut at its reads of
the disk: `ReadImports` and then `FindImporters`, which scans the repository;
`ReadSymbols`; `ReadDiff` (`git diff HEAD` and, if that is empty, the last commit's)
and then `ReadNames` (`git diff HEAD --name-only`). Each is one step, at one snapshot;
`at` remembers which. A git call may fail or take too long, and a walker may be
given up whole (`WalkerFails`), losing what it had. `Filter` is what `build_context`
makes of git's names before they seed the ranking: files that are there at that moment, and
not in directories of tests and docs. The scans read many files; that
a save falls between two of them is not modelled. The call for the branch is left
out, its result is unused; so is the walker cache, which is in `WalkerCache`.

Then `assemble`: `RankIndexed` adds the active file to what the gateway hands over
and raises it to 1.5, `RankFallback` lists active file, imports and importers,
`Slice` cuts the text that is there when it is read, `ReadRaises` is a read or a token count
that raises, of a file that is there or has just gone. A session's answer stays free. `Drop` forgets what
the rest of `assemble` cannot see, so that states which differ in it only are one.

`Assembles` is the refinement: every behaviour is one of `ContextPack!Spec`,
variables of the same names mapped to each other; it is proved too. `ImportersFound` compares what the
walker found with the importers by the walker's own resolution, on the tree it
scanned. `DiffNamesSeeds`: the diff shown and the seeds of the ranking come from two
calls of git. If both answer and the developer rests between them, files seed the ranking
only if the diff shown is of uncommitted work, and then exactly those files of it do that are
there when `Filter` looks and are in no directory it skips. So work that is only in
tests, or only deletions, is shown and seeds nothing.

### Imports

A path is the sequence of its names, a name the sequence of its parts between
dots, so that stems, suffixes and "begins with" are what the code computes and not
assumed; names are compared by the parts they have in common. `Candidates` is the order
`_resolve_specifier` tries, `WorthParsing` the text search for the stem that decides
whether a file is parsed, `TrueImporters` the reference: files of which some
specifier resolves to the target. For Python `PyImporters` takes every module
that ends like the file's stem; `Scans` says that the first `MaxFiles` files are
read in the order of the disk, which is any. Specifiers are paths already joined to the
directory of the file; ones that end in `./` or `../` and symbolic links are left
out.

### Symbols

A text is its definitions in the order of `ast.walk`, their lines and the names they
call. `Entries`: the table has one entry per name, the last one walked. `Chosen`
and `MergeRanges` are the two halves of the choice of lines. In
the instances a line is a token.

`SymbolsWhole` and `InterestShown` are stated over the slices a pack got, not over
the operators: ranges are in order and apart, each line belongs to a whole symbol or
a gap of at most three lines between two; and each symbol the task names or the
active file calls is in some range, however many there are. They
speak of the lines chosen. The cut to the tokens left is from the top.

### Ranking

One request's ranking, one action per element taken from the queue of `_bfs`
(`Visit`, `VisitAgain`), then `EndWalk`, `Inject` (task keywords), `QueryIfSparse`
and `Multiply`. Scores are integers, 500,000,000 to 1.0, so that 0.65 and 0.9 lose
no digit over three edges. The order of a file's neighbours is that in which its lists grew,
which is any (`Listed`). Graph, changed files, files that exist, matches, BM25's
answer and multipliers are chosen freely. The graph's directions are taken to
agree.

`ScoresMeanPaths` compares the walk, which passes scores on too early and raises
them later, with the best score over all paths (`BestBy`, a recursive function).
`EdgesDominate` is the sentence of `spec.md` ("structural edges still dominate"),
up to the multipliers. `ActiveRanked`: with at most n changed files the active one
is in the list, behind changed ones only. `HandedOver` is what `PackOfRepo`
assumes of a ranking.

### Gateway

An index is its mtimes. `req` holds the local variables of `build_context` in
each request: the walkers' await, `LookUp` (`get_or_create` and the choice of
branch), the scan or neighbourhood one file at a time in an executor thread,
`StartWatching`, the build of BM25, and `Rank` for the rest, which runs on the
event loop without awaiting. `object` are `RepoIndex` objects: one that was evicted
lives on in the requests that hold it. The watcher's thread asks the table for the
index at each event, as `_handle` does.

`job` is the `refresh_file` that each thread is in, requests' threads and observers'
(`Worker`) alike: `Stat`, then `Skip` or `Reindex`, then `Label`, then `SaveRow`; a thread
begins with the next file, or goes on, when its last refresh is done (`Free`). Any
number of refreshes of a file overlap at these steps, in one index object or in two of one
repository.

Errors: `RefreshFails` and `HandlerFails` (an import target vanished), `BuildFails`
and `RankFails` (a dictionary grew while it was iterated). The first three leave
state behind: a half-filled index that is no longer empty, a BM25 index that will
never be built, an observer without a thread.

What overlapping refreshes leave true is less than one would wish, and the properties say
what it is:

* `RankedFresh`: a pack is ranked around the active file as it was when the request came,
  or newer; but if refreshes of that file were under way then, one of them may put its
  own version back, so `asked` is the oldest of those.
* `NoSaveLost`: once a request has made sure of the observer, a save is indexed, or its
  event is queued or being handled (`Expected`), or else a request that had seen an older version
  has labelled the file after that (`TakenBack`, kept in `late`). `late` also has
  the files already stale when the request made sure of the observer, of which no
  event will come; a save takes a file out of it.
* `RowsKeepUp`: each row is as new as what any index object knows, or the thread that labelled
  it is about to write it. Excepted are files saved during a refresh of them
  (`unsettled`), until a refresh that is alone has saved its row: a slow thread's row is the
  older one, and a restart loads it. The label loaded is then not the file's, so the
  next refresh repairs it.

`watched`, `late`, `asked` and `unsettled` are history; no action's guard reads them.
`Bm25KicksIn` is refuted: an index that is not empty, after a restart or a failed scan, never
gets its BM25 index.

### Proxy and SkillPruner

One request is followed; requests share nothing but the state file, which the
prompt hook replaces at any time (`NewTurn`). What is read is named by the
turn it was read from, 0 being the request itself. The active file may be the
header's while the repository is the state file's (`ActiveNow`). `Classify`, `ReadHint`,
`DefaultRoute`, `ReadTask`, `ReadRepo` are the reads; then the gateway's answer or none,
the token count that may fail (`BaselineFails`: the pack is dropped, its file list
is not), `MakeBody` with the pruner, the stream in chunks that end anywhere
(events are cut in halves), and the feedback. The stream ends with the body, whatever was in
it (`StreamEnds`): an answer that stops short without an exception is fed back, and so is
what came before an error event.

`RouteAndRepoAgree` is over all interleavings with the hook: what a request takes of the
state file is never older than what it took before; active file and repository
are of one reading unless a header brought the file; and a request that was routed to be enriched for
its repository has one unless a prompt came meanwhile.

Tools are names in one of two forms; the pruner reads the flat form only, the
router both. A tool that is sent is named by its position in the request, because one
name may occur twice; the order they are sent in is left out (no property is about it). So for tools in OpenAI's form nothing is pruned, and a tool choice is always
cleared, although its tool is still sent; `ChoiceNamesTool` is the direction that
holds.

## Runs

| Run | Instance | Shows |
|---|---|---|
| `RepoIndex` | 2 files, all 4 texts, 2 saves, 2 threads, 1 restart | types, labels, reverse edges, late labels |
| `RepoIndex_overlap` | the same, 3 saves, no restart | old imports under the current label (violation) |
| `SessionDedup` | 2 agents, 1 file, hour of 2 ticks, 4 moments, 2 saves | types, both tables, deduplication, collection |
| `SessionDedup_context` | the same, shorter | a file held back that is in no window (violation) |
| `RelevanceStore` | 2 files, 2 threads, 3 answers, 1 ranking, 1 restart | types, range, refinement of the counter |
| `WalkerCache` | 3 files, room for 2, 2 callers, 3 saves, 3 walks | types, bound, what hits serve, every call returns |
| `WalkerCache_race` | 2 files, room for 1, 2 saves | a stale hit (violation) |
| `ContextPack` | `PackOfRepo` over 8 files in five families of stories (below), budget 10, 2 scores, 5 diffs | budget, order, no double; importers, diff and seeds, symbols shown; refinement of `ContextPack` |
| `Gateway` | 2 repositories, 2 files, work in one of them, 1 place in the table, 2 requests at a time, 3 in all, 2 saves, 1 restart | types, freshness, no lost save, rows |
| `Gateway_bm25` | 1 repository, a first scan of 2 files, 1 request at a time, 2 in all, 1 restart | ranked without BM25 (violation) |
| `Proxy` | all requests and settings below, 2 turns, cap of 2 tools, answer of 2 events | types, routing, task, tools, feedback, every request ends |
| `Ranking` | 4 files, graphs of at most 3 edges, 2 or 3 wanted | types, scores, order, what is handed over |

Why the bounds are enough. *RepoIndex*: the properties relate a file, its
import and two versions: with two threads the slow one has seen the first when the file is saved
again, a restart falls at any step, and what is loaded is refreshed once more; the third file
that could be involved would only repeat the second. The threads are interchangeable.
*SessionDedup*: an entry of tick 0 expires at tick 3, in the second hour, while
the second hour's session lives; two saves give an old and a new version; the
second agent is what a wrong key would confuse. A session's entries are all of
one hour, so a second file adds nothing to expiry. *RelevanceStore*: three answers reach
the threshold of three observations, and with a ranking let two calls meet at every step; a
restart loads what a load has saved.
*WalkerCache*: three keys for two places is the smallest overfull cache; three walks
let two calls overlap on one key and a third evict. *ContextPack*: with a budget
of 10 a pack may be overspent before the first file, spent exactly, cut at a
file, or have tokens left. The stories are chosen so that each question has all
its cases without a product of all: every ranking of up to 4 files, one of
them not code, over texts of no and of four lines, with a file that vanishes; one
Python file of up to four definitions in every order of named, called,
calling and neither, gaps of 3 and 4 lines (joined and not), a method that shares the
caller's name, a form feed; TypeScript files `a.ts`, `a.spec.ts`, `lib/index.ts` and one in
`dist/` that name each other in all ways; Python files `m`, `mym` (which ends like
`m`) and a package that import each other in all ways; and a developer who
saves, adds, deletes and commits between any two reads. `TopSymbols` is 1 and
`FillerShare` 2 (3 and 3 in the code) and `PlainLines` 6 (60), so that four
definitions are many and a text can be longer. `MaxFiles` is 5 (5,000), and so the scan is
complete here; nothing is said of repositories with more. *Gateway*: with one place, a request for the second
repository evicts the first one's index while requests and the observer hold it, and the next
request makes a second object; the third request finds what the first
two left; one save makes a file stale and the second does so again during its refresh. Files are
saved, and there to be asked about, in one repository only: the other's would meet no step
of the first's.
*Proxy*: two turns put a prompt before and inside the request; requests vary in
everything routing reads, or in everything pruning reads; the cap is smaller than what
survives pruning; two events can be cut between and within. *Ranking*: three edges make a
diamond's shorter and longer arm, where a score is raised late; n = 2 cuts
the walk at all four files, n = 3 leaves room for what is found otherwise;
`MIN_GRAPH_RESULTS` is 2 (3 in the code) so that both sides occur within n = 3. Clocks, saves, calls, walks and restarts are bounded
by the constants named `Max...`; nothing else is.

`CHECK_DEADLOCK FALSE`: with clock, saves and calls at their bounds the systems have
nothing left to do, and a pack that is done stays so.

### Fairness

* `SessionDedup`: weak fairness of the slice loop (a request that began ends),
  strong fairness of `GcLoop`: the task wakes every five minutes, the event
  loop serves ready tasks in order, and so its turn comes between requests
  however many there are; being enabled between requests only, weak fairness
  would not say it.
* `WalkerCache`: `Timeout` (asyncio's `wait_for`) and `TakeAnswer` (the
  request resumes). Nothing is assumed of walkers. The creation of the process,
  outside `wait_for`, is assumed to return.

* `Proxy`: weak fairness of the proxy's own steps and of the ends its time-outs give
  (10 s for the gateway, 120 s for the model, 3 s for feedback). Nothing is assumed of the
  gateway, the model or the hook. Counting the baseline's tokens, capped at 500
  files, is assumed to end.

The other modules have safety properties only.

## Proofs

`RepoIndexProofs`, for any files, texts, threads, number of saves and restarts:

* `TypeCorrect`: `Spec => []TypeOK`.
* `LabelSafety`: `CurrentLabelMeansCurrentIndex`.
* `LateLabels`: `LateLabelIsStale`.
* `EdgesExact`: `ReverseEdgesExact`.

`CurrentLabelMeansCurrentIndex` is not inductive: between the reads and the label, what will stand
under the label is in the thread's local variables, and between the label and
the row it is in memory but not on disk. The invariant says, at each step of a
refresh, that what was read is the text of the stat's version unless the file
has changed since (and then the label will not be current), and says of each
row what the property says of memory, for the next restart. What a thread's own variables
are worth (`LocalInv`) holds however refreshes overlap; how the index stands to them
(`SharedInv`) only of files refreshed by one thread at a time. A label never goes back to the file's
version because the stat of a refresh is at most that version and a label equal to it
ended the refresh, or was put there since by another thread with the same stat. For the edges
(`EdgesInv`), while no refresh met another: a back edge always has its edge; the other way it holds but for a file that
was unlinked and not linked again, whose label is then of an older version than the
file, be the refresh on its way or failed.

`RelevanceStoreProofs`, for any paths, mounts, files, threads, calls, restarts:

* `TypeCorrect`: among others, no path or call holds a dict that does not exist.
* `MultipliersSafe`: `MultipliersInRange`.
* `RowsCount`: `Spec => CounterSpec`.

For the second the invariant is that every count anywhere (rows, current and replaced dicts, rows read but
not yet assigned, arguments not yet saved) has hits at most total. A lost update
replaces a count by an older one, which is as sound; one observation adds to
total whenever it adds to hits. And a call that has bound its dict holds one that
exists, although the table may have moved on. The refinement needs more of the paths that no
two calls were in at once: each has a dict of its own, what a dict says of a file is what
the row says, unless the one call in progress has counted it and not saved it, and then it
is the row's with that one observation (`Exact`). Every step but `SaveRow` leaves the rows;
`SaveRow` is `Observe` of the counter in such a path and `Overwrite` in the others, with
the soundness of the second theorem.

`WalkerCacheProofs`, for any files, callers, capacity and bounds:

* `TypeCorrect`: `Spec => []TypeOK`. That no more subprocesses are left behind than were
  started needs a count of those that are waited for (`Accounted`).
* `BoundKept`: `CacheBounded`. `get` takes an entry out, `set` replaces one, or pushes the
  oldest out and puts one in; the lemmas `GetLeaves` and `SetPuts` say so of sequences.
* `HitsAreCurrent`: `OnlyRacedHitsAreOld`. The invariant (`Faithful`) has two
  parts: entries carry the version they were computed from or are marked as raced, and what
  a finished walker has read is the present text, unless the file is gone or the call is
  marked. Since two calls may walk one file at once, one entry for
  each key is part of the argument: the entry found valid is the one returned.

`RankingProofs`, for any number of files, any graph, changed files, matches, BM25 answers and
multipliers, and any least score passed on that is not rounded to 0 (the code's is 0.1):

* `TypeCorrect`: `Spec => []TypeOK`; `HandedOverSorted`: `HandedOver`.
* `EdgesFirst`: `EdgesDominate`. It needs that all scores of the walk are 18 units or more
  (`Passing`, `Walked`), for what comes later gets four fifths or nine tenths of the least one, and
  of 0 that would be no less; and that a file of the walk never falls out of the list
  again. The lemma `Extended` says so: of a list that is not full, and others that score
  less, sorted and cut, nothing of the list is lost.
* `ActiveKept`: `ActiveRanked`. The invariant (`ToCome`) follows the active file through the walk: it
  was visited with at least a seed's score, or it waits in the queue behind changed
  files only and none but those were visited. Then the walk cannot be full, as
  there are at most n of them and it ends at 2n. Afterwards only a changed file can have
  as high a score (`Capped`), so those before it are distinct changed files
  other than itself, at most n - 1, and the cut leaves it in (`VisitedTop`).
* `ScoresArePaths`: `ScoresMeanPaths`. First that `BestBy` is what its two cases say
  (`BestByIs`): the library's induction cannot be used, but a set of numbers that holds 0
  and with each number the next is all of them (`UpTo`, by its smallest gap). Then three
  invariants of visited files and queue (`OnPaths`). No score is above `BestBy` at as many edges
  as files were visited (`Under`), and no file is visited twice, so these are no
  more than N. While a seed is not visited, what was visited are the seeds before
  it and the queue begins with those that are left (`InTurn`), so each comes with its own score.
  What a visited seed passes on was visited or waits (`Comes`), for those visited
  before it are seeds themselves and no edge passes on what a seed has (`SeedsHigh`).

`SessionDedupProofs`, for any paths, agents, files, hour and bounds:

* `TypeCorrect`: `Spec => []TypeOK`; `RegistryExact`: `RegistryMatchesSessions`.
* `DedupSound`: `DedupedWasTried`, and `DedupComplete`: `UnchangedBuiltOncePerHour`, under the
  assumption `SameMount` that every repository is named by the path it is mounted as
  (under another spelling a reset forgets nothing, `main.py:261`).

Both speak of one step; what lies behind it are two invariants, one for each direction.
`Covered`: an entry of the present hour with the file's present mtime has a slice of that
version, in the history or in the pack being built, or a read of it that failed, or is about
to be read. It survives saves, for no file gets an old mtime back.
`Remembered`: of whatever was recorded in this hour and has not changed, the session
still has the entry, for a session with a stamp of this hour has not expired. Types add that one
pack is built at a time, and no file twice in it.

`GatewayProofs`, for any repositories, files, threads, capacity and bounds:

* `TypeCorrect`: `Spec => []TypeOK`, with what it says of the table and of the indexes
  that requests hold.
* `RowsLead`: `RowsKeepUp`. The invariant (`RowsInv`) is about every version of a file that is
  known anywhere: on disk, in the row, in an index or as the stat of a refresh. None is
  newer than the file that is there (`Newest`), and of a file that is not `unsettled` none is
  newer than the stat of a refresh under way (`Settled`), so the row that refresh writes takes
  nothing back. An exception is left when a refresh that is alone, and knows the present
  version, has saved its row.
* `SavesKept`: `NoSaveLost`. The observer's refresh is of its own repository and of the present
  version, unless the file was saved again and is queued (`OwnInv`). Of each watched index in
  the table a stale file is expected or `late` (`LostInv`): an event leaves the queue only for a
  job on the index in the table, and a label by the observer is of the present version or
  the file is queued; one by a request is current, or is `TakenBack`.
  A repository has one place in the table, so the job is on the index the property is about.
* `RankedFreshly`: `RankedFresh`. The invariant follows the request: no version that is on disk
  or in a refresh under way is older than the one asked for (`Asks`); while it refreshes,
  the active file is still to do, or in its own refresh, or is known in that version or a
  newer one; and then it stays so, for whatever is labelled later is one of those versions.

All three rest on `LabelsFrom` and `JobsFrom`: in any step of any thread, a label
changes only to the stat of a refresh that was at its label, or is that of a new object loaded
from the rows, and a refresh goes on as it was or begins with the version on disk.

`ProxyProofs`, for any requests, settings, prompts and events:

* `RoutingAgrees`: `RouteAndRepoAgree`. The route is decided at one read of the state
  file and the repository is looked up at a later one, so the invariant keeps the reason of
  the route (a hint, a header or the file's repository) and the turn it was read from, which is
  no later than any turn read since and than the file's own, and the reason still
  holds unless the file's turn is later.
* `TypeCorrect`: `Spec => []TypeOK`.
* `ToolsReachModel`: `ToolsUsable`, if no request names a tool twice (`ToolNamesDiffer`; a model API
  refuses one that does, and `Read`, `Read`, `Bash` under a cap of 2 would lose `Bash`) and
  the cap is not 0, with which nothing is ever left. The cap leaves a first element of the
  order it cuts by, and nothing that comes before an always-kept tool but the other one.
* `ChoiceReachesTool`: `ChoiceNamesTool`, if the client's tool choice names one of its tools
  (`ChoiceOffered`): a choice that named none is passed on when nothing is pruned.
* `OnlyWholeAnswersTeach`: `BrokenTeachesNothing`; the invariant says that feedback that is due,
  not only feedback recorded, comes after a stream that has ended.

`PackOfRepoProofs` has four parts. About `ContextPack`, for any files, budget, sizes and
rankings of any length:

* `TypeCorrect`: `Spec => []TypeOK` (its run checks it through the refinement).
* `NoCredit`: `WithinBudget`; `InOrder`: `RankOrder`; `NoneTwice`: `CarriedOnce`.

The properties are of what was carried, the invariant is of what is still to come as
well: before the list is there nothing was carried; the list stays sorted; every file
in `slices` scored at least what heads the list; and with an index no file is in
two of list, slices and deduplicated files. A tail of a sorted, distinct list is sorted
and distinct, which is all the sequence facts needed. `AssemblyRefines` carries them
over to `PackOfRepo`.

About `Imports`, for any files, trees, names and specifiers:

* `ImportersNotLost`: on a readable tree, every importer of a file that does not
  stand for its directory is in what the walker finds, unless it is in a directory
  the walker skips or the scan of Python files stopped at its limit. The
  argument goes over the candidates: if a specifier resolves to the file, either
  the specifier is its name, or its name with another suffix, and then its stem
  begins the specifier; or the file is an index file, which was excluded. For Python,
  the last part of a module that resolves to the file is its stem.

About `PackOfRepo`, for any stories:

* `WalkersFindImporters`: `RepoSpec => []ImportersFound`. The tree the walker scanned may be
  gone, so the invariant says of the snapshot marked in `at` that what was found is
  an answer of the walker there. No step but the walker's changes either, and
  where `assemble` drops the result the mark goes with it. With
  `ImportersNotLost` and its counterpart `TsSound` that gives the property.
* `AssemblyRefines`: `RepoSpec /\ []CostsCovered => Assembles`. `CostsCovered` says that `Sizes`
  and `Graphs`, finite for TLC, have the costs that come up. The step that matters
  turns the ranking, or what the walkers found, into the list of `ContextPack`: it must be
  sorted, must have the open file at 1.5 or more, and must not name a file of the ranking
  twice. For that `SortByScore` is proved to sort and to permute (`SortIsSort`): the
  places of the elements, one more than the number before each, are the numbers up to
  the length (`Placing`), shown by counting and without induction over lists. The list
  without a ranking is three runs at 1.5, 1.0 and 0.7 (`OneList`), with `Keep` for the
  filter.
* `SeedsGoWithDiff`: `RepoSpec => []DiffNamesSeeds`. Again the invariant speaks of the snapshots the
  calls of git and the filter are marked with (`DiffThere`): what was found is of them unless a
  failure is remembered, which holds because `assemble` forgets mark and failure together, and
  the seeds are the filter's of what was found.
* `PacksKeepRules`: so `WithinBudget`, `RankOrder` and `CarriedOnce` hold of `RepoSpec`.

About `Symbols` and the slices `PackOfRepo` cuts, for any texts, tasks and gaps:

* `CutsAreWhole`: `RepoSpec => []SymbolsWhole`; `InterestKept`: `RepoSpec => []InterestShown`.

`_merge_ranges` is a recursive function over the definitions chosen. `Merged` says what it
has made of the first k: its ranges are apart, the last one ends where definition k ends,
each definition is inside one, and every line is a definition's or a short gap's. The next
definition begins after the last one ended, so a turn either begins a range or makes the
last one longer, over a gap that is short (`TurnIs`, `TurnBegins`, `TurnLengthens`). That the
function exists and satisfies `Merged` at the end (`MergeRangesIs`) is shown by `UpTo`, as in
`RankingProofs`. `ChosenIs` says of the choice that it is never empty and has all that is of
interest: what there is room for limits only the others. The invariant `CutThere` ties each
slice to the call graph of the one snapshot the symbol walker read, which no later step
changes, and with names that differ every call of that text is in the graph (`CallsCalled`).
Texts are what Python's grammar allows (`Grammatical`): definitions at module scope follow
each other, each on lines of its own.

Assumptions: `FileAssumption`, `ImportsAssumption`, `SymbolsAssumption`, `StartsAssumption`, `ScoresAssumption` and the
`ConstantsAssumption` of each module, and `SameMount`, `ToolNamesDiffer` and `ChoiceOffered`
where named. Only model-checked: liveness (`ExpiredSessionsCollected`,
`EveryCallReturns`, `EveryRequestEnds`), which the prover cannot do. Every other property of
the passing runs is stated by a theorem.

## Not modelled, and why

* Parsing itself, BM25 scores, tokens of a text: data no property distinguishes. A text is
  what the parser takes from it.
* How a pack is rendered: layout, changes nothing.
* The list of allowed roots of `mount`: a check of a path's text before anything of the above
  happens.
* Evaluation and benchmark scripts, packaging, configuration parsing. The scripts are
  nearly half of the implementation's lines; they run offline over logs and keep no state.
* `warm`, `mark_seen`, and `invalidate` with a file have no caller.

What the models show to be false, and no run is spent on:

* after a restart reverse edges of unchanged importers are missing
  (`repo_index.py:271`);
* a failed request's files stay recorded, the one it failed at among them, and the retry
  leaves them out (`session.py:125`);
* a slow refresh takes labels, edges and rows of a file back to an older version
  (`repo_index.py:268`, `:271`), until the file is refreshed again;
* a partial answer that ends without an exception is learned from (`ccr/main.py:232`);
* feedback under another spelling of the path is not used (`main.py:233`);
* a pack with a large call graph exceeds the budget (`context_pack.py:147`);
* feedback may name files of a pack the model was never shown (`ccr/main.py:143`);
* a tool choice in OpenAI's form is cleared although its tool is sent
  (`ccr/main.py:174`);
* importers of `index.ts` and `__init__.py` that name the directory are not found
  (`ts_imports.py:127`, `imports.py:66`);
* a Python file is listed as an importer for any module that ends like the stem,
  `mym` for `m` (`imports.py:66`);
* `./user.service` is looked for as `user.ts`, not as `user.service.ts`: `with_suffix`
  replaces what looks like a suffix (`ts_imports.py:65`);
* of functions with the same name only the last one's calls are known (`symbols.py:46`);
* form feeds shift the lines cut, and decorators are cut off (`context_pack.py:259`);
* a slice is cut to the tokens left from the top, so fillers that come first displace
  what the task names (`context_pack.py:199`);
* when `git diff` fails, the last commit is shown as if it were recent work, and files
  may be seeded that the shown diff does not have (`diff.py:48`);
* without an index, a file that imports and is imported is listed twice
  (`context_pack.py:157`).

## Plan

1. **Coarse mtimes**: versions and mtimes apart in `RepoIndex` and
   `SessionDedup`, to say what two saves in one granule do.
2. **Composition**: proxy, sessions and relevance store together, for answers lost
   after files were recorded and for feedback of overlapping requests; an
   abstract specification of the gateway (a pack for a repository at some version
   between request and answer) that `Gateway` implements; the walker cache in
   front of the walkers of `PackOfRepo`, for importers cached by another file's
   label.
3. **Proofs**: those of the compositions of 2; that a walker's answer in the cache is what
   `Imports` and `Symbols` say of the text it was read from.
