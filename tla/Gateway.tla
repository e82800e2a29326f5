------------------------------- MODULE Gateway -------------------------------
(***************************************************************************)
(* The RLM gateway: POST /context of src/rlm/main.py over the table of     *)
(* repository indexes (repo_index.py), the file watchers (watcher.py) and  *)
(* the BM25 indexes (bm25.py).                                             *)
(*                                                                         *)
(* A request waits for its walkers, looks its repository up in the table,  *)
(* and then, in an executor thread, scans the repository if the index has  *)
(* no file yet, or refreshes the neighbourhood of the active file.  Other  *)
(* requests, the watchers' threads and the developer come between any two  *)
(* of these steps.  An index that leaves the table stays with the requests *)
(* that hold it.                                                           *)
(*                                                                         *)
(* refresh_file is cut where threads meet: its stat, its comparison with   *)
(* the label, the label and the row (module RepoIndex cuts the rest, and   *)
(* has the edges and symbols).  Here an index is its mtimes: the version   *)
(* each file had when it was indexed, 0 if it was not.  Which files are    *)
(* neighbours is left open.                                                *)
(***************************************************************************)
EXTENDS Naturals, SequencesExt

CONSTANTS
    Repo, NoRepo,
    File, NoFile,   \* files of a repository that the watcher handles
    Scanned,        \* those the first scan visits: .py files outside tests
    Thread,         \* requests at a time
    MaxIndexes,     \* _MAX_INDEXES
    \* bounds: the files that are saved and asked about, and how often
    Edited, Asked, MaxSaves, MaxRequests, MaxRestarts

ASSUME ConstantsAssumption ==
    /\ NoFile \notin File /\ NoRepo \notin Repo
    /\ Thread \intersect Repo = {}
    /\ Scanned \subseteq File
    /\ MaxIndexes \in Nat \ {0}
    /\ MaxSaves \in Nat /\ MaxRequests \in Nat /\ MaxRestarts \in Nat

VARIABLES
    saves, mtime,            \* the file system
    row,                     \* mtimes in table import_graph
    object, table,           \* RepoIndex objects; _indexes, oldest use first
    observers, running,      \* _observers, and those whose thread runs
    queue,                   \* their event queues
    job,                     \* the refresh_file that each thread is in
    built,                   \* repositories with a BM25 index
    req, requests, restarts,
    unsettled                \* auxiliary: files saved during a refresh of them

disk     == <<saves, mtime>>
index    == <<row, object, table>>
watching == <<observers, running, queue>>
vars     == <<disk, index, watching, job, built, req, requests, restarts, unsettled>>

\* The threads that refresh files: one of each request, and one of each
\* repository's observer, which has its name.
Worker == Thread \union Repo

\* Local variables of refresh_file.
NoJob == [pc |-> "none", idx |-> 0, file |-> NoFile, stat |-> 0]

\* A RepoIndex; "late" (auxiliary) are the files that were stale when its
\* observer was known to run ("watched"), or that a request's refresh took back
\* since, and that were not saved later.
Object == [repo : Repo, mtimes : [File -> 0..saves], watched : BOOLEAN,
           late : SUBSET File]

\* Local variables of build_context; "asked" (auxiliary) is the oldest version
\* of the active file that the request may be answered with.
Idle == [pc |-> "idle", repo |-> NoRepo, active |-> NoFile,
         asked |-> 0, idx |-> 0, todo |-> {}]

Nothing == [f \in File |-> 0]

Init ==
    /\ saves = 0 /\ mtime = [r \in Repo |-> Nothing]
    /\ row = [r \in Repo |-> Nothing]
    /\ object = <<>> /\ table = <<>>
    /\ observers = {} /\ running = {} /\ queue = [r \in Repo |-> {}]
    /\ job = [w \in Worker |-> NoJob]
    /\ built = {}
    /\ req = [t \in Thread |-> Idle]
    /\ requests = 0 /\ restarts = 0
    /\ unsettled = [r \in Repo |-> {}]

-----------------------------------------------------------------------------
(* The developer *)

JobOn(w, r, f) ==
    job[w].pc # "none" /\ object[job[w].idx].repo = r /\ job[w].file = f

\* The threads that are past the stat of this file.
Refreshing(r, f) == {w \in Worker : JobOn(w, r, f)}

\* A save reaches the queue of a running observer.
SaveFile(r, f) ==
    /\ saves < MaxSaves /\ <<r, f>> \in Edited
    /\ saves' = saves + 1
    /\ mtime' = [mtime EXCEPT ![r][f] = saves + 1]
    /\ queue' = [queue EXCEPT ![r] = IF r \in running THEN @ \union {f} ELSE @]
    /\ object' = [i \in DOMAIN object |->
                     IF object[i].repo = r THEN [object[i] EXCEPT !.late = @ \ {f}]
                                           ELSE object[i]]
    /\ unsettled' = [unsettled EXCEPT ![r] = IF Refreshing(r, f) = {} THEN @
                                                                     ELSE @ \union {f}]
    /\ UNCHANGED <<row, table, observers, running, job, built, req, requests, restarts>>

\* The handler has no on_deleted.
DeleteFile(r, f) ==
    /\ mtime[r][f] # 0
    /\ mtime' = [mtime EXCEPT ![r][f] = 0]
    /\ req' = [t \in Thread |-> IF req[t].repo = r /\ req[t].active = f
                                THEN [req[t] EXCEPT !.asked = 0] ELSE req[t]]
    /\ UNCHANGED <<saves, index, watching, job, built, requests, restarts, unsettled>>

-----------------------------------------------------------------------------
(* The table of indexes *)

Known(i) == {f \in File : object[i].mtimes[f] # 0}

\* Where r is in the table, if it is.
Places(r) == {k \in DOMAIN table : object[table[k]].repo = r}

At(k) == table[k]

\* Mutant: the capacity is looked at after the new entry is in.
EvictedLate(s) == IF Len(s) > MaxIndexes THEN Tail(s) ELSE s

\* At capacity the least recently used index goes.
Evicted(s) == IF Len(s) >= MaxIndexes THEN Tail(s) ELSE s

\* RepoIndex(repo), loaded from its rows.
New(r) == [repo |-> r, mtimes |-> row[r], watched |-> FALSE, late |-> {}]

\* get_or_create: afterwards object i is the most recently used.
GetOrCreate(r, i) ==
    \/ \E k \in Places(r) :
           /\ i = At(k)
           /\ table' = Append(RemoveAt(table, k), i)
           /\ UNCHANGED object
    \/ /\ Places(r) = {}
       /\ i = Len(object) + 1
       /\ table' = Append(Evicted(table), i)
       /\ object' = Append(object, New(r))

-----------------------------------------------------------------------------
(* refresh_file *)

\* The stat, of file f for index i; an absent file is left as it is.
Stat(w, i, f) ==
    LET m == mtime[object[i].repo][f] IN
    job' = IF m = 0 THEN job
           ELSE [job EXCEPT ![w] = [pc |-> "compare", idx |-> i, file |-> f, stat |-> m]]

\* The label is that of the stat: nothing to do.
Skip(w) ==
    /\ job[w].pc = "compare"
    /\ object[job[w].idx].mtimes[job[w].file] = job[w].stat
    /\ job' = [job EXCEPT ![w] = NoJob]
    /\ UNCHANGED <<disk, index, watching, built, req, requests, restarts, unsettled>>

\* It is another: the file is parsed and its edges replaced.
Reindex(w) ==
    /\ job[w].pc = "compare"
    /\ object[job[w].idx].mtimes[job[w].file] # job[w].stat
    /\ job' = [job EXCEPT ![w].pc = "label"]
    /\ UNCHANGED <<disk, index, watching, built, req, requests, restarts, unsettled>>

\* A refresh may raise before the label: an import target vanished between
\* its look-ups.
MayRaise(w) ==
    /\ job[w].pc = "label"
    /\ \E g \in File : mtime[object[job[w].idx].repo][g] = 0

\* Files whose present version the observer of index i has still to see: their
\* event is queued, or is being handled.
Expected(i) ==
    LET r == object[i].repo IN
    queue[r] \union {f \in File : /\ job[r].pc \in {"compare", "label"} /\ job[r].file = f
                                 /\ job[r].idx = i /\ job[r].stat = mtime[r][f]}

\* A request that is slow between stat and label takes a newer label back.
TakenBack(w) ==
    LET j == job[w] IN
    IF w \in Thread /\ object[j.idx].watched
       /\ mtime[object[j.idx].repo][j.file] \notin {0, j.stat}
    THEN {j.file} \ Expected(j.idx)
    ELSE {}

Label(w) ==
    LET i == job[w].idx IN
    /\ job[w].pc = "label"
    /\ object' = [object EXCEPT ![i].mtimes[job[w].file] = job[w].stat,
                                ![i].late = @ \union TakenBack(w)]
    /\ job' = [job EXCEPT ![w].pc = "row"]
    /\ UNCHANGED <<disk, row, table, watching, built, req, requests, restarts, unsettled>>

\* Mutant: an index that has left the table saves no row.
SaveRowOfListed(w) ==
    LET i == job[w].idx r == object[i].repo f == job[w].file IN
    /\ job[w].pc = "row"
    /\ row' = IF \E k \in DOMAIN table : table[k] = i
              THEN [row EXCEPT ![r][f] = job[w].stat] ELSE row
    /\ job' = [job EXCEPT ![w] = NoJob]
    /\ unsettled' = IF job[w].stat = mtime[r][f] /\ Refreshing(r, f) = {w}
                    THEN [unsettled EXCEPT ![r] = @ \ {f}] ELSE unsettled
    /\ UNCHANGED <<disk, object, table, watching, built, req, requests, restarts>>

\* save_file_graph; the row of the present version, with no other thread at
\* the file, settles it.
SaveRow(w) ==
    LET r == object[job[w].idx].repo f == job[w].file IN
    /\ job[w].pc = "row"
    /\ row' = [row EXCEPT ![r][f] = job[w].stat]
    /\ job' = [job EXCEPT ![w] = NoJob]
    /\ unsettled' = IF job[w].stat = mtime[r][f] /\ Refreshing(r, f) = {w}
                    THEN [unsettled EXCEPT ![r] = @ \ {f}] ELSE unsettled
    /\ UNCHANGED <<disk, object, table, watching, built, req, requests, restarts>>

-----------------------------------------------------------------------------
(* POST /context *)

IsAt(t, pc) == req[t].pc = pc

\* The next file, or the end of the loop, waits for the last file's refresh.
Free(w) == job[w].pc = "none"

\* Versions of f that refreshes under way may still label.
Versions(r, f) == IF f = NoFile THEN {0}
                  ELSE {mtime[r][f]} \union {job[w].stat : w \in Refreshing(r, f)}

\* A request that mount or the path checks refuse changes nothing.
BeginRequest(t, r, f) ==
    /\ IsAt(t, "idle")
    /\ requests < MaxRequests /\ <<r, f>> \in Asked
    /\ requests' = requests + 1
    /\ \E v \in Versions(r, f) :
          /\ \A u \in Versions(r, f) : v <= u
          /\ req' = [req EXCEPT ![t] = [Idle EXCEPT !.pc = "walkers", !.repo = r,
                                                    !.active = f, !.asked = v]]
    /\ UNCHANGED <<disk, index, watching, job, built, restarts, unsettled>>

\* No active file: the pack is assembled without an index.
AnswerWithoutIndex(t) ==
    /\ IsAt(t, "walkers") /\ req[t].active = NoFile
    /\ req' = [req EXCEPT ![t] = Idle]
    /\ UNCHANGED <<disk, index, watching, job, built, requests, restarts, unsettled>>

\* Mutant: with an observer on the repository nothing is refreshed.
TrustObserver(r, f) ==
    IF r \in observers THEN {{}} ELSE {S \in SUBSET File : f \in S}

\* refresh_neighborhood: the active file and whatever its edges name.
Neighborhood(r, f) == {S \in SUBSET File : f \in S}

\* No file in the index means first request.
LookUp(t) ==
    LET r == req[t].repo IN
    /\ IsAt(t, "walkers") /\ req[t].active # NoFile
    /\ \E i \in 1..Len(object) + 1 :
          /\ GetOrCreate(r, i)
          /\ \/ /\ object'[i].mtimes = Nothing
                /\ req' = [req EXCEPT ![t].pc = "scan", ![t].idx = i, ![t].todo = Scanned]
             \/ /\ object'[i].mtimes # Nothing
                /\ \E S \in Neighborhood(r, req[t].active) :
                      req' = [req EXCEPT ![t].pc = "refresh", ![t].idx = i,
                                         ![t].todo = S]
    /\ UNCHANGED <<disk, row, watching, job, built, requests, restarts, unsettled>>

\* One file of refresh_repo or refresh_neighborhood.
Refresh(t, f) ==
    /\ req[t].pc \in {"scan", "refresh"} /\ f \in req[t].todo /\ Free(t)
    /\ Stat(t, req[t].idx, f)
    /\ req' = [req EXCEPT ![t].todo = @ \ {f}]
    /\ UNCHANGED <<disk, index, watching, built, requests, restarts, unsettled>>

\* The exception ends the request.
RefreshFails(t) ==
    /\ MayRaise(t)
    /\ job' = [job EXCEPT ![t] = NoJob]
    /\ req' = [req EXCEPT ![t] = Idle]
    /\ UNCHANGED <<disk, index, watching, built, requests, restarts, unsettled>>

Stale(i) == {f \in File : mtime[object[i].repo][f] \notin {0, object[i].mtimes[f]}}

\* start_watching, once for a repository.
StartWatching(i) ==
    LET r == object[i].repo IN
    /\ observers' = observers \union {r}
    /\ running' = IF r \in observers THEN running ELSE running \union {r}
    /\ object' = [object EXCEPT ![i].watched = TRUE,
                                ![i].late = IF object[i].watched THEN @
                                             ELSE Stale(i) \ Expected(i)]
    /\ UNCHANGED queue

EndScan(t) ==
    /\ IsAt(t, "scan") /\ req[t].todo = {} /\ Free(t)
    /\ StartWatching(req[t].idx)
    /\ req' = [req EXCEPT ![t].pc = "build"]
    /\ UNCHANGED <<disk, row, table, job, built, requests, restarts, unsettled>>

EndRefresh(t) ==
    /\ IsAt(t, "refresh") /\ req[t].todo = {} /\ Free(t)
    /\ StartWatching(req[t].idx)
    /\ req' = [req EXCEPT ![t].pc = "rank"]
    /\ UNCHANGED <<disk, row, table, job, built, requests, restarts, unsettled>>

-----------------------------------------------------------------------------
(* BM25Index.build, in an executor thread *)

Building(r) == {t \in Thread : req[t].pc = "docs" /\ req[t].repo = r}

\* _docs is cleared, and the iteration over the index's files begins.
BuildStart(t) ==
    /\ IsAt(t, "build")
    /\ req' = [req EXCEPT ![t].pc = "docs", ![t].todo = Known(req[t].idx)]
    /\ UNCHANGED <<disk, index, watching, job, built, requests, restarts, unsettled>>

\* Files that have edges in index i and no label yet.
Unlabelled(i) == {job[w].file : w \in {v \in Worker : job[v].pc = "label"
                                                     /\ job[v].idx = i}}

\* The dictionary it iterates has grown, or another build changes _docs under
\* _compute_idf: RuntimeError, and the request fails.
BuildFails(t) ==
    /\ IsAt(t, "docs")
    /\ \/ Known(req[t].idx) \union Unlabelled(req[t].idx) # req[t].todo
       \/ Building(req[t].repo) # {t}
    /\ req' = [req EXCEPT ![t] = Idle]
    /\ UNCHANGED <<disk, index, watching, job, built, requests, restarts, unsettled>>

\* The statistics are computed and _built is set.
BuildEnd(t) ==
    /\ IsAt(t, "docs")
    /\ built' = built \union {req[t].repo}
    /\ req' = [req EXCEPT ![t].pc = "rank", ![t].todo = {}]
    /\ UNCHANGED <<disk, index, watching, job, requests, restarts, unsettled>>

-----------------------------------------------------------------------------
(* Ranking and assembly, on the event loop *)

\* get_relevant, query_if_sparse, multipliers, assemble and the answer.
Rank(t) ==
    /\ IsAt(t, "rank")
    /\ req' = [req EXCEPT ![t] = Idle]
    /\ UNCHANGED <<disk, index, watching, job, built, requests, restarts, unsettled>>

\* Files other threads may add to index i while it is ranked.
Arriving(i) ==
    UNION {req[t].todo : t \in {u \in Thread : req[u].idx = i
                                               /\ req[u].pc \in {"scan", "refresh"}}}
    \union {job[w].file : w \in {v \in Worker : ~Free(v) /\ job[v].idx = i}}
    \union (IF i \in {table[k] : k \in DOMAIN table} /\ object[i].repo \in running
            THEN queue[object[i].repo] ELSE {})

\* The keyword search iterates the graph, the query _docs: either may grow
\* under it.
RankFails(t) ==
    /\ IsAt(t, "rank")
    /\ \/ Arriving(req[t].idx) \ Known(req[t].idx) # {}
       \/ req[t].repo \in built /\ Building(req[t].repo) # {}
    /\ req' = [req EXCEPT ![t] = Idle]
    /\ UNCHANGED <<disk, index, watching, job, built, requests, restarts, unsettled>>

-----------------------------------------------------------------------------
(* The observers' threads *)

\* Mutant: the handler keeps the index it was started for.
HandlerOfFirst(r) == {i \in DOMAIN object : object[i].repo = r
                                            /\ \A j \in 1..i - 1 : object[j].repo # r}

\* The handler asks the table for the index, at each event.
HandlerIndex(r) == {At(k) : k \in Places(r)}

HandleEvent(r, f) ==
    /\ r \in running /\ f \in queue[r] /\ Free(r)
    /\ queue' = [queue EXCEPT ![r] = @ \ {f}]
    /\ \/ \E i \in HandlerIndex(r) : Stat(r, i, f)
       \/ HandlerIndex(r) = {} /\ UNCHANGED job
    /\ UNCHANGED <<disk, index, observers, running, built, req, requests, restarts,
                   unsettled>>

\* An exception of refresh_file ends the thread; the observer stays registered.
HandlerFails(r) ==
    /\ MayRaise(r)
    /\ running' = running \ {r}
    /\ queue' = [queue EXCEPT ![r] = {}]
    /\ job' = [job EXCEPT ![r] = NoJob]
    /\ UNCHANGED <<disk, index, observers, built, req, requests, restarts, unsettled>>

-----------------------------------------------------------------------------

\* Shutdown or crash, and a new process: the rows are what stays.
Restart ==
    /\ restarts < MaxRestarts
    /\ restarts' = restarts + 1
    /\ object' = <<>> /\ table' = <<>>
    /\ observers' = {} /\ running' = {} /\ queue' = [r \in Repo |-> {}]
    /\ job' = [w \in Worker |-> NoJob]
    /\ built' = {}
    /\ req' = [t \in Thread |-> Idle]
    /\ unsettled' = [r \in Repo |-> {}]
    /\ UNCHANGED <<disk, row, requests>>

Step(t) ==
    \/ AnswerWithoutIndex(t) \/ LookUp(t)
    \/ \E f \in File : Refresh(t, f)
    \/ RefreshFails(t)
    \/ EndScan(t) \/ EndRefresh(t)
    \/ BuildStart(t) \/ BuildFails(t) \/ BuildEnd(t)
    \/ Rank(t) \/ RankFails(t)

Next ==
    \/ \E r \in Repo, f \in File : SaveFile(r, f) \/ DeleteFile(r, f)
    \/ \E t \in Thread, r \in Repo, f \in File \union {NoFile} : BeginRequest(t, r, f)
    \/ \E t \in Thread : Step(t)
    \/ \E w \in Worker : Skip(w) \/ Reindex(w) \/ Label(w) \/ SaveRow(w)
    \/ \E r \in Repo, f \in File : HandleEvent(r, f)
    \/ \E r \in Repo : HandlerFails(r)
    \/ Restart

Spec == Init /\ [][Next]_vars

-----------------------------------------------------------------------------
(* Properties *)

\* Types, and: the table holds at most MaxIndexes indexes, each repository once.
TypeOK ==
    /\ saves \in 0..MaxSaves
    /\ mtime \in [Repo -> [File -> 0..saves]]
    /\ row \in [Repo -> [File -> 0..saves]]
    /\ object \in Seq(Object)
    /\ table \in Seq(1..Len(object))
    /\ Len(table) <= MaxIndexes
    /\ \A j, k \in DOMAIN table : object[At(j)].repo = object[At(k)].repo => j = k
    /\ running \subseteq observers /\ observers \subseteq Repo
    /\ queue \in [Repo -> SUBSET File]
    /\ \A w \in Worker :
          ~Free(w) =>
             /\ job[w].pc \in {"compare", "label", "row"}
             /\ job[w].idx \in DOMAIN object /\ job[w].file \in File
             /\ job[w].stat \in 1..saves
    /\ unsettled \in [Repo -> SUBSET File]
    /\ built \subseteq Repo
    /\ \A t \in Thread :
          /\ req[t].pc \in {"idle", "walkers", "scan", "refresh", "build", "docs", "rank"}
          /\ req[t].active \in File \union {NoFile}
          /\ req[t].idx \in 0..Len(object)
          /\ req[t].pc \in {"scan", "refresh", "build", "docs", "rank"} =>
                /\ req[t].idx # 0
                /\ object[req[t].idx].repo = req[t].repo

\* A pack is never ranked around an older active file than the one the
\* developer had when asking, or, if refreshes of that file were under way then,
\* than the oldest version that one of them had seen: whichever branch the
\* request took, and whatever the watcher, other requests and evictions did
\* meanwhile.  (Of a file deleted since nothing is claimed.  A first scan does not
\* visit an active file outside Scanned; once indexed, it is covered too.)
RankedFresh ==
    \A t \in Thread :
        IsAt(t, "rank") =>
            LET label == object[req[t].idx].mtimes[req[t].active] IN
            label >= req[t].asked \/ (req[t].active \notin Scanned /\ label = 0)

\* While an observer's thread runs, a save of its repository is lost to the
\* index in the table in one way only: a request that had seen an older version
\* labels the file after the event was handled.  Once a request has made sure
\* of the observer, every other file saved since is indexed in its present
\* version, or its event is queued or being handled for this very index, although
\* indexes are evicted and made anew.
NoSaveLost ==
    \A k \in DOMAIN table :
        LET i == At(k) r == object[i].repo IN
        object[i].watched /\ r \in running =>
            Stale(i) \subseteq Expected(i) \union object[i].late

\* Rows of import_graph for a file of index i that are new enough, or will be.
RowKept(i, f) ==
    LET r == object[i].repo IN
    \/ row[r][f] >= object[i].mtimes[f]
    \/ \E w \in Refreshing(r, f) : job[w].pc = "row" /\ job[w].stat >= object[i].mtimes[f]

\* A restart takes an index back only between the label and the row, and of a
\* file saved during a refresh of it, until one that is alone has saved its row:
\* the rows of the others are at least as new as what any index in memory
\* knows, also one that was evicted while a request holds it.
RowsKeepUp ==
    \A i \in DOMAIN object : \A f \in File \ unsettled[object[i].repo] : RowKept(i, f)

-----------------------------------------------------------------------------
(* What the documents say and the code does not do *)

\* "When the import graph gives fewer than 3 results ... BM25 kicks in": a
\* request that ranks has a BM25 index to ask.
Bm25KicksIn == \A t \in Thread : IsAt(t, "rank") => req[t].repo \in built
=============================================================================
