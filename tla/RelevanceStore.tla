--------------------------- MODULE RelevanceStore ---------------------------
(***************************************************************************)
(* The answer-driven relevance store: src/rlm/relevance_store.py with its  *)
(* rows in src/rlm/store.py, fed by POST /feedback in executor threads and *)
(* read by POST /context on the event loop (src/rlm/main.py).              *)
(*                                                                         *)
(* A thread is cut where another can come between: after the look-up in    *)
(* _store, after the rows are read, before repo_scores is bound, after an  *)
(* entry is counted, after the arguments of save_relevance are evaluated   *)
(* (its lock is taken inside).  _store maps a path to a dict object, which *)
(* a late load replaces while another thread still holds the old one, so   *)
(* the objects are modelled.  The text of an answer is abstracted to the   *)
(* set of files it cites.                                                  *)
(***************************************************************************)
EXTENDS Naturals, Sequences

CONSTANTS
    Path,         \* repository paths a client may name
    Mount,        \* what workspace.mount resolves each of them to
    File,
    Thread,       \* threads inside the store, the event loop included
    MaxFeedback,  \* bound on feedback calls
    MaxRankings,  \* bound on rankings that consult the store
    MaxRestarts   \* bound on restarts of the process

ASSUME ConstantsAssumption ==
    /\ Path # {} /\ Mount \in [Path -> Path]
    /\ File # {}
    /\ MaxFeedback \in Nat /\ MaxRankings \in Nat /\ MaxRestarts \in Nat

VARIABLES
    row,        \* table relevance
    table,      \* _store: path -> dict object, 0 if not loaded
    objects,    \* the dicts created so far, by number
    job,        \* a call in each thread
    overlapped, \* auxiliary: paths that two calls were in at once, since the start
    feedbacks, rankings, restarts

vars == <<row, table, objects, job, overlapped, feedbacks, rankings, restarts>>

MIN_OBSERVATIONS == 3

None == [hits |-> 0, total |-> 0]

\* Mutant: a file that is not cited loses a hit.
PlusPenalty(c, cited) == [hits  |-> IF cited THEN c.hits + 1 ELSE c.hits - 1,
                          total |-> c.total + 1]

\* The observation of one more answer.
Plus(c, cited) == [hits  |-> c.hits + (IF cited THEN 1 ELSE 0),
                   total |-> c.total + 1]

Count == [hits : Nat, total : Nat]

NoCounts == [f \in File |-> None]

Idle == [pc |-> "idle", path |-> CHOOSE p \in Path : TRUE, todo |-> {},
         cited |-> {}, cur |-> CHOOSE f \in File : TRUE, ref |-> 0,
         rows |-> NoCounts, args |-> None]

Init ==
    /\ row = [p \in Path |-> NoCounts]
    /\ table = [p \in Path |-> 0]
    /\ objects = <<>>
    /\ job = [t \in Thread |-> Idle]
    /\ overlapped = {}
    /\ feedbacks = 0 /\ rankings = 0 /\ restarts = 0

At(t, pc) == job[t].pc = pc

\* The path of a new call of t joins overlapped if another call is in it.
Enter(t, p) ==
    overlapped' = IF \E u \in Thread \ {t} : ~At(u, "idle") /\ job[u].path = p
                  THEN overlapped \union {p} ELSE overlapped

\* _ensure_loaded: the look-up.
Entry(p) == IF table[p] = 0 THEN "load" ELSE "bind"

\* record: files of one answer and those it cites, under the path CCR was given.
BeginRecord(t, p, F, C) ==
    /\ At(t, "idle") /\ feedbacks < MaxFeedback /\ C \subseteq F
    /\ feedbacks' = feedbacks + 1
    /\ job' = [job EXCEPT ![t] = [Idle EXCEPT
                  !.pc = Entry(p), !.path = p, !.todo = F, !.cited = C]]
    /\ Enter(t, p)
    /\ UNCHANGED <<row, table, objects, rankings, restarts>>

\* get_multiplier for the files of a pack, under the mounted path: it loads
\* the table and counts nothing.
BeginRanking(t, p) ==
    /\ At(t, "idle") /\ rankings < MaxRankings
    /\ table[Mount[p]] = 0
    /\ rankings' = rankings + 1
    /\ job' = [job EXCEPT ![t] = [Idle EXCEPT !.pc = "load", !.path = Mount[p]]]
    /\ Enter(t, Mount[p])
    /\ UNCHANGED <<row, table, objects, feedbacks, restarts>>

\* Mutant: a repository starts with no counts.
LoadNothing(t) ==
    /\ At(t, "load")
    /\ job' = [job EXCEPT ![t].pc = "assign", ![t].rows = NoCounts]
    /\ UNCHANGED <<row, table, objects, overlapped, feedbacks, rankings, restarts>>

\* load_relevance reads the rows under the store's lock.
LoadRows(t) ==
    /\ At(t, "load")
    /\ job' = [job EXCEPT ![t].pc = "assign", ![t].rows = row[job[t].path]]
    /\ UNCHANGED <<row, table, objects, overlapped, feedbacks, rankings, restarts>>

\* _store[repo_path] = a new dict, whatever is there by now.
AssignTable(t) ==
    /\ At(t, "assign")
    /\ objects' = Append(objects, job[t].rows)
    /\ table' = [table EXCEPT ![job[t].path] = Len(objects) + 1]
    /\ job' = [job EXCEPT ![t].pc = "bind", ![t].rows = NoCounts]
    /\ UNCHANGED <<row, overlapped, feedbacks, rankings, restarts>>

\* repo_scores = _store.setdefault(repo_path, {})
BindTable(t) ==
    /\ At(t, "bind")
    /\ job' = IF job[t].todo = {} THEN [job EXCEPT ![t] = Idle]
              ELSE [job EXCEPT ![t].pc = "count", ![t].ref = table[job[t].path]]
    /\ UNCHANGED <<row, table, objects, overlapped, feedbacks, rankings, restarts>>

\* total and hits go up together: no call between the two.
CountFile(t, f) ==
    /\ At(t, "count") /\ f \in job[t].todo
    /\ objects' = [objects EXCEPT ![job[t].ref][f] =
           Plus(@, f \in job[t].cited)]
    /\ job' = [job EXCEPT ![t].pc = "args", ![t].cur = f, ![t].todo = @ \ {f}]
    /\ UNCHANGED <<row, table, overlapped, feedbacks, rankings, restarts>>

\* The arguments of save_relevance, before its lock.
TakeArgs(t) ==
    /\ At(t, "args")
    /\ job' = [job EXCEPT ![t].pc = "save",
                          ![t].args = objects[job[t].ref][job[t].cur]]
    /\ UNCHANGED <<row, table, objects, overlapped, feedbacks, rankings, restarts>>

\* Mutant: the hits are read inside the store's lock, the total before it.
SaveRowLate(t) ==
    /\ At(t, "save")
    /\ row' = [row EXCEPT ![job[t].path][job[t].cur] =
           [hits |-> objects[job[t].ref][job[t].cur].hits, total |-> job[t].args.total]]
    /\ job' = IF job[t].todo = {} THEN [job EXCEPT ![t] = Idle]
              ELSE [job EXCEPT ![t].pc = "count", ![t].args = None]
    /\ UNCHANGED <<table, objects, overlapped, feedbacks, rankings, restarts>>

SaveRow(t) ==
    /\ At(t, "save")
    /\ row' = [row EXCEPT ![job[t].path][job[t].cur] = job[t].args]
    /\ job' = IF job[t].todo = {} THEN [job EXCEPT ![t] = Idle]
              ELSE [job EXCEPT ![t].pc = "count", ![t].args = None]
    /\ UNCHANGED <<table, objects, overlapped, feedbacks, rankings, restarts>>

\* The process ends at any point; only the rows remain.
Restart ==
    /\ restarts < MaxRestarts
    /\ restarts' = restarts + 1
    /\ table' = [p \in Path |-> 0]
    /\ objects' = <<>>
    /\ job' = [t \in Thread |-> Idle]
    /\ overlapped' = {}
    /\ UNCHANGED <<row, feedbacks, rankings>>

Step(t) ==
    \/ LoadRows(t) \/ AssignTable(t) \/ BindTable(t)
    \/ \E f \in File : CountFile(t, f)
    \/ TakeArgs(t) \/ SaveRow(t)

Next ==
    \/ \E t \in Thread, p \in Path, F \in (SUBSET File) \ {{}}, C \in SUBSET File :
           BeginRecord(t, p, F, C)
    \/ \E t \in Thread, p \in Path : BeginRanking(t, p)
    \/ \E t \in Thread : Step(t)
    \/ Restart

Spec == Init /\ [][Next]_vars

-----------------------------------------------------------------------------
(* Properties *)

\* Types; no path and no call refers to a dict that does not exist.
TypeOK ==
    /\ row \in [Path -> [File -> Count]]
    /\ objects \in Seq([File -> Count])
    /\ table \in [Path -> 0..Len(objects)]
    /\ job \in [Thread ->
           [pc : {"idle", "load", "assign", "bind", "count", "args", "save"},
            path : Path, todo : SUBSET File, cited : SUBSET File, cur : File,
            ref : 0..Len(objects), rows : [File -> Count], args : Count]]
    /\ overlapped \in SUBSET Path
    /\ feedbacks \in Nat /\ rankings \in Nat /\ restarts \in Nat

\* get_multiplier as a fraction: 1, or 0.5 + hits / total * 1.5.
Multiplier(c) ==
    IF c.total < MIN_OBSERVATIONS THEN [num |-> 1, den |-> 1]
    ELSE [num |-> 5 * c.total + 15 * c.hits, den |-> 10 * c.total]

\* A multiplier between 0.5 and 2.0.
InRange(m) == m.den <= 2 * m.num /\ m.num <= 2 * m.den

\* A count no update, lost or not, may leave behind.
Sound(c) == c.hits <= c.total /\ InRange(Multiplier(c))

\* Whatever threads interleave, whichever updates they lose and wherever a crash
\* cuts them, no file is cited more often than observed, in memory or in the
\* rows loaded later, and so the ranking multiplies by 0.5 to 2.0.
MultipliersInRange ==
    \A f \in File :
        /\ \A p \in Path : Sound(row[p][f])
        /\ \A i \in 1..Len(objects) : Sound(objects[i][f])

\* The rows implement the counter: under a path that no two calls were in at
\* once since the process started, each saved row is the old one with one more
\* observation, across loads, rankings and restarts; where calls overlapped
\* observations may be lost, but no file is cited more often than observed.
Counter == INSTANCE RelevanceCounter WITH count <- row

CounterSpec == Counter!Spec
=============================================================================
