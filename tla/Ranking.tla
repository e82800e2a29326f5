------------------------------- MODULE Ranking -------------------------------
(***************************************************************************)
(* The ranking of one request: RepoIndex.get_relevant and                  *)
(* get_relevant_from_diff of src/rlm/repo_index.py, BM25's                 *)
(* query_if_sparse of src/rlm/bm25.py and the learned multipliers, as      *)
(* POST /context of src/rlm/main.py puts them together.                    *)
(*                                                                         *)
(* Files are numbered in the order in which git names them; the lists of   *)
(* the graph have orders of their own.                                     *)
(* Scores are integers, Unit to 1.0, chosen so that three edges lose no    *)
(* digit.  The matches of the task's keywords, BM25's answer and the       *)
(* multipliers are any that can be.  Both directions of the import graph   *)
(* are taken to agree (RepoIndex says when they do).                       *)
(***************************************************************************)
EXTENDS ScoredFiles, FiniteSetsExt

CONSTANTS
    N,            \* files
    Floor,        \* least score that is passed on
    MIN_GRAPH_RESULTS,
    Wanted,       \* values of n, the number of files wanted
    Graphs,       \* import graphs: set of pairs, first imports second
    Changes,      \* sets of changed files
    Actives,      \* active files
    Existing,     \* sets of files that are there
    Scanned,      \* sets of files the index has scanned
    Matches,      \* sets of files the task's keywords may match
    Bm25Answers,  \* answers of BM25: lists of files with scores
    Multipliers   \* learned multipliers, in halves

File == 1..N
Unit == 500000000

Candidate == [file : File, score : Nat]

ASSUME ConstantsAssumption ==
    /\ N \in Nat /\ MIN_GRAPH_RESULTS \in Nat
    /\ Floor \in Nat /\ Floor >= 20   \* no score is rounded to 0
    /\ Wanted \subseteq Nat \ {0}
    /\ Graphs \subseteq SUBSET (File \X File)
    /\ Actives \subseteq File
    /\ \A S \in Changes \union Existing \union Scanned \union Matches : S \subseteq File
    /\ \A b \in Bm25Answers : /\ b \in Seq([file : File, score : Nat \ {0}])
                               /\ Distinct(b) /\ Sorted(b)
    /\ Multipliers \subseteq [File -> 1..4]

VARIABLES
    n, graph, scanned, changed, active, exists,   \* input
    pc,
    queue, visited,                   \* _bfs; visited in order of insertion
    walked,                           \* files the walk ranked
    results

input == <<n, graph, scanned, changed, active, exists>>
vars  == <<input, pc, queue, visited, walked, results>>

Init ==
    /\ n \in Wanted /\ graph \in Graphs
    /\ scanned \in Scanned /\ changed \in Changes
    /\ active \in Actives /\ exists \in Existing
    /\ pc = "seed"
    /\ queue = <<>> /\ visited = <<>> /\ walked = {} /\ results = <<>>

-----------------------------------------------------------------------------

InOrder(S) == Keep([f \in File |-> f], S)

Scored(S, score) == [i \in 1..Cardinality(S) |-> [file |-> InOrder(S)[i], score |-> score]]

\* The files of S in any order.
Listed(S, score) ==
    {r \in [1..Cardinality(S) -> [file : S, score : {score}]] : Distinct(r)}

\* Keys of the graph: what was scanned, and what it imports.
Known == scanned \union UNION {{e[1], e[2]} : e \in graph}

\* Mutant: the changed files alone.
SeedsOfDiff == Scored(changed \intersect exists, 2 * Unit)

\* Changed files that exist, then the active file if it exists and is not
\* among them; without any, the active file if index or disk know it.
Seeds ==
    LET diff == changed \intersect exists
        rest == IF diff = {} /\ active \in Known THEN {active}
                ELSE ({active} \intersect exists) \ diff
    IN Scored(diff, 2 * Unit) \o Scored(rest, (3 * Unit) \div 2)

\* Without a seed the answer is empty, whatever the task says.
Seed ==
    /\ pc = "seed"
    /\ pc' = IF Seeds = <<>> THEN "bm25" ELSE "walk"
    /\ queue' = Seeds
    /\ UNCHANGED <<input, visited, walked, results>>

-----------------------------------------------------------------------------
(* _bfs *)

\* 0.65 and 0.9
Passed(score) == (score \div 100) * 65
Back(score)   == (score \div 10) * 9

Imports(f)    == {g \in File : <<f, g>> \in graph}
ImportedBy(f) == {g \in File : <<g, f>> \in graph}

\* What the walk reaches from f, imports first, each list in the order it grew in.
\* (A file that f imports twice would only be met again with the same score.)
Neighbors(f, score, seen) ==
    {p[1] \o p[2] : p \in Listed(Imports(f) \ seen, Passed(score))
                            \X Listed(ImportedBy(f) \ seen, Back(Passed(score)))}

Current == Head(queue)

Visited == FilesOf(visited)

\* Mutant: the last score stays.
LastScore(v, c) ==
    [i \in DOMAIN v |-> IF v[i].file = c.file THEN c ELSE v[i]]

\* The higher score stays.
Raise(v, c) ==
    [i \in DOMAIN v |-> IF v[i].file = c.file /\ c.score > v[i].score THEN c ELSE v[i]]

VisitAgain ==
    /\ pc = "walk" /\ queue # <<>> /\ Current.file \in Visited
    /\ visited' = Raise(visited, Current)
    /\ queue' = Tail(queue)
    /\ UNCHANGED <<input, pc, walked, results>>

\* The walk ends at twice the files wanted.
Full(v) == Len(v) >= 2 * n

Visit ==
    /\ pc = "walk" /\ queue # <<>> /\ Current.file \notin Visited
    /\ visited' = Append(visited, Current)
    /\ \/ /\ Full(visited')
          /\ queue' = <<>>
       \/ /\ ~Full(visited') /\ Passed(Current.score) < Floor
          /\ queue' = Tail(queue)
       \/ /\ ~Full(visited') /\ Passed(Current.score) >= Floor
          /\ \E new \in Neighbors(Current.file, Current.score, Visited \union {Current.file}) :
                 queue' = Tail(queue) \o new
    /\ UNCHANGED <<input, pc, walked, results>>

\* Mutant: one too many.
FirstAndOneMore(r) == SubSeq(r, 1, Min({n + 1, Len(r)}))

\* r[:n]
First(r) == SubSeq(r, 1, Min({n, Len(r)}))

EndWalk ==
    /\ pc = "walk" /\ queue = <<>>
    /\ pc' = "keywords"
    /\ results' = First(SortByScore(visited))
    /\ walked' = FilesOf(First(SortByScore(visited)))
    /\ UNCHANGED <<input, queue, visited>>

-----------------------------------------------------------------------------
(* What is not found over edges *)

\* Mutant of Least: the highest score.
Highest(r, default) == IF r = <<>> THEN default ELSE Max({r[i].score : i \in DOMAIN r})

Least(r, default) == IF r = <<>> THEN default ELSE Min({r[i].score : i \in DOMAIN r})

\* _boost_by_task_keywords: four fifths of the least score.
Inject(S) ==
    LET new == (S \intersect Known) \ FilesOf(results) IN
    /\ pc = "keywords"
    /\ pc' = "bm25"
    /\ \E injected \in Listed(new, (Least(results, Unit \div 2) \div 10) * 8) :
           results' = First(IF new = {} THEN results ELSE SortByScore(results \o injected))
    /\ UNCHANGED <<input, queue, visited, walked>>

Sparse(r) == Len(r) < MIN_GRAPH_RESULTS

\* Mutant: what is there already is not left out.
AllOf(answer) == answer

\* What is there already is left out.
NotThere(answer) == Keep(answer, [file : File \ FilesOf(results), score : Nat])

\* The best of BM25's answer gets nine tenths of the least score, the others in
\* proportion; without graph results the scores are BM25's.
Scaled(new) ==
    IF results = <<>> \/ new = <<>> THEN new
    ELSE [i \in DOMAIN new |->
             [new[i] EXCEPT !.score = (Back(Least(results, 0)) \div new[1].score) * @]]

\* <<>>: nothing found, or no BM25 index.
QueryIfSparse(answer) ==
    /\ pc = "bm25"
    /\ pc' = "learned"
    /\ results' = IF Sparse(results)
                  THEN First(SortByScore(results \o Scaled(NotThere(answer))))
                  ELSE results
    /\ UNCHANGED <<input, queue, visited, walked>>

Reweighted(r, m) ==
    SortByScore([i \in DOMAIN r |-> [r[i] EXCEPT !.score = (@ \div 2) * m[r[i].file]]])

Multiply(m) ==
    /\ pc = "learned"
    /\ pc' = "done"
    /\ results' = Reweighted(results, m)
    /\ UNCHANGED <<input, queue, visited, walked>>

Next ==
    \/ Seed \/ VisitAgain \/ Visit \/ EndWalk
    \/ \E S \in Matches : Inject(S)
    \/ \E b \in Bm25Answers : QueryIfSparse(b)
    \/ \E m \in Multipliers : Multiply(m)

Spec == Init /\ [][Next]_vars

-----------------------------------------------------------------------------
(* Properties *)

\* Types, and: the walk visits a file once, and no more than twice those wanted.
TypeOK ==
    /\ pc \in {"seed", "walk", "keywords", "bm25", "learned", "done"}
    /\ queue \in Seq(Candidate)
    /\ visited \in Seq(Candidate) /\ Distinct(visited) /\ Len(visited) <= 2 * n
    /\ walked \subseteq Visited
    /\ results \in Seq(Candidate) /\ Len(results) <= n

\* What the assembly relies on (ContextPack): files in the order of their
\* scores, none twice, although three sources fed the list.
HandedOver == pc = "done" => Distinct(results) /\ Sorted(results)

\* The best score a path of at most k edges from a seed gives each file.
BestBy[k \in 0..N] ==
    IF k = 0 THEN [f \in File |-> Max({0} \union {Seeds[i].score : i \in
                                     {j \in DOMAIN Seeds : Seeds[j].file = f}})]
    ELSE [f \in File |->
             Max({BestBy[k - 1][f]}
                 \union {Passed(BestBy[k - 1][g]) : g \in ImportedBy(f)}
                 \union {Back(Passed(BestBy[k - 1][g])) : g \in Imports(f)})]

\* The walk is not Dijkstra's, it may pass on a score and raise it later; but it
\* never rates a file above its best path, a seed keeps its own score or better,
\* and unless the walk was cut, what a seed passes over one edge arrives.
ScoresMeanPaths ==
    pc = "keywords" =>
        /\ \A i \in DOMAIN visited : visited[i].score <= BestBy[N][visited[i].file]
        /\ \A i \in DOMAIN visited : visited[i].score >= BestBy[0][visited[i].file]
        /\ ~Full(visited) =>
              \A f \in File : BestBy[1][f] >= Floor =>
                  \E i \in DOMAIN visited : visited[i].file = f /\ visited[i].score >= BestBy[1][f]

\* "structural edges still dominate": until what was learned is applied, files
\* found over edges come before all that keywords and BM25 bring.
EdgesDominate ==
    pc = "learned" =>
        \A i, j \in DOMAIN results :
            results[i].file \in walked /\ results[j].file \notin walked =>
                results[i].score > results[j].score

\* A burst of changed files does not push the active file out while there is
\* room: it is ranked, and only changed files come before it.
ActiveRanked ==
    pc = "learned" /\ active \in exists /\ Cardinality(changed \union {active}) <= n =>
        \E i \in DOMAIN results :
            /\ results[i].file = active
            /\ \A j \in 1..i - 1 : results[j].file \in changed
=============================================================================
