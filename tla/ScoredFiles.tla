---------------------------- MODULE ScoredFiles ----------------------------
(***************************************************************************)
(* Lists of files with a relevance score, as the ranking of                *)
(* src/rlm/repo_index.py and src/rlm/bm25.py builds them and the assembly  *)
(* of src/rlm/context_pack.py takes them.                                  *)
(***************************************************************************)
EXTENDS Lists, Sequences

FilesOf(r) == {r[i].file : i \in DOMAIN r}

Distinct(r) == \A i, j \in DOMAIN r : r[i].file = r[j].file => i = j

Sorted(r) == \A i, j \in DOMAIN r : i < j => r[i].score >= r[j].score

\* Mutant: the list is left as it is.
Unsorted(r) == r

\* sort by descending score: stable.
SortByScore(r) ==
    LET Before(i, j) == r[i].score > r[j].score \/ (r[i].score = r[j].score /\ i < j)
        Place(j)     == 1 + Cardinality({i \in DOMAIN r : Before(i, j)})
    IN [k \in DOMAIN r |-> r[CHOOSE j \in DOMAIN r : Place(j) = k]]
=============================================================================
