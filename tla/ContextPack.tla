----------------------------- MODULE ContextPack -----------------------------
(***************************************************************************)
(* Assembly of one context pack: context_pack.assemble of                  *)
(* src/rlm/context_pack.py, whatever walkers and files give it.            *)
(*                                                                         *)
(* Texts are abstracted to their number of tokens, scores to integers (a   *)
(* tenth each), and the list of files to what all ways to it have in       *)
(* common.  A file may come and go between the checks of it, and the       *)
(* session may answer either way, so both are free choices at each file    *)
(* (SessionDedup says more).  PackOfRepo puts walkers, a repository and    *)
(* the texts of its files in place of the free choices.                    *)
(***************************************************************************)
EXTENDS Repository, Integers, ScoredFiles

CONSTANTS
    Code,         \* files with a suffix worth slicing
    TokenBudget,
    Headers,      \* tokens the header may take
    Diffs,        \* diffs: tokens, and characters to a token
    Graphs,       \* tokens the call graph may take
    Sizes         \* tokens a file's slice may take

ASSUME ConstantsAssumption ==
    /\ Code \subseteq File
    /\ TokenBudget \in Nat
    /\ Headers \subseteq Nat /\ Graphs \subseteq Nat /\ Sizes \subseteq Nat
    /\ Diffs \subseteq [tokens : Nat, density : 1..4]

VARIABLES
    pc, active,
    indexed,    \* whether the index ranks the files: it is on, and there is an active file
    budget,     \* tokens left
    todo,       \* relevant_files still to come
    slices, deduped

vars == <<pc, active, indexed, budget, todo, slices, deduped>>

Candidate == [file : File, score : Nat]

Init ==
    /\ pc = "header"
    /\ active \in File \union {NoFile}
    /\ indexed \in {b \in BOOLEAN : b => active # NoFile}
    /\ budget = TokenBudget
    /\ todo = <<>> /\ slices = <<>> /\ deduped = {}

-----------------------------------------------------------------------------
(* The fixed parts *)

TakeHeader(h) ==
    /\ pc = "header"
    /\ pc' = "diff"
    /\ budget' = budget - h
    /\ UNCHANGED <<active, indexed, todo, slices, deduped>>

\* A fifth of the budget.
DiffBudget == TokenBudget \div 5

\* A diff over its budget is cut to four characters for each token of it.
CutDiff(d) ==
    IF d.tokens <= DiffBudget \/ d.tokens * d.density <= DiffBudget * 4 THEN d.tokens
    ELSE (DiffBudget * 4) \div d.density

TakeDiff(d) ==
    /\ pc = "diff"
    /\ pc' = "graph"
    /\ budget' = budget - CutDiff(d)
    /\ UNCHANGED <<active, indexed, todo, slices, deduped>>

\* The call graph goes in whole.
TakeGraph(g) ==
    /\ pc = "graph"
    /\ pc' = "rank"
    /\ budget' = budget - g
    /\ UNCHANGED <<active, indexed, todo, slices, deduped>>

-----------------------------------------------------------------------------
(* relevant_files: by descending score, the active file with at least 1.5, and *)
(* no file twice if the list is the index's.                                   *)

RankFiles ==
    /\ pc = "rank"
    /\ pc' = "slices"
    /\ todo' \in Seq(Candidate)
    /\ Sorted(todo')
    /\ \A i \in DOMAIN todo' : todo'[i].file = active => todo'[i].score >= 15
    /\ indexed => Distinct(todo')
    /\ UNCHANGED <<active, indexed, budget, slices, deduped>>

-----------------------------------------------------------------------------
(* The slice loop *)

AtFile == pc = "slices" /\ budget > 0 /\ todo # <<>>

\* Absent, or not a file worth slicing.
SkipFile ==
    /\ AtFile
    /\ todo' = Tail(todo)
    /\ UNCHANGED <<pc, active, indexed, budget, slices, deduped>>

\* The session has seen it; the active file is never asked about.
DedupFile ==
    /\ AtFile
    /\ Head(todo).file \in Code \ {active}
    /\ deduped' = deduped \union {Head(todo).file}
    /\ todo' = Tail(todo)
    /\ UNCHANGED <<pc, active, indexed, budget, slices>>

\* Mutant: a slice is cut, but all its tokens are counted.
TakeSliceUncapped(n) ==
    /\ AtFile
    /\ Head(todo).file \in Code
    /\ slices' = Append(slices, [file |-> Head(todo).file, score |-> Head(todo).score,
                                 tokens |-> n, cut |-> n > budget])
    /\ budget' = budget - n
    /\ todo' = Tail(todo)
    /\ UNCHANGED <<pc, active, indexed, deduped>>

\* A slice of n tokens, cut to the tokens left.
TakeSlice(n) ==
    /\ AtFile
    /\ Head(todo).file \in Code
    /\ slices' = Append(slices, [file |-> Head(todo).file, score |-> Head(todo).score,
                                 tokens |-> IF n > budget THEN budget ELSE n,
                                 cut |-> n > budget])
    /\ budget' = IF n > budget THEN 0 ELSE budget - n
    /\ todo' = Tail(todo)
    /\ UNCHANGED <<pc, active, indexed, deduped>>

\* The file vanished since it was checked or may not be read, or the tokens of its
\* text cannot be counted: the request fails without an answer.
ReadFails ==
    /\ AtFile
    /\ Head(todo).file \in Code
    /\ pc' = "failed"
    /\ UNCHANGED <<active, indexed, budget, todo, slices, deduped>>

\* No budget or no file left.
Finish ==
    /\ pc = "slices" /\ (budget <= 0 \/ todo = <<>>)
    /\ pc' = "done"
    /\ UNCHANGED <<active, indexed, budget, todo, slices, deduped>>

Next ==
    \/ \E h \in Headers : TakeHeader(h)
    \/ \E d \in Diffs : TakeDiff(d)
    \/ \E g \in Graphs : TakeGraph(g)
    \/ RankFiles
    \/ SkipFile \/ DedupFile \/ ReadFails \/ Finish
    \/ \E n \in Sizes : TakeSlice(n)

Spec == Init /\ [][Next]_vars

-----------------------------------------------------------------------------
(* Properties *)

TypeOK ==
    /\ pc \in {"header", "diff", "graph", "rank", "slices", "done", "failed"}
    /\ active \in File \union {NoFile}
    /\ indexed \in BOOLEAN
    /\ budget \in Int /\ budget <= TokenBudget
    /\ todo \in Seq(Candidate)
    /\ slices \in Seq([file : File, score : Nat, tokens : Nat, cut : BOOLEAN])
    /\ deduped \subseteq Code

\* pack.token_count
TokenCount == TokenBudget - budget

\* No slice goes in on credit: a pack with a slice is within the budget as a
\* whole, and a slice is cut only where it spends the last token.
WithinBudget ==
    slices # <<>> =>
        /\ TokenCount <= TokenBudget
        /\ \A i \in DOMAIN slices :
               slices[i].cut => i = Len(slices) /\ TokenCount = TokenBudget

\* Files go in by descending score, the active file with at least 1.5: only
\* files that score as much can come before it or take its tokens.
RankOrder ==
    \A i, j \in DOMAIN slices :
        i < j => /\ slices[i].score >= slices[j].score
                 /\ slices[j].file = active => slices[i].score >= 15

\* With a ranking of the index, no file is carried twice, and none is carried
\* and at the same time announced as already in context.
CarriedOnce ==
    indexed =>
        /\ \A i, j \in DOMAIN slices : slices[i].file = slices[j].file => i = j
        /\ \A i \in DOMAIN slices : slices[i].file \notin deduped
=============================================================================
