------------------------------ MODULE MCRanking ------------------------------
(* Instances of Ranking for TLC. *)
EXTENDS Ranking

\* All graphs of at most three edges.
SmallGraphs == UNION {kSubset(k, {e \in File \X File : e[1] # e[2]}) : k \in 0..3}

UpToTwo == UNION {kSubset(k, File) : k \in 0..2}
UpToOne == UNION {kSubset(k, File) : k \in 0..1}

NoneOrAll == {{}, File}

AllOrAllButOne == {File, File \ {1}}

\* Answers of at most two files, with equal scores or one twice the other.
ShortAnswers ==
    {<<>>} \union {<<[file |-> f, score |-> 2]>> : f \in File}
    \union {<<[file |-> e[1], score |-> 2], [file |-> e[2], score |-> s]>> :
               s \in 1..2, e \in {x \in File \X File : x[1] # x[2]}}

\* Nothing learned; one file at half or at twice its score.
SomeMultipliers ==
    {[f \in File |-> IF f = g THEN m ELSE 2] : g \in {1, N}, m \in {1, 2, 4}}
=============================================================================
