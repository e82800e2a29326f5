------------------------------ MODULE MCGateway ------------------------------
(* Instances of Gateway for TLC. *)
EXTENDS Gateway, TLC

CONSTANTS a, b, p, q

\* The work is in p.  A request for q, of a file that is not there, puts q's index
\* in the place of p's.
FilesOfP == {p} \X File

AskedOfP == {p} \X (File \union {NoFile})

AskedOfBoth == AskedOfP \union {<<q, a>>}

\* Requests are interchangeable.
AnyThread == Permutations(Thread)
=============================================================================
