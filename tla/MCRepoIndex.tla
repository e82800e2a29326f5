----------------------------- MODULE MCRepoIndex -----------------------------
(* Instances of RepoIndex for TLC. *)
EXTENDS RepoIndex, TLC

\* Each file may import any files, itself included.
AnyText == SUBSET File

\* The threads behave alike and no definition tells them apart.
AnyThread == Permutations(Thread)
=============================================================================
