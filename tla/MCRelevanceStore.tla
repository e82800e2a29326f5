-------------------------- MODULE MCRelevanceStore --------------------------
(* Instances of RelevanceStore for TLC. *)
EXTENDS RelevanceStore, TLC

\* One path per repository.
SamePath == [x \in Path |-> x]

\* The threads behave alike and no definition tells them apart.
AnyThread == Permutations(Thread)
=============================================================================
