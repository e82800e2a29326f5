--------------------------- MODULE MCSessionDedup ---------------------------
(* Instances of SessionDedup for TLC. *)
EXTENDS SessionDedup

\* One path per repository.
SamePath == [x \in Path |-> x]
=============================================================================
