---------------------------- MODULE MCWalkerCache ----------------------------
(* Instances of WalkerCache for TLC. *)
EXTENDS WalkerCache
=============================================================================
