----------------------------- MODULE Repository -----------------------------
(***************************************************************************)
(* The files a repository may have.  A tree gives each of them its text,   *)
(* or Absent.                                                              *)
(***************************************************************************)
EXTENDS Lists

CONSTANTS File, NoFile, Absent

ASSUME FileAssumption == IsFiniteSet(File) /\ NoFile \notin File

Files(tree)     == {f \in File : tree[f] # Absent}
Exists(f, tree) == f \in Files(tree)
=============================================================================
