-------------------------- MODULE RelevanceCounter --------------------------
(***************************************************************************)
(* What the relevance store promises: for every repository and file, how   *)
(* many answers were observed and how many of them cited the file, counted *)
(* one observation at a time and never forgotten - until two calls overlap *)
(* in a repository.  From then to the next start of the process its counts *)
(* may be overwritten by older ones, though never by unsound ones.  The    *)
(* abstract specification RelevanceStore is checked against.               *)
(***************************************************************************)
EXTENDS Naturals

CONSTANTS Path, File

VARIABLES count, overlapped

None == [hits |-> 0, total |-> 0]

\* The observation of one more answer.
Plus(c, cited) == [hits  |-> c.hits + (IF cited THEN 1 ELSE 0),
                   total |-> c.total + 1]

Init ==
    /\ count = [p \in Path |-> [f \in File |-> None]]
    /\ overlapped = {}

Observe(p, f, cited) ==
    /\ count' = [count EXCEPT ![p][f] = Plus(@, cited)]
    /\ UNCHANGED overlapped

\* Two calls meet.
Overlap(p) == overlapped' = overlapped \union {p} /\ UNCHANGED count

\* One of them writes what it knew.
Overwrite(p, f) ==
    /\ p \in overlapped
    /\ count' = [count EXCEPT ![p][f] = count'[p][f]]
    /\ count'[p][f].hits <= count'[p][f].total
    /\ UNCHANGED overlapped

Restart == overlapped' = {} /\ UNCHANGED count

Next ==
    \/ \E p \in Path, f \in File, cited \in BOOLEAN : Observe(p, f, cited)
    \/ \E p \in Path : Overlap(p)
    \/ \E p \in Path, f \in File : Overwrite(p, f)
    \/ Restart

Spec == Init /\ [][Next]_<<count, overlapped>>
=============================================================================
