----------------------------- MODULE SkillPruner -----------------------------
(***************************************************************************)
(* prune_tools of src/ccr/skill_pruner.py: which of the tools a request    *)
(* offers are passed on to the local model.                                *)
(*                                                                         *)
(* A tool is its name and whether the name is at the top of its schema     *)
(* ("flat", Anthropic's form) or inside "function" (OpenAI's form).  The   *)
(* tools passed on are named by their positions in the request; the order  *)
(* they are sent in is left out.  A task is the set of categories its      *)
(* keywords name.                                                          *)
(***************************************************************************)
EXTENDS Naturals, Sequences, FiniteSets

NoName == "no name"

AlwaysKeep == {"Read", "Bash"}

Category == [read   |-> {"Read", "Glob", "Grep"},
             write  |-> {"Write", "Edit", "MultiEdit", "NotebookEdit"},
             shell  |-> {"Bash"},
             search |-> {"WebFetch", "WebSearch"},
             agent  |-> {"Agent", "TodoWrite"}]

\* The categories of one keyword; a task names any union of these, or nothing
\* and then gets the default.
KeywordCategories ==
    {{"read"}, {"read", "write", "shell"}, {"read", "shell"}, {"read", "search"}}

Default == {"read", "shell"}

TaskCategories == {UNION S : S \in (SUBSET KeywordCategories) \ {{}}} \union {Default}

Tool == [name : STRING, flat : BOOLEAN]

\* tool.get("name"): a wrapped tool has no name there.
TopName(t) == IF t.flat THEN t.name ELSE NoName

TopNames(tools, I) == {TopName(tools[i]) : i \in I}

Allowed(categories) == AlwaysKeep \union UNION {Category[c] : c \in categories}

Kept(tool) == TopName(tool) \in AlwaysKeep

\* Mutant: the cap takes the tools in the order they came.
CappedInOrder(tools, I, max) == {i \in I : Cardinality({j \in I : j < i}) < max}

\* AlwaysKeep first.
Before(tools, i, j) ==
    \/ Kept(tools[i]) /\ ~Kept(tools[j])
    \/ (Kept(tools[i]) <=> Kept(tools[j])) /\ i < j

\* (priority + rest)[:max_tools]; nothing is cut off from a list that is no longer.
Capped(tools, I, max) == {i \in I : Cardinality({j \in I : Before(tools, j, i)}) < max}

\* If nothing is left, everything is.
PruneTools(tools, categories, max) ==
    LET pruned == {i \in DOMAIN tools : TopName(tools[i]) \in Allowed(categories)}
    IN IF pruned = {} THEN DOMAIN tools ELSE Capped(tools, pruned, max)
=============================================================================
