------------------------------ MODULE Symbols ------------------------------
(***************************************************************************)
(* Symbols of a Python text: the symbol walker, src/rlm/walkers/symbols.py, *)
(* and the choice of lines a pack shows of a file, _extract_symbol_slice   *)
(* and _merge_ranges of src/rlm/context_pack.py.                           *)
(*                                                                         *)
(* Of a text they see                                                      *)
(*   parses  whether it is valid Python;                                   *)
(*   lines   how many lines it has;                                        *)
(*   defs    its definitions in the order of ast.walk, level by level:     *)
(*           name, function or class, top (at module scope), first line    *)
(*           (past its decorators) and last, and the names called anywhere *)
(*           within;                                                       *)
(*   feeds   form feeds before the first definition: str.splitlines, whose *)
(*           lines are cut out, ends a line at each, the parser, whose     *)
(*           numbers are used, does not.                                   *)
(***************************************************************************)
EXTENDS Integers, Sequences, FiniteSets, SequencesExt, Lists

CONSTANTS
    TopSymbols,     \* symbols shown when none stands out
    FillerShare,    \* one symbol in so many may be shown to fill up
    Gap,            \* lines between two ranges that are shown along
    PlainLines,     \* lines shown of a file without symbols
    StopWords       \* words of a task that name nothing

ASSUME SymbolsAssumption ==
    TopSymbols \in Nat \ {0} /\ FillerShare \in Nat \ {0} /\ Gap \in Nat

\* What Python's grammar says of definitions: those at module scope follow each
\* other, and each begins on a line of its own.
Grammatical(t) ==
    /\ t.defs \in Seq(ToSet(t.defs))
    /\ \A i \in DOMAIN t.defs :
           /\ t.defs[i].top \in BOOLEAN /\ t.defs[i].first \in Nat /\ t.defs[i].last \in Nat
           /\ t.defs[i].first <= t.defs[i].last
    /\ \A i, j \in DOMAIN t.defs :
           i < j /\ t.defs[i].top /\ t.defs[j].top => t.defs[i].last < t.defs[j].first

-----------------------------------------------------------------------------
(* symbols.py *)

Defs(t) == IF t.parses THEN t.defs ELSE <<>>

Walked(t) == DOMAIN Defs(t)

\* The table has one entry for a name: the last definition walked.
Entries(t) ==
    {i \in Walked(t) : \A j \in Walked(t) : j > i => Defs(t)[j].name # Defs(t)[i].name}

\* Classes are entered without calls.
CallsOf(d) == IF d.kind = "class" THEN {} ELSE d.calls

\* What assemble takes of the table: the entries with calls are the call graph,
\* and all they call are the called names.
SymbolGraph(t) == {[name |-> Defs(t)[i].name, calls |-> CallsOf(Defs(t)[i])] :
                      i \in {j \in Entries(t) : CallsOf(Defs(t)[j]) # {}}}

CalledNames(graph) == UNION {e.calls : e \in graph}

-----------------------------------------------------------------------------
(* _extract_symbol_slice *)

TaskKeywords(task) == task \ StopWords

TopLevel(t) == Keep(Defs(t), {d \in ToSet(Defs(t)) : d.top})

\* First k of a set of indices.
FirstOf(S, k) == {i \in S : Cardinality({j \in S : j < i}) < k}

\* Mutant: as many symbols of interest as of the others.
ChosenCapped(s, keywords, called) ==
    LET high     == {i \in DOMAIN s : s[i].name \in keywords \union called}
        selected == FirstOf(IF high = {} THEN DOMAIN s ELSE high, TopSymbols)
        fillers  == Len(s) \div FillerShare - Cardinality(selected)
    IN selected \union FirstOf(DOMAIN s \ high, fillers)

\* The symbols the task names or the active file calls (scores 2.0 and 1.5);
\* without any, the first few; then the first others (score 0.4) up to a share
\* of the symbols.
Chosen(s, keywords, called) ==
    LET high     == {i \in DOMAIN s : s[i].name \in keywords \union called}
        selected == IF high = {} THEN FirstOf(DOMAIN s, TopSymbols) ELSE high
        fillers  == Len(s) \div FillerShare - Cardinality(selected)
    IN selected \union FirstOf(DOMAIN s \ high, fillers)

\* Mutant: the range before is closed by the length of the new one.
JoinedShort(ranges, d) ==
    LET prev == ranges[Len(ranges)] IN
    IF ranges # <<>> /\ d.first <= prev.last + Gap + 1
    THEN [ranges EXCEPT ![Len(ranges)].last = prev.last + (d.last - d.first + 1)]
    ELSE Append(ranges, [first |-> d.first, last |-> d.last])

\* One turn of _merge_ranges' loop.
Joined(ranges, d) ==
    LET prev == ranges[Len(ranges)] IN
    IF ranges # <<>> /\ d.first <= prev.last + Gap + 1
    THEN [ranges EXCEPT ![Len(ranges)].last = IF d.last > prev.last THEN d.last ELSE prev.last]
    ELSE Append(ranges, [first |-> d.first, last |-> d.last])

MergeRanges(defs) ==
    LET merged[k \in 0..Len(defs)] ==
            IF k = 0 THEN <<>> ELSE Joined(merged[k - 1], defs[k])
    IN merged[Len(defs)]

\* What is cut out between the parser's line numbers: lines end at form feeds
\* too, so as many lines too early.
Shifted(r, t) == [first |-> r.first - t.feeds, last |-> r.last - t.feeds]

Plain(t) == IF t.lines = 0 THEN <<>>
            ELSE <<[first |-> 1, last |-> IF t.lines > PlainLines THEN PlainLines ELSE t.lines]>>

\* The ranges of lines a pack shows of a file.
SymbolSlice(t, keywords, called) ==
    LET s == TopLevel(t) IN
    IF s = <<>> THEN Plain(t)
    ELSE LET c      == Chosen(s, keywords, called)
             merged == MergeRanges(Keep(s, {s[i] : i \in c}))
         IN [k \in DOMAIN merged |-> Shifted(merged[k], t)]

SliceLines(ranges) == FoldLeft(LAMBDA n, r : n + r.last - r.first + 1, 0, ranges)
=============================================================================
