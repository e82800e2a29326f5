----------------------------- MODULE WalkerCache -----------------------------
(***************************************************************************)
(* Walkers and their cache: run_walker of src/rlm/workspace.py over        *)
(* src/rlm/cache.py.  Calls of concurrent requests interleave where        *)
(* run_walker awaits: between the look-up and the end of the subprocess.   *)
(* The subprocess reads the repository at some moment in between, and the  *)
(* result is labelled after it has ended.                                  *)
(*                                                                         *)
(* A walker is given a file, and its answer is named by the version of the *)
(* file it read: the mtime, 0 if absent.  A key is a file (one walker, one *)
(* repository).  What the import walker's answer owes to other files is    *)
(* left out: no label could tell.                                          *)
(*                                                                         *)
(* late is auxiliary: whether the file was saved after the walker read it  *)
(* and before its answer was labelled.  Only the properties read it.       *)
(***************************************************************************)
EXTENDS Naturals, SequencesExt

CONSTANTS
    File,
    Caller,   \* calls of run_walker that may be in progress at once
    MaxSize,  \* _MAX_CACHE_SIZE
    MaxSaves, \* bound on saves
    MaxWalks  \* bound on subprocesses

ASSUME ConstantsAssumption ==
    /\ File # {}
    /\ MaxSize \in Nat \ {0}
    /\ MaxSaves \in Nat /\ MaxWalks \in Nat

VARIABLES
    saves, mtime,  \* repository
    cache,         \* _cache, in insertion order
    call,          \* run_walker, per caller
    orphans,       \* subprocesses nobody waits for any more
    walks

files == <<saves, mtime>>
vars  == <<files, cache, call, orphans, walks>>

Idle == [pc |-> "idle", file |-> CHOOSE f \in File : TRUE, data |-> 0,
         late |-> FALSE]

Init ==
    /\ saves = 0
    /\ mtime = [f \in File |-> 0]
    /\ cache = <<>>
    /\ call = [c \in Caller |-> Idle]
    /\ orphans = 0
    /\ walks = 0

Walking == {c \in Caller : call[c].pc \in {"started", "walked"}}

-----------------------------------------------------------------------------
(* The developer *)

SaveFile(f) ==
    /\ saves < MaxSaves
    /\ saves' = saves + 1
    /\ mtime' = [mtime EXCEPT ![f] = saves + 1]
    /\ call' = [c \in Caller |->
           IF call[c].pc = "walked" /\ call[c].file = f
           THEN [call[c] EXCEPT !.late = TRUE] ELSE call[c]]
    /\ UNCHANGED <<cache, orphans, walks>>

DeleteFile(f) ==
    /\ mtime[f] # 0
    /\ mtime' = [mtime EXCEPT ![f] = 0]
    /\ UNCHANGED <<saves, cache, call, orphans, walks>>

-----------------------------------------------------------------------------
(* cache.py *)

Entries(f) == {i \in DOMAIN cache : cache[i].file = f}

\* Mutant: any entry of an existing file will do.
ValidIfCached(f) == Entries(f) # {} /\ mtime[f] # 0

\* cache.get returns data: an entry whose label is the present mtime.
Valid(f) == \E i \in Entries(f) : mtime[f] # 0 /\ cache[i].mtime = mtime[f]

\* What cache.get leaves: a stale entry is deleted, one whose file is absent
\* is not.
AfterGet(f) ==
    IF Entries(f) # {} /\ mtime[f] # 0 /\ ~Valid(f)
    THEN RemoveAt(cache, CHOOSE i \in Entries(f) : TRUE)
    ELSE cache

\* Mutant: an absent file is cached too.
AfterSetOfAbsent(f, d, late) ==
    LET e == [file |-> f, data |-> d, mtime |-> mtime[f], late |-> late] IN
    IF Entries(f) # {} THEN [i \in DOMAIN cache |->
                                IF i \in Entries(f) THEN e ELSE cache[i]]
    ELSE IF Len(cache) >= MaxSize THEN Append(Tail(cache), e)
    ELSE Append(cache, e)

\* Mutant: the cache counts as full one entry too late.
AfterSetOffByOne(f, d, late) ==
    LET e == [file |-> f, data |-> d, mtime |-> mtime[f], late |-> late] IN
    IF mtime[f] = 0 THEN cache
    ELSE IF Entries(f) # {} THEN [i \in DOMAIN cache |->
                                     IF i \in Entries(f) THEN e ELSE cache[i]]
    ELSE IF Len(cache) > MaxSize THEN Append(Tail(cache), e)
    ELSE Append(cache, e)

\* cache.set, with the mtime of this moment: an old key keeps its place, a new
\* one pushes the oldest out when the cache is full.
AfterSet(f, d, late) ==
    LET e == [file |-> f, data |-> d, mtime |-> mtime[f], late |-> late] IN
    IF mtime[f] = 0 THEN cache
    ELSE IF Entries(f) # {} THEN [i \in DOMAIN cache |->
                                     IF i \in Entries(f) THEN e ELSE cache[i]]
    ELSE IF Len(cache) >= MaxSize THEN Append(Tail(cache), e)
    ELSE Append(cache, e)

-----------------------------------------------------------------------------
(* run_walker *)

Hit(c, f) ==
    /\ call[c].pc = "idle"
    /\ Valid(f)
    /\ \E i \in Entries(f) :
           call' = [call EXCEPT ![c] = [pc |-> "hit", file |-> f,
                                        data |-> cache[i].data,
                                        late |-> cache[i].late]]
    /\ UNCHANGED <<files, cache, orphans, walks>>

StartWalker(c, f) ==
    /\ call[c].pc = "idle" /\ walks < MaxWalks
    /\ ~Valid(f)
    /\ cache' = AfterGet(f)
    /\ walks' = walks + 1
    /\ call' = [call EXCEPT ![c] = [Idle EXCEPT !.pc = "started", !.file = f]]
    /\ UNCHANGED <<files, orphans>>

\* The subprocess reads the repository; an absent file gives empty lists.
WalkerReads(c) ==
    /\ call[c].pc = "started"
    /\ call' = [call EXCEPT ![c].pc = "walked", ![c].data = mtime[call[c].file]]
    /\ UNCHANGED <<files, cache, orphans, walks>>

\* Exit status 0 and valid JSON without "error": cached and returned.
WalkerEnds(c) ==
    /\ call[c].pc = "walked"
    /\ cache' = AfterSet(call[c].file, call[c].data, call[c].late)
    /\ call' = [call EXCEPT ![c].pc = "fresh"]
    /\ UNCHANGED <<files, orphans, walks>>

\* The spawn fails, or the exit status or the output is bad: not cached.
WalkerFails(c) ==
    /\ c \in Walking
    /\ call' = [call EXCEPT ![c] = [Idle EXCEPT !.pc = "error"]]
    /\ UNCHANGED <<files, cache, orphans, walks>>

\* Mutant: the deadline covers the reading of the output only.
TimeoutOnceRunning(c) ==
    /\ call[c].pc = "walked"
    /\ orphans' = orphans + 1
    /\ call' = [call EXCEPT ![c] = [Idle EXCEPT !.pc = "error"]]
    /\ UNCHANGED <<files, cache, walks>>

\* wait_for gives up; nothing stops the subprocess.
Timeout(c) ==
    /\ c \in Walking
    /\ orphans' = orphans + 1
    /\ call' = [call EXCEPT ![c] = [Idle EXCEPT !.pc = "error"]]
    /\ UNCHANGED <<files, cache, walks>>

OrphanEnds ==
    /\ orphans > 0
    /\ orphans' = orphans - 1
    /\ UNCHANGED <<files, cache, call, walks>>

\* The request takes the answer and goes on.
TakeAnswer(c) ==
    /\ call[c].pc \in {"hit", "fresh", "error"}
    /\ call' = [call EXCEPT ![c] = Idle]
    /\ UNCHANGED <<files, cache, orphans, walks>>

\* DELETE /cache
Clear ==
    /\ cache' = <<>>
    /\ UNCHANGED <<files, call, orphans, walks>>

Next ==
    \/ \E f \in File : SaveFile(f) \/ DeleteFile(f)
    \/ \E c \in Caller, f \in File : Hit(c, f) \/ StartWalker(c, f)
    \/ \E c \in Caller : \/ WalkerReads(c) \/ WalkerEnds(c) \/ WalkerFails(c)
                         \/ Timeout(c) \/ TakeAnswer(c)
    \/ OrphanEnds
    \/ Clear

Spec == Init /\ [][Next]_vars

\* wait_for fires, and the request resumes when run_walker returns.  Nothing
\* is assumed of the subprocess, which may hang for ever; only its creation,
\* which is outside wait_for, is taken to return.
FairSpec == Spec /\ \A c \in Caller : WF_vars(Timeout(c)) /\ WF_vars(TakeAnswer(c))

-----------------------------------------------------------------------------
(* Properties *)

TypeOK ==
    /\ saves \in 0..MaxSaves /\ walks \in 0..MaxWalks /\ orphans \in 0..walks
    /\ mtime \in [File -> 0..saves]
    /\ cache \in Seq([file : File, data : 0..saves, mtime : 1..saves, late : BOOLEAN])
    /\ call \in [Caller ->
           [pc : {"idle", "hit", "started", "walked", "fresh", "error"},
            file : File, data : 0..saves, late : BOOLEAN]]

\* However calls overlap, the cache keeps at most MaxSize entries and one per
\* key.
CacheBounded ==
    /\ Len(cache) <= MaxSize
    /\ \A i, j \in DOMAIN cache : cache[i].file = cache[j].file => i = j

\* Whatever is saved, deleted, pushed out, cleared or walked again at the same
\* time, an answer served from the cache was computed from the file's present
\* text, unless the file was saved in the one gap set leaves open: after the
\* walker of that very answer had read it and before the answer was labelled.
OnlyRacedHitsAreOld ==
    [][\A c \in Caller, f \in File :
           Hit(c, f) => call'[c].data = mtime[f] \/ call'[c].late]_vars

\* "re-run the walker if stale": an answer served from the cache was computed
\* from the file's present text.  A save during the walk breaks it.
HitIsCurrent ==
    [][\A c \in Caller, f \in File :
           Hit(c, f) => call'[c].data = mtime[f]]_vars

\* A walker that outlives the deadline or hangs never holds a request up:
\* every call returns.
EveryCallReturns ==
    \A c \in Caller : call[c].pc = "started" ~> call[c].pc = "idle"
=============================================================================
