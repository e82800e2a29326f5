--------------------------- MODULE RepoIndexProofs ---------------------------
(***************************************************************************)
(* Theorems about RepoIndex for any set of files, texts and threads, any   *)
(* number of saves and any number of restarts, however refreshes overlap.  *)
(***************************************************************************)
EXTENDS RepoIndex, TLAPS

-----------------------------------------------------------------------------
(* The inductive invariant.  The property alone is not inductive: it says  *)
(* nothing of a refresh in flight nor of the rows a restart will load.     *)

\* A version m of f is not newer than the file.
Behind(f, m) == mtime[f] = 0 \/ m <= mtime[f]

\* If m is still the version of f, S is what f imports.
Sound(f, m, S) == mtime[f] # 0 /\ mtime[f] = m => CurrentImports(f, m, S)

\* No two threads refreshed f at once.
Alone(f) == {f} \notin beside

\* Memory and rows.
IndexInv ==
    \A f \in File :
        /\ Behind(f, mtimes[f])
        /\ Alone(f) =>
              /\ Sound(f, mtimes[f], imports[f])
              /\ mtime[f] # 0 /\ mtimes[f] = mtime[f] => symbols[f] \in {0, mtime[f]}

RowInv ==
    \A f \in File :
        /\ Behind(f, row[f].mtime)
        /\ Alone(f) => Sound(f, row[f].mtime, row[f].imports)

\* What the local variables of a refresh of f with stat m are worth.
LocalInv(pc, f, m, seen, found, symv) ==
    /\ m # 0
    /\ Behind(f, m)
    /\ pc \in {"symbols", "unlink"} /\ mtime[f] = m => seen = text[f]
    /\ pc \in {"unlink", "store", "link", "label"} /\ mtime[f] = m => symv = m
    /\ pc \in {"store", "link", "label"} => Sound(f, m, found)

\* How the index stands to a refresh no other refresh of f overlaps.
SharedInv(pc, f, m, found) ==
    /\ pc = "compare" => mtimes[f] <= m
    /\ pc \notin {"compare", "save"} => mtimes[f] < m
    /\ pc \in {"link", "label"} => imports[f] = found
    /\ pc = "save" => mtimes[f] = m

\* What the invariant says of the refresh thread t is in.
LocalInvOf(t) == LocalInv(job[t].pc, job[t].file, job[t].stat, job[t].seen,
                          job[t].found, job[t].symv)

SharedInvOf(t) == Alone(job[t].file) =>
                      SharedInv(job[t].pc, job[t].file, job[t].stat, job[t].found)

JobInvOf(t) == LocalInvOf(t) /\ SharedInvOf(t)

JobsInv == \A t \in Thread : ~At(t, "idle") => JobInvOf(t)

\* Refreshes that run now overlap.
BesideInv ==
    \A t, u \in Thread : t # u /\ ~At(t, "idle") /\ ~At(u, "idle") =>
        {job[t].file, job[u].file} \in beside

IInv == TypeOK /\ IndexInv /\ RowInv /\ JobsInv /\ BesideInv

-----------------------------------------------------------------------------
(* Type correctness, for any number of overlapping refreshes *)

\* A record of a refresh may be moved to another step, and given what it read.
LEMMA RecordUpdate ==
    ASSUME NEW r \in Job, NEW pc \in PC
    PROVE  /\ [r EXCEPT !.pc = pc] \in Job
           /\ \A S \in SUBSET File : /\ [r EXCEPT !.pc = pc, !.seen = S] \in Job
                                     /\ [r EXCEPT !.pc = pc, !.found = S] \in Job
           /\ \A v \in 0..clock : [r EXCEPT !.pc = pc, !.symv = v] \in Job
BY DEF Job

LEMMA Steps ==
    \A pc \in {"idle", "compare", "imports", "symbols", "unlink", "store", "link",
               "label", "save"} : pc \in PC
BY DEF PC

LEMMA IdleType == clock \in Nat => Idle \in Job
BY ConstantsAssumption DEF Idle, Job, PC

\* One thread's record may be replaced by any other record.
LEMMA JobUpdate ==
    ASSUME job \in [Thread -> Job], NEW t \in Thread, NEW r \in Job,
           job' = [job EXCEPT ![t] = r]
    PROVE  job' \in [Thread -> Job]
OBVIOUS

\* Every state is well typed and no version in it is ahead of the clock.
THEOREM TypeCorrect == Spec => []TypeOK
<1>1. Init => TypeOK
  BY IdleType, ConstantsAssumption DEF Init, TypeOK, NoRow, Row
<1>2. TypeOK /\ [Next]_vars => TypeOK'
  <2> SUFFICES ASSUME TypeOK, [Next]_vars PROVE TypeOK'
    OBVIOUS
  <2> USE DEF TypeOK
  <2>1. ASSUME NEW f \in File, NEW S \in Text, SaveFile(f, S) PROVE TypeOK'
    <3>1. clock' = clock + 1 /\ 0..clock \subseteq 0..clock'
      BY <2>1 DEF SaveFile
    <3>2. Row \subseteq Row' /\ Job \subseteq Job'
      BY <3>1 DEF Row, Job
    <3>3. /\ clock' \in Nat
          /\ mtime' \in [File -> 0..clock']
          /\ text' \in [File -> SUBSET File]
      BY <2>1, <3>1, ConstantsAssumption DEF SaveFile
    <3>4. mtimes' \in [File -> 0..clock'] /\ symbols' \in [File -> 0..clock']
      BY <2>1, <3>1 DEF SaveFile, index
    <3>5. row' \in [File -> Row'] /\ job' \in [Thread -> Job']
      BY <2>1, <3>2 DEF SaveFile
    <3> QED
      BY <2>1, <3>3, <3>4, <3>5 DEF SaveFile, index
  <2>2. ASSUME NEW f \in File, DeleteFile(f) PROVE TypeOK'
    BY <2>2 DEF DeleteFile, index, Row, Job
  <2>3. ASSUME NEW t \in Thread, NEW f \in File, StartRefresh(t, f) PROVE TypeOK'
    <3>1. [Idle EXCEPT !.pc = "compare", !.file = f, !.stat = mtime[f]] \in Job
      BY <2>3, IdleType DEF StartRefresh, Exists, Job, PC
    <3>2. job' \in [Thread -> Job]
      BY <2>3, <3>1, JobUpdate DEF StartRefresh
    <3>3. \A u \in Thread : {f, job[u].file} \in SUBSET File
      BY DEF Job
    <3>4. beside' \in SUBSET SUBSET File
      BY <2>3, <3>3 DEF StartRefresh, Meet
    <3> QED
      BY <2>3, <3>2, <3>4 DEF StartRefresh, disk, index, Row, Job
  <2>4. ASSUME NEW t \in Thread, ParseImports(t) PROVE TypeOK'
    <3> DEFINE r == [job[t] EXCEPT !.pc = "symbols", !.seen = text[job[t].file]]
    <3>1. job[t] \in Job /\ text[job[t].file] \in SUBSET File
      BY DEF Job
    <3>2. r \in Job
      BY <3>1, Steps, RecordUpdate
    <3>3. job' = [job EXCEPT ![t] = r]
      BY <2>4 DEF ParseImports
    <3> HIDE DEF r
    <3> QED
      BY <2>4, <3>2, <3>3, JobUpdate DEF ParseImports, disk, index, Row, Job
  <2>5. ASSUME NEW t \in Thread, ParseSymbols(t) PROVE TypeOK'
    <3> DEFINE r == [job[t] EXCEPT !.pc = "unlink", !.symv = mtime[job[t].file]]
    <3>1. job[t] \in Job /\ mtime[job[t].file] \in 0..clock
      BY DEF Job
    <3>2. r \in Job
      BY <3>1, Steps, RecordUpdate
    <3>3. job' = [job EXCEPT ![t] = r]
      BY <2>5 DEF ParseSymbols
    <3> HIDE DEF r
    <3> QED
      BY <2>5, <3>2, <3>3, JobUpdate DEF ParseSymbols, disk, index, Row, Job
  <2>6. ASSUME NEW t \in Thread, Unlink(t) PROVE TypeOK'
    <3> DEFINE r == [job[t] EXCEPT !.pc = "store", !.found = {g \in job[t].seen : Exists(g)}]
    <3>1. job[t] \in Job /\ {g \in job[t].seen : Exists(g)} \in SUBSET File
      BY DEF Job
    <3>2. r \in Job
      BY <3>1, Steps, RecordUpdate
    <3>3. job' = [job EXCEPT ![t] = r]
      BY <2>6 DEF Unlink
    <3> HIDE DEF r
    <3> QED
      BY <2>6, <3>2, <3>3, JobUpdate DEF Unlink, Unlinked, disk, Row, Job
  <2>7. ASSUME NEW t \in Thread, Store(t) PROVE TypeOK'
    <3> DEFINE r == [job[t] EXCEPT !.pc = "link"]
    <3>1. job[t] \in Job
      BY DEF Job
    <3>2. r \in Job
      BY <3>1, Steps, RecordUpdate
    <3>3. job' = [job EXCEPT ![t] = r]
      BY <2>7 DEF Store
    <3> HIDE DEF r
    <3>4. imports' \in [File -> SUBSET File]
      BY <2>7 DEF Store, Job
    <3> QED
      BY <2>7, <3>2, <3>3, <3>4, JobUpdate DEF Store, disk, Row, Job
  <2>8. ASSUME NEW t \in Thread, StoreFails(t) PROVE TypeOK'
    BY <2>8, IdleType, JobUpdate DEF StoreFails, disk, index, Row, Job
  <2>9. ASSUME NEW t \in Thread, Link(t) PROVE TypeOK'
    <3> DEFINE r == [job[t] EXCEPT !.pc = "label"]
    <3>1. job[t] \in Job
      BY DEF Job
    <3>2. r \in Job
      BY <3>1, Steps, RecordUpdate
    <3>3. job' = [job EXCEPT ![t] = r]
      BY <2>9 DEF Link
    <3> HIDE DEF r
    <3>4. importedBy' \in [File -> SUBSET File]
      BY <2>9 DEF Link, Linked, Job
    <3> QED
      BY <2>9, <3>2, <3>3, <3>4, JobUpdate DEF Link, Linked, disk, Row, Job
  <2>10. ASSUME NEW t \in Thread, Label(t) PROVE TypeOK'
    <3> DEFINE r == [job[t] EXCEPT !.pc = "save"]
    <3>1. job[t] \in Job
      BY DEF Job
    <3>2. r \in Job
      BY <3>1, Steps, RecordUpdate
    <3>3. job' = [job EXCEPT ![t] = r]
      BY <2>10 DEF Label
    <3> HIDE DEF r
    <3>4. /\ symbols' \in [File -> 0..clock]
          /\ mtimes' \in [File -> 0..clock]
      BY <2>10 DEF Label, Job
    <3> QED
      BY <2>10, <3>2, <3>3, <3>4, JobUpdate DEF Label, disk, Row, Job
  <2>11. ASSUME NEW t \in Thread, SaveRow(t) PROVE TypeOK'
    <3>1. row' \in [File -> Row]
      BY <2>11 DEF SaveRow, Row, Job
    <3> QED
      BY <2>11, <3>1, IdleType, JobUpdate DEF SaveRow, disk, index, Row, Job
  <2>12. ASSUME NEW t \in Thread, Skip(t) PROVE TypeOK'
    BY <2>12, IdleType, JobUpdate DEF Skip, disk, index, Row, Job
  <2>13. ASSUME NEW t \in Thread, Reindex(t) PROVE TypeOK'
    <3> DEFINE r == [job[t] EXCEPT !.pc = "imports"]
    <3>1. job[t] \in Job
      BY DEF Job
    <3>2. r \in Job
      BY <3>1, Steps, RecordUpdate
    <3>3. job' = [job EXCEPT ![t] = r]
      BY <2>13 DEF Reindex
    <3> HIDE DEF r
    <3> QED
      BY <2>13, <3>2, <3>3, JobUpdate DEF Reindex, disk, index, Row, Job
  <2>14. CASE Restart
    <3>1. /\ imports' \in [File -> SUBSET File]
          /\ importedBy' \in [File -> SUBSET File]
          /\ mtimes' \in [File -> 0..clock]
      BY <2>14 DEF Restart, Row
    <3>2. job' \in [Thread -> Job] /\ symbols' \in [File -> 0..clock]
      BY <2>14, IdleType DEF Restart
    <3>3. restarts' \in 0..MaxRestarts
      BY <2>14, ConstantsAssumption DEF Restart
    <3> QED
      BY <2>14, <3>1, <3>2, <3>3 DEF Restart, disk, Row, Job
  <2>15. CASE UNCHANGED vars
    BY <2>15 DEF vars, disk, index, Row, Job
  <2> QED
    BY <2>1, <2>2, <2>3, <2>4, <2>5, <2>6, <2>7, <2>8, <2>9, <2>10, <2>11,
       <2>14, <2>15, <2>12, <2>13 DEF Next, Step
<1> QED BY <1>1, <1>2, PTL DEF Spec

-----------------------------------------------------------------------------
(* What the file system may do under a refresh *)

\* Saving or deleting a file spoils neither the order of versions nor what is
\* known of the imports of a version that is still current.
LEMMA DiskKeepsSound ==
    ASSUME TypeOK, NEW f \in File, NEW S \in SUBSET File,
           SaveFile(f, S) \/ DeleteFile(f),
           NEW h \in File, NEW m \in 0..clock
    PROVE  /\ Behind(h, m) => Behind(h, m)'
           /\ mtime'[h] # 0 /\ mtime'[h] = m =>
                  mtime[h] = m /\ text'[h] = text[h]
           /\ \A I \in SUBSET File : Sound(h, m, I) => Sound(h, m, I)'
<1> USE DEF TypeOK
<1>1. CASE SaveFile(f, S)
  <2>1. /\ clock \in Nat
        /\ mtime' = [mtime EXCEPT ![f] = clock + 1]
        /\ text' = [text EXCEPT ![f] = S]
    BY <1>1 DEF SaveFile
  <2>2. Behind(h, m) => Behind(h, m)'
    BY <2>1 DEF Behind
  <2>3. mtime'[h] # 0 /\ mtime'[h] = m => h # f /\ mtime[h] = m /\ text'[h] = text[h]
    BY <2>1
  <2>4. \A g \in File : mtime[g] = 0 \/ mtime[g] > m => mtime'[g] = 0 \/ mtime'[g] > m
    BY <2>1
  <2>5. ASSUME NEW I \in SUBSET File, Sound(h, m, I) PROVE Sound(h, m, I)'
    BY <2>3, <2>4, <2>5 DEF Sound, CurrentImports
  <2> QED
    BY <2>2, <2>3, <2>5
<1>2. CASE DeleteFile(f)
  <2>1. /\ mtime' = [mtime EXCEPT ![f] = 0]
        /\ text' = [text EXCEPT ![f] = {}]
    BY <1>2 DEF DeleteFile
  <2>2. Behind(h, m) => Behind(h, m)'
    BY <2>1 DEF Behind
  <2>3. mtime'[h] # 0 => h # f /\ mtime[h] = mtime'[h] /\ text'[h] = text[h]
    BY <2>1
  <2>4. \A g \in File : mtime[g] = 0 \/ mtime[g] > m => mtime'[g] = 0 \/ mtime'[g] > m
    BY <2>1
  <2>5. ASSUME NEW I \in SUBSET File, Sound(h, m, I) PROVE Sound(h, m, I)'
    BY <2>3, <2>4, <2>5 DEF Sound, CurrentImports
  <2> QED
    BY <2>2, <2>3, <2>5
<1> QED BY <1>1, <1>2

LEMMA DiskStep ==
    ASSUME IInv, NEW f \in File, NEW S \in SUBSET File,
           SaveFile(f, S) \/ DeleteFile(f)
    PROVE  IndexInv' /\ RowInv' /\ JobsInv' /\ BesideInv'
<1>1. UNCHANGED <<imports, mtimes, symbols, row, job, beside>>
  BY DEF SaveFile, DeleteFile, index
<1>2. \A h \in File, m \in 0..clock :
          /\ Behind(h, m) => Behind(h, m)'
          /\ mtime'[h] # 0 /\ mtime'[h] = m => mtime[h] = m /\ text'[h] = text[h]
          /\ \A I \in SUBSET File : Sound(h, m, I) => Sound(h, m, I)'
  BY DiskKeepsSound DEF IInv
<1>3. TypeOK
  BY DEF IInv
<1>4. IndexInv'
  <2> SUFFICES ASSUME NEW h \in File
               PROVE  /\ Behind(h, mtimes[h])'
                      /\ Alone(h)' =>
                            /\ Sound(h, mtimes[h], imports[h])'
                            /\ (mtime[h] # 0 /\ mtimes[h] = mtime[h] =>
                                   symbols[h] \in {0, mtime[h]})'
    BY DEF IndexInv
  <2>1. mtimes[h] \in 0..clock /\ imports[h] \in SUBSET File
    BY <1>3 DEF TypeOK
  <2>2. Alone(h)' => Alone(h)
    BY <1>1 DEF Alone
  <2>3. /\ Behind(h, mtimes[h])
        /\ Alone(h) => /\ Sound(h, mtimes[h], imports[h])
                       /\ mtime[h] # 0 /\ mtimes[h] = mtime[h] => symbols[h] \in {0, mtime[h]}
    BY DEF IInv, IndexInv
  <2>4. Behind(h, mtimes[h])' /\ (Alone(h)' => Sound(h, mtimes[h], imports[h])')
    BY <1>1, <1>2, <2>1, <2>2, <2>3 DEF Behind, Sound, CurrentImports
  <2>5. Alone(h)' /\ mtime'[h] # 0 /\ mtimes'[h] = mtime'[h] => symbols'[h] \in {0, mtime'[h]}
    BY <1>1, <1>2, <2>1, <2>2, <2>3
  <2> QED
    BY <2>4, <2>5
<1>5. RowInv'
  <2> SUFFICES ASSUME NEW h \in File
               PROVE  /\ Behind(h, row[h].mtime)'
                      /\ Alone(h)' => Sound(h, row[h].mtime, row[h].imports)'
    BY DEF RowInv
  <2>1. row[h].mtime \in 0..clock /\ row[h].imports \in SUBSET File
    BY <1>3 DEF TypeOK, Row
  <2>2. Alone(h)' => Alone(h)
    BY <1>1 DEF Alone
  <2> QED
    BY <1>1, <1>2, <2>1, <2>2 DEF IInv, RowInv, Behind, Sound, CurrentImports
<1>6. JobsInv'
  <2> SUFFICES ASSUME NEW t \in Thread, ~At(t, "idle")'
               PROVE  JobInvOf(t)'
    BY DEF JobsInv
  <2>1. /\ job[t].file \in File
        /\ job[t].stat \in 0..clock
        /\ job[t].found \in SUBSET File
    BY <1>3 DEF TypeOK, Job
  <2>2. JobInvOf(t)
    BY <1>1 DEF IInv, JobsInv, At
  <2>3. /\ Behind(job[t].file, job[t].stat)'
        /\ Sound(job[t].file, job[t].stat, job[t].found) =>
               Sound(job[t].file, job[t].stat, job[t].found)'
        /\ mtime'[job[t].file] # 0 /\ mtime'[job[t].file] = job[t].stat =>
               /\ mtime[job[t].file] = job[t].stat
               /\ text'[job[t].file] = text[job[t].file]
    BY <1>1, <1>2, <2>1, <2>2 DEF JobInvOf, LocalInvOf, LocalInv, Behind, Sound, CurrentImports
  <2>4. LocalInvOf(t)'
    BY <1>1, <2>2, <2>3 DEF JobInvOf, LocalInvOf, LocalInv
  <2>5. SharedInvOf(t)'
    BY <1>1, <2>2 DEF JobInvOf, SharedInvOf, SharedInv, Alone
  <2> QED
    BY <2>4, <2>5 DEF JobInvOf
<1>7. BesideInv'
  BY <1>1 DEF IInv, BesideInv, At
<1> QED BY <1>4, <1>5, <1>6, <1>7

-----------------------------------------------------------------------------
(* A step of one thread's refresh *)

\* What thread u knows survives a step of another thread t: the disk stays, and
\* a file that u alone refreshes is none that t does.
LEMMA OtherJobs ==
    ASSUME IInv, NEW t \in Thread, NEW u \in Thread, u # t,
           UNCHANGED <<mtime, text>>, job'[u] = job[u],
           \A f \in File : f # job[t].file =>
               imports'[f] = imports[f] /\ mtimes'[f] = mtimes[f],
           beside \subseteq beside',
           At(t, "idle") => imports' = imports /\ mtimes' = mtimes,
           ~At(u, "idle")'
    PROVE  JobInvOf(u)'
<1>1. ~At(u, "idle") /\ JobInvOf(u) /\ job[u].file \in File
  BY DEF IInv, TypeOK, Job, JobsInv, At
<1>2. LocalInvOf(u)'
  BY <1>1 DEF JobInvOf, LocalInvOf, LocalInv, Behind, Sound, CurrentImports
<1>3. SharedInvOf(u)'
  <2> SUFFICES ASSUME Alone(job[u].file)' PROVE SharedInvOf(u)'
    BY DEF SharedInvOf
  <2>1. Alone(job[u].file)
    BY DEF Alone
  <2>2. CASE At(t, "idle")
    BY <1>1, <2>1, <2>2 DEF JobInvOf, SharedInvOf, SharedInv
  <2>3. CASE ~At(t, "idle")
    <3>1. {job[t].file, job[u].file} \in beside
      BY <1>1, <2>3 DEF IInv, BesideInv
    <3>2. job[t].file # job[u].file
      BY <2>1, <3>1 DEF Alone
    <3>3. imports'[job[u].file] = imports[job[u].file] /\ mtimes'[job[u].file] = mtimes[job[u].file]
      BY <1>1, <3>2
    <3> QED
      BY <1>1, <2>1, <3>3 DEF JobInvOf, SharedInvOf, SharedInv
  <2> QED
    BY <2>2, <2>3
<1> QED BY <1>2, <1>3 DEF JobInvOf

\* A refresh on its way stays on its file and meets nobody new.
LEMMA StepKeepsBeside ==
    ASSUME BesideInv, NEW t \in Thread, job \in [Thread -> Job], beside' = beside,
           ~At(t, "idle"),
           \A u \in Thread \ {t} : job'[u] = job[u],
           job'[t].pc = "idle" \/ job'[t].file = job[t].file
    PROVE  BesideInv'
BY DEF BesideInv, At

\* The steps of a refresh before it touches the shared index.
LEMMA ReadStep ==
    ASSUME IInv, NEW t \in Thread,
           \/ \E f \in File : StartRefresh(t, f)
           \/ Skip(t) \/ Reindex(t) \/ ParseImports(t) \/ ParseSymbols(t) \/ Unlink(t)
    PROVE  IndexInv' /\ RowInv' /\ JobsInv' /\ BesideInv' /\ mtimes' = mtimes
<1>1. /\ UNCHANGED <<clock, mtime, text, imports, mtimes, symbols, row>>
      /\ beside \subseteq beside'
  BY DEF StartRefresh, Meet, Skip, Reindex, ParseImports, ParseSymbols, Unlink, disk, index
<1>2. IndexInv' /\ RowInv'
  BY <1>1 DEF IInv, IndexInv, RowInv, Alone, Behind, Sound, CurrentImports
<1>3. job[t] \in Job /\ job \in [Thread -> Job]
  BY DEF IInv, TypeOK
<1>4. ~At(t, "idle") => JobInvOf(t)
  BY DEF IInv, JobsInv
<1>5. \A u \in Thread \ {t} : job'[u] = job[u]
  BY <1>3 DEF StartRefresh, Skip, Reindex, ParseImports, ParseSymbols, Unlink
<1>6. ASSUME JobInvOf(t)' \/ job'[t].pc = "idle" PROVE JobsInv'
  <2> SUFFICES ASSUME NEW u \in Thread, ~At(u, "idle")' PROVE JobInvOf(u)'
    BY DEF JobsInv
  <2>1. CASE u = t
    BY <1>6, <2>1 DEF At
  <2>2. CASE u # t
    BY <1>1, <1>5, <2>2, OtherJobs
  <2> QED
    BY <2>1, <2>2
<1>7. ASSUME ~At(t, "idle"), beside' = beside,
             job'[t].pc = "idle" \/ job'[t].file = job[t].file
      PROVE  BesideInv'
  BY <1>3, <1>5, <1>7, StepKeepsBeside DEF IInv
<1>8. CASE \E f \in File : StartRefresh(t, f)
  <2> PICK f \in File : StartRefresh(t, f)
    BY <1>8
  <2>1. /\ job'[t].pc = "compare" /\ job'[t].file = f /\ job'[t].stat = mtime[f]
    BY <1>3 DEF StartRefresh, Idle
  <2>2. mtime[f] # 0 /\ Behind(f, mtimes[f])
    BY DEF StartRefresh, Exists, IInv, IndexInv
  <2>3. mtimes[f] <= mtime[f]
    BY <2>2 DEF Behind, IInv, TypeOK
  <2>4. LocalInvOf(t)'
    BY <1>1, <2>1, <2>2 DEF LocalInvOf, LocalInv, Behind, IInv, TypeOK
  <2>5. SharedInvOf(t)'
    BY <1>1, <2>1, <2>3 DEF SharedInvOf, SharedInv
  <2>6. \A u \in Thread \ {t} : ~At(u, "idle") => {f, job[u].file} \in beside'
    BY DEF StartRefresh, Meet
  <2>7. BesideInv'
    BY <1>1, <1>5, <2>1, <2>6 DEF IInv, BesideInv, At
  <2> QED
    BY <1>1, <1>2, <1>6, <2>4, <2>5, <2>7 DEF JobInvOf
<1>9. CASE Skip(t)
  <2>1. ~At(t, "idle") /\ job'[t].pc = "idle" /\ beside' = beside
    BY <1>3, <1>9 DEF Skip, Idle, At
  <2> QED
    BY <1>1, <1>2, <1>6, <1>7, <2>1
<1>10. CASE Reindex(t)
  <2>1. /\ job[t].pc = "compare" /\ job'[t].pc = "imports"
        /\ job'[t].file = job[t].file /\ job'[t].stat = job[t].stat
        /\ mtimes[job[t].file] # job[t].stat /\ beside' = beside
    BY <1>3, <1>10 DEF Reindex, Job, At
  <2>2. JobInvOf(t)
    BY <1>4, <2>1 DEF At
  <2>3. mtimes[job[t].file] \in Nat /\ job[t].stat \in Nat
    BY <1>3 DEF IInv, TypeOK, Job
  <2>4. Alone(job[t].file) => mtimes[job[t].file] < job[t].stat
    BY <2>1, <2>2, <2>3 DEF JobInvOf, SharedInvOf, SharedInv
  <2>5. LocalInvOf(t)'
    BY <1>1, <2>1, <2>2 DEF JobInvOf, LocalInvOf, LocalInv, Behind
  <2>6. SharedInvOf(t)'
    BY <1>1, <2>1, <2>4 DEF SharedInvOf, SharedInv, Alone
  <2> QED
    BY <1>1, <1>2, <1>6, <1>7, <2>1, <2>5, <2>6 DEF JobInvOf, At
<1>11. CASE ParseImports(t)
  <2>1. /\ job[t].pc = "imports" /\ job'[t].pc = "symbols"
        /\ job'[t].seen = text[job[t].file]
        /\ job'[t].file = job[t].file /\ job'[t].stat = job[t].stat
        /\ beside' = beside
    BY <1>3, <1>11 DEF ParseImports, Job, At
  <2>2. JobInvOf(t)
    BY <1>4, <2>1 DEF At
  <2>3. JobInvOf(t)'
    BY <1>1, <2>1, <2>2
       DEF JobInvOf, LocalInvOf, LocalInv, SharedInvOf, SharedInv, Alone, Behind
  <2> QED
    BY <1>1, <1>2, <1>6, <1>7, <2>1, <2>3 DEF At
<1>12. CASE ParseSymbols(t)
  <2>1. /\ job[t].pc = "symbols" /\ job'[t].pc = "unlink"
        /\ job'[t].symv = mtime[job[t].file]
        /\ job'[t].seen = job[t].seen
        /\ job'[t].file = job[t].file /\ job'[t].stat = job[t].stat
        /\ beside' = beside
    BY <1>3, <1>12 DEF ParseSymbols, Job, At
  <2>2. JobInvOf(t)
    BY <1>4, <2>1 DEF At
  <2>3. JobInvOf(t)'
    BY <1>1, <2>1, <2>2
       DEF JobInvOf, LocalInvOf, LocalInv, SharedInvOf, SharedInv, Alone, Behind
  <2> QED
    BY <1>1, <1>2, <1>6, <1>7, <2>1, <2>3 DEF At
<1>13. CASE Unlink(t)
  <2>1. /\ job[t].pc = "unlink" /\ job'[t].pc = "store"
        /\ job'[t].found = {g \in job[t].seen : Exists(g)}
        /\ job'[t].seen = job[t].seen /\ job'[t].symv = job[t].symv
        /\ job'[t].file = job[t].file /\ job'[t].stat = job[t].stat
        /\ beside' = beside
    BY <1>3, <1>13 DEF Unlink, Job, At
  <2>2. JobInvOf(t)
    BY <1>4, <2>1 DEF At
  <2>3. Sound(job[t].file, job[t].stat, job'[t].found)
    BY <2>1, <2>2 DEF JobInvOf, LocalInvOf, LocalInv, Sound, CurrentImports, Exists
  <2>4. LocalInvOf(t)'
    BY <1>1, <2>1, <2>2, <2>3
       DEF JobInvOf, LocalInvOf, LocalInv, Behind, Sound, CurrentImports
  <2>5. SharedInvOf(t)'
    BY <1>1, <2>1, <2>2 DEF JobInvOf, SharedInvOf, SharedInv, Alone
  <2> QED
    BY <1>1, <1>2, <1>6, <1>7, <2>1, <2>4, <2>5 DEF JobInvOf, At
<1> QED BY <1>8, <1>9, <1>10, <1>11, <1>12, <1>13

\* A label may be taken back, but only to a version that is no longer on disk.
NoLabelBack == \A f \in File : mtimes'[f] < mtimes[f] => mtimes'[f] # mtime'[f]

\* The steps that write the shared index and the row.
LEMMA WriteStep ==
    ASSUME IInv, NEW t \in Thread,
           Store(t) \/ StoreFails(t) \/ Link(t) \/ Label(t) \/ SaveRow(t)
    PROVE  IndexInv' /\ RowInv' /\ JobsInv' /\ BesideInv' /\ NoLabelBack
<1>1. /\ UNCHANGED <<clock, mtime, text, beside>>
      /\ ~At(t, "idle")
      /\ \A f \in File : Alone(f)' <=> Alone(f)
  BY DEF Store, StoreFails, Link, Label, SaveRow, disk, Alone, At
<1>2. job[t] \in Job /\ job \in [Thread -> Job]
  BY DEF IInv, TypeOK
<1>3. JobInvOf(t) /\ job[t].file \in File /\ job[t].stat \in 0..clock
  BY <1>1 DEF IInv, TypeOK, Job, JobsInv
<1>4. \A u \in Thread \ {t} : job'[u] = job[u]
  BY <1>2 DEF Store, StoreFails, Link, Label, SaveRow
<1>5. \A f \in File : f # job[t].file =>
          imports'[f] = imports[f] /\ mtimes'[f] = mtimes[f]
  BY DEF Store, StoreFails, Link, Label, SaveRow, index, IInv, TypeOK
<1>6. ASSUME JobInvOf(t)' \/ job'[t].pc = "idle" PROVE JobsInv'
  <2> SUFFICES ASSUME NEW u \in Thread, ~At(u, "idle")' PROVE JobInvOf(u)'
    BY DEF JobsInv
  <2>1. CASE u = t
    BY <1>6, <2>1 DEF At
  <2>2. CASE u # t
    BY <1>1, <1>4, <1>5, <2>2, OtherJobs
  <2> QED
    BY <2>1, <2>2
<1>7. ASSUME job'[t].pc = "idle" \/ job'[t].file = job[t].file PROVE BesideInv'
  BY <1>1, <1>2, <1>4, <1>7, StepKeepsBeside DEF IInv
<1>8. /\ IndexInv /\ RowInv
      /\ \A f \in File : mtimes[f] \in Nat /\ mtime[f] \in Nat
  BY DEF IInv, TypeOK
<1>9. ASSUME mtimes' = mtimes PROVE NoLabelBack
  BY <1>8, <1>9 DEF NoLabelBack
<1>10. CASE Store(t)
  <2>1. /\ job[t].pc = "store" /\ job'[t].pc = "link"
        /\ job'[t].found = job[t].found /\ job'[t].symv = job[t].symv
        /\ job'[t].file = job[t].file /\ job'[t].stat = job[t].stat
    BY <1>2, <1>10 DEF Store, Job, At
  <2>2. /\ UNCHANGED <<mtimes, symbols, row>>
        /\ imports' = [imports EXCEPT ![job[t].file] = job[t].found]
    BY <1>10 DEF Store
  <2>3. Alone(job[t].file) /\ mtime[job[t].file] # 0 =>
            mtimes[job[t].file] # mtime[job[t].file]
    BY <1>3, <1>8, <2>1
       DEF JobInvOf, LocalInvOf, LocalInv, SharedInvOf, SharedInv, Behind
  <2>4. \A f \in File : f # job[t].file => imports'[f] = imports[f]
    BY <1>5
  <2>5. IndexInv'
    BY <1>1, <1>8, <2>2, <2>3, <2>4
       DEF IndexInv, Behind, Sound, CurrentImports
  <2>6. imports'[job[t].file] = job[t].found
    BY <1>3, <2>2 DEF IInv, TypeOK
  <2>7. LocalInvOf(t)'
    BY <1>1, <1>3, <2>1
       DEF JobInvOf, LocalInvOf, LocalInv, Behind, Sound, CurrentImports
  <2>8. SharedInvOf(t)'
    BY <1>1, <1>3, <2>1, <2>2, <2>6 DEF JobInvOf, SharedInvOf, SharedInv
  <2>9. RowInv'
    BY <1>1, <1>8, <2>2 DEF RowInv, Behind, Sound, CurrentImports
  <2> QED
    BY <1>6, <1>7, <1>9, <2>1, <2>2, <2>5, <2>7, <2>8, <2>9 DEF JobInvOf
<1>11. CASE StoreFails(t)
  <2>1. UNCHANGED <<imports, mtimes, symbols, row>> /\ job'[t].pc = "idle"
    BY <1>2, <1>11 DEF StoreFails, index, Idle
  <2>2. IndexInv' /\ RowInv'
    BY <1>1, <1>8, <2>1 DEF IndexInv, RowInv, Behind, Sound, CurrentImports
  <2> QED
    BY <1>6, <1>7, <1>9, <2>1, <2>2
<1>12. CASE Link(t)
  <2>1. /\ job[t].pc = "link" /\ job'[t].pc = "label"
        /\ job'[t].found = job[t].found /\ job'[t].symv = job[t].symv
        /\ job'[t].file = job[t].file /\ job'[t].stat = job[t].stat
    BY <1>2, <1>12 DEF Link, Job, At
  <2>2. UNCHANGED <<imports, mtimes, symbols, row>>
    BY <1>12 DEF Link
  <2>3. LocalInvOf(t)'
    BY <1>1, <1>3, <2>1
       DEF JobInvOf, LocalInvOf, LocalInv, Behind, Sound, CurrentImports
  <2>4. SharedInvOf(t)'
    BY <1>1, <1>3, <2>1, <2>2 DEF JobInvOf, SharedInvOf, SharedInv
  <2>5. IndexInv' /\ RowInv'
    BY <1>1, <1>8, <2>2 DEF IndexInv, RowInv, Behind, Sound, CurrentImports
  <2> QED
    BY <1>6, <1>7, <1>9, <2>1, <2>2, <2>3, <2>4, <2>5 DEF JobInvOf
<1>13. CASE Label(t)
  <2>1. /\ job[t].pc = "label" /\ job'[t].pc = "save"
        /\ job'[t].file = job[t].file /\ job'[t].stat = job[t].stat
    BY <1>2, <1>13 DEF Label, Job, At
  <2>2. /\ UNCHANGED <<imports, row>>
        /\ symbols' = [symbols EXCEPT ![job[t].file] = job[t].symv]
        /\ mtimes' = [mtimes EXCEPT ![job[t].file] = job[t].stat]
    BY <1>13 DEF Label
  <2>3. /\ Behind(job[t].file, job[t].stat)
        /\ Alone(job[t].file) => Sound(job[t].file, job[t].stat, imports[job[t].file])
        /\ mtime[job[t].file] = job[t].stat => job[t].symv = job[t].stat
        /\ job[t].stat # 0
    BY <1>3, <2>1 DEF JobInvOf, LocalInvOf, LocalInv, SharedInvOf, SharedInv
  <2>4. /\ mtimes'[job[t].file] = job[t].stat
        /\ symbols'[job[t].file] = job[t].symv
        /\ \A f \in File : f # job[t].file =>
               mtimes'[f] = mtimes[f] /\ symbols'[f] = symbols[f]
    BY <1>3, <2>2 DEF IInv, TypeOK
  <2>5. IndexInv'
    BY <1>1, <1>3, <1>8, <2>2, <2>3, <2>4
       DEF IndexInv, Behind, Sound, CurrentImports
  <2>6. LocalInvOf(t)'
    BY <1>1, <2>1, <2>3 DEF LocalInvOf, LocalInv, Behind
  <2>7. SharedInvOf(t)'
    BY <1>3, <2>1, <2>4 DEF SharedInvOf, SharedInv
  <2>8. NoLabelBack
    <3> SUFFICES ASSUME NEW f \in File, mtimes'[f] < mtimes[f] PROVE mtimes'[f] # mtime'[f]
      BY DEF NoLabelBack
    <3>1. f = job[t].file /\ mtimes'[f] = job[t].stat
      BY <1>8, <2>4
    <3>2. Behind(f, mtimes[f])
      BY <1>8 DEF IndexInv
    <3>3. job[t].stat \in Nat
      BY <1>3 DEF IInv, TypeOK
    <3> QED
      BY <1>1, <1>8, <2>3, <3>1, <3>2, <3>3 DEF Behind
  <2>9. RowInv'
    BY <1>1, <1>8, <2>2 DEF RowInv, Behind, Sound, CurrentImports
  <2> QED
    BY <1>6, <1>7, <2>1, <2>5, <2>6, <2>7, <2>8, <2>9 DEF JobInvOf
<1>14. CASE SaveRow(t)
  <2>1. /\ UNCHANGED <<imports, mtimes, symbols>> /\ job'[t].pc = "idle"
        /\ job[t].pc = "save"
    BY <1>2, <1>14 DEF SaveRow, index, Idle, At
  <2>2. IndexInv'
    BY <1>1, <1>8, <2>1 DEF IndexInv, Behind, Sound, CurrentImports
  <2>3. \A f \in File : f # job[t].file => row'[f] = row[f]
    BY <1>14 DEF SaveRow, IInv, TypeOK
  <2>4. row'[job[t].file].mtime = job[t].stat /\ row'[job[t].file].imports = imports[job[t].file]
    BY <1>3, <1>14 DEF SaveRow, IInv, TypeOK
  <2>5. /\ Behind(job[t].file, job[t].stat)
        /\ Alone(job[t].file) => mtimes[job[t].file] = job[t].stat
    BY <1>3, <2>1 DEF JobInvOf, LocalInvOf, LocalInv, SharedInvOf, SharedInv
  <2>6. Alone(job[t].file) => Sound(job[t].file, job[t].stat, imports[job[t].file])
    BY <1>3, <1>8, <2>5 DEF IndexInv
  <2>7. RowInv'
    BY <1>1, <1>8, <2>3, <2>4, <2>5, <2>6
       DEF RowInv, Behind, Sound, CurrentImports
  <2> QED
    BY <1>6, <1>7, <1>9, <2>1, <2>2, <2>7
<1> QED BY <1>10, <1>11, <1>12, <1>13, <1>14

\* Every step keeps the invariant, and but for a restart takes no label back to
\* the version on disk.
LEMMA InductiveStep ==
    ASSUME IInv, TypeOK', [Next]_vars
    PROVE  /\ IInv'
           /\ restarts' = restarts => NoLabelBack
<1>1. \A f \in File : mtimes[f] \in Nat
  BY DEF IInv, TypeOK
<1>2. ASSUME mtimes' = mtimes PROVE NoLabelBack
  BY <1>1, <1>2 DEF NoLabelBack
<1>3. ASSUME NEW f \in File, NEW S \in Text, SaveFile(f, S)
      PROVE  IndexInv' /\ RowInv' /\ JobsInv' /\ BesideInv' /\ NoLabelBack
  BY <1>2, <1>3, DiskStep, ConstantsAssumption DEF SaveFile, index
<1>4. ASSUME NEW f \in File, DeleteFile(f)
      PROVE  IndexInv' /\ RowInv' /\ JobsInv' /\ BesideInv' /\ NoLabelBack
  BY <1>2, <1>4, DiskStep, {} \in SUBSET File DEF DeleteFile, index
<1>5. ASSUME NEW t \in Thread, Step(t)
      PROVE  IndexInv' /\ RowInv' /\ JobsInv' /\ BesideInv' /\ NoLabelBack
  <2>1. CASE \/ \E f \in File : StartRefresh(t, f)
             \/ Skip(t) \/ Reindex(t) \/ ParseImports(t) \/ ParseSymbols(t) \/ Unlink(t)
    BY <1>2, <2>1, ReadStep
  <2>2. CASE Store(t) \/ StoreFails(t) \/ Link(t) \/ Label(t) \/ SaveRow(t)
    BY <2>2, WriteStep
  <2> QED
    BY <1>5, <2>1, <2>2 DEF Step
<1>6. CASE Restart
  <2>1. /\ UNCHANGED <<clock, mtime, text, row, beside>>
        /\ restarts' # restarts
        /\ \A f \in File : /\ imports'[f] = row[f].imports
                           /\ mtimes'[f] = row[f].mtime
                           /\ symbols'[f] = 0
        /\ \A t \in Thread : job'[t].pc = "idle"
    BY <1>6 DEF Restart, disk, Idle, IInv, TypeOK
  <2>2. IndexInv' /\ RowInv'
    BY <2>1 DEF IInv, IndexInv, RowInv, Alone, Behind, Sound, CurrentImports
  <2>3. JobsInv' /\ BesideInv'
    BY <2>1 DEF JobsInv, BesideInv, At
  <2> QED
    BY <2>1, <2>2, <2>3 DEF IInv
<1>7. CASE UNCHANGED vars
  <2>1. UNCHANGED <<clock, mtime, text, imports, mtimes, symbols, row, job, beside>>
    BY <1>7 DEF vars, disk, index
  <2>2. IndexInv' /\ RowInv'
    BY <2>1 DEF IInv, IndexInv, RowInv, Alone, Behind, Sound, CurrentImports
  <2>3. JobsInv' /\ BesideInv'
    BY <2>1 DEF IInv, JobsInv, BesideInv, JobInvOf, LocalInvOf, LocalInv, SharedInvOf,
                SharedInv, Alone, At, Behind, Sound, CurrentImports
  <2> QED
    BY <1>2, <2>1, <2>2, <2>3 DEF IInv
<1> QED
  BY <1>3, <1>4, <1>5, <1>6, <1>7 DEF Next, IInv

-----------------------------------------------------------------------------
(* The invariant *)

LEMMA IndexInvariant == Spec => []IInv
<1>1. Init => IInv
  <2> SUFFICES ASSUME Init PROVE IInv
    OBVIOUS
  <2>1. TypeOK
    BY IdleType, ConstantsAssumption DEF Init, TypeOK, NoRow, Row
  <2>2. IndexInv /\ RowInv
    BY DEF Init, IndexInv, RowInv, Behind, Sound, NoRow
  <2>3. JobsInv /\ BesideInv
    BY DEF Init, JobsInv, BesideInv, At, Idle
  <2> QED BY <2>1, <2>2, <2>3 DEF IInv
<1>2. IInv /\ TypeOK' /\ [Next]_vars => IInv'
  BY InductiveStep
<1> QED BY <1>1, <1>2, TypeCorrect, PTL DEF Spec

-----------------------------------------------------------------------------
(* The two directions of the graph.  A back edge always has its edge.  The  *)
(* other way it holds but for a file that was unlinked and not linked       *)
(* again, be it that the refresh is still on its way or that it failed; and *)
(* the label of such a file is of an older version.                         *)

Unlabelled(f) == mtime[f] = 0 \/ mtimes[f] < mtime[f]

EdgesFollow == \A f, g \in File : f \in importedBy[g] => g \in imports[f]

EdgesReturn(f) == \A g \in imports[f] : f \in importedBy[g]

EdgesInv ==
    /\ EdgesFollow
    /\ \A f \in File : Unlabelled(f) \/ EdgesReturn(f)
    /\ \A t \in Thread :
           /\ At(t, "store") => \A g \in File : job[t].file \notin importedBy[g]
           /\ At(t, "label") => EdgesReturn(job[t].file)

\* What one run of the process does to the edges while no refresh met another.
LEMMA EdgesStep ==
    ASSUME IInv, EdgesInv, [Next]_vars, restarts' = restarts, beside = {}, beside' = {}
    PROVE  EdgesInv'
<1>1. /\ clock \in Nat /\ job \in [Thread -> Job]
      /\ mtime \in [File -> 0..clock] /\ mtimes \in [File -> 0..clock]
      /\ imports \in [File -> SUBSET File] /\ importedBy \in [File -> SUBSET File]
      /\ restarts \in Nat
  BY ConstantsAssumption DEF IInv, TypeOK
<1>2. ASSUME NEW f \in File, (\E S \in Text : SaveFile(f, S)) \/ DeleteFile(f)
      PROVE  EdgesInv'
  <2>1. UNCHANGED <<imports, importedBy, mtimes, job>>
    BY <1>2 DEF SaveFile, DeleteFile, index
  <2>2. mtime' = [mtime EXCEPT ![f] = clock + 1] \/ mtime' = [mtime EXCEPT ![f] = 0]
    BY <1>2 DEF SaveFile, DeleteFile
  <2>3. \A h \in File : Unlabelled(h) => Unlabelled(h)'
    BY <1>1, <2>1, <2>2 DEF Unlabelled
  <2>4. QED
    BY <2>1, <2>3 DEF EdgesInv, EdgesFollow, EdgesReturn, At
<1>3. ASSUME NEW t \in Thread, Step(t)
      PROVE  EdgesInv'
  <2> DEFINE f == job[t].file
  <2>1. f \in File /\ job[t].found \in SUBSET File
    BY <1>1 DEF Job
  <2>2. \A u \in Thread : u # t => At(u, "idle")
    <3>1. CASE \E g \in File : StartRefresh(t, g)
      <4> SUFFICES ASSUME NEW u \in Thread, u # t, ~At(u, "idle") PROVE FALSE
        OBVIOUS
      <4>1. PICK g \in File : StartRefresh(t, g)
        BY <3>1
      <4>2. {g, job[u].file} \in beside'
        BY <4>1 DEF StartRefresh, Meet
      <4> QED
        BY <4>2
    <3>2. CASE ~At(t, "idle")
      <4> SUFFICES ASSUME NEW u \in Thread, u # t, ~At(u, "idle") PROVE FALSE
        OBVIOUS
      <4>1. {job[t].file, job[u].file} \in beside
        BY <3>2 DEF IInv, BesideInv
      <4> QED
        BY <4>1
    <3>3. (\E g \in File : StartRefresh(t, g)) \/ ~At(t, "idle")
      BY <1>3 DEF Step, Skip, Reindex, ParseImports, ParseSymbols, Unlink, Store,
                  StoreFails, Link, Label, SaveRow, At
    <3> QED
      BY <3>1, <3>2, <3>3
  <2>3. \A u \in Thread : u # t => job'[u].pc = "idle"
    <3>1. \A u \in Thread : u # t => job'[u] = job[u]
      BY <1>1, <1>3 DEF Step, StartRefresh, Skip, Reindex, ParseImports, ParseSymbols, Unlink, Store,
                        StoreFails, Link, Label, SaveRow
    <3> QED
      BY <2>2, <3>1 DEF At
  <2>4. ~At(t, "idle") => JobInvOf(t) /\ Alone(f)
    BY DEF IInv, JobsInv, Alone
  <2>5. CASE \/ \E g \in File : StartRefresh(t, g)
             \/ Skip(t) \/ Reindex(t)
             \/ ParseImports(t) \/ ParseSymbols(t) \/ StoreFails(t) \/ SaveRow(t)
    <3>1. UNCHANGED <<mtime, imports, importedBy, mtimes>>
      BY <2>5 DEF StartRefresh, Skip, Reindex, ParseImports, ParseSymbols, StoreFails, SaveRow,
                  disk, index
    <3>2. job'[t].pc \notin {"store", "label"}
      <4>1. CASE \E g \in File : StartRefresh(t, g)
        BY <1>1, <4>1 DEF StartRefresh, Idle
      <4>2. CASE Reindex(t) \/ ParseImports(t) \/ ParseSymbols(t)
        BY <1>1, <4>2 DEF Reindex, ParseImports, ParseSymbols, Job
      <4>3. CASE Skip(t) \/ StoreFails(t) \/ SaveRow(t)
        BY <1>1, <4>3 DEF Skip, StoreFails, SaveRow, Idle
      <4>4. QED
        BY <2>5, <4>1, <4>2, <4>3
    <3>3. QED
      BY <2>3, <3>1, <3>2 DEF EdgesInv, EdgesFollow, EdgesReturn, Unlabelled, At
  <2>6. CASE Unlink(t)
    <3>1. /\ UNCHANGED <<mtime, imports, mtimes>>
          /\ importedBy' = Unlinked(f, imports[f])
          /\ At(t, "unlink")
      BY <2>6 DEF Unlink, disk
    <3>2. job'[t].pc = "store" /\ job'[t].file = f
      BY <1>1, <2>6 DEF Unlink, Job
    <3>3. \A g \in File : f \notin importedBy'[g]
      BY <2>1, <3>1 DEF Unlinked, EdgesInv, EdgesFollow
    <3>4. \A g, h \in File : h # f => (h \in importedBy'[g] <=> h \in importedBy[g])
      BY <2>1, <3>1 DEF Unlinked
    <3>5. JobInvOf(t) /\ Alone(f)
      BY <2>4, <3>1 DEF At
    <3>6. Unlabelled(f)
      BY <1>1, <2>1, <3>1, <3>5
         DEF JobInvOf, LocalInvOf, LocalInv, SharedInvOf, SharedInv, Behind, Unlabelled, At, Job
    <3>7. EdgesFollow'
      BY <3>1, <3>3, <3>4 DEF EdgesFollow, EdgesInv
    <3>8. \A h \in File : Unlabelled(h)' \/ EdgesReturn(h)'
      <4> SUFFICES ASSUME NEW h \in File PROVE Unlabelled(h)' \/ EdgesReturn(h)'
        OBVIOUS
      <4>1. CASE h = f
        BY <3>1, <3>6, <4>1 DEF Unlabelled
      <4>2. CASE h # f
        BY <1>1, <3>1, <3>4, <4>2 DEF Unlabelled, EdgesReturn, EdgesInv
      <4>3. QED
        BY <4>1, <4>2
    <3>9. QED
      BY <2>3, <3>2, <3>3, <3>7, <3>8 DEF EdgesInv, At
  <2>7. CASE Store(t)
    <3>1. /\ UNCHANGED <<mtime, importedBy, mtimes>>
          /\ imports' = [imports EXCEPT ![f] = job[t].found]
          /\ At(t, "store")
      BY <2>7 DEF Store, disk
    <3>2. job'[t].pc = "link" /\ job'[t].file = f
      BY <1>1, <2>7 DEF Store, Job
    <3>3. JobInvOf(t) /\ Alone(f)
      BY <2>4, <3>1 DEF At
    <3>4. Unlabelled(f)
      BY <1>1, <2>1, <3>1, <3>3
         DEF JobInvOf, LocalInvOf, LocalInv, SharedInvOf, SharedInv, Behind, Unlabelled, At, Job
    <3>5. \A h \in File : h # f => imports'[h] = imports[h]
      BY <1>1, <3>1
    <3>6. \A g \in File : f \notin importedBy[g]
      BY <3>1 DEF EdgesInv
    <3>7. EdgesFollow'
      BY <3>1, <3>5, <3>6 DEF EdgesFollow, EdgesInv
    <3>8. \A h \in File : Unlabelled(h)' \/ EdgesReturn(h)'
      <4> SUFFICES ASSUME NEW h \in File PROVE Unlabelled(h)' \/ EdgesReturn(h)'
        OBVIOUS
      <4>1. CASE h = f
        BY <3>1, <3>4, <4>1 DEF Unlabelled
      <4>2. CASE h # f
        BY <1>1, <3>1, <3>5, <4>2 DEF Unlabelled, EdgesReturn, EdgesInv
      <4>3. QED
        BY <4>1, <4>2
    <3>9. QED
      BY <2>3, <3>2, <3>7, <3>8 DEF EdgesInv, At
  <2>8. CASE Link(t)
    <3>1. /\ UNCHANGED <<mtime, imports, mtimes>>
          /\ importedBy' = Linked(f, job[t].found)
          /\ At(t, "link")
      BY <2>8 DEF Link, disk
    <3>2. job'[t].pc = "label" /\ job'[t].file = f
      BY <1>1, <2>8 DEF Link, Job
    <3>3. JobInvOf(t) /\ Alone(f)
      BY <2>4, <3>1 DEF At
    <3>4. imports[f] = job[t].found
      BY <3>1, <3>3 DEF JobInvOf, SharedInvOf, SharedInv, At
    <3>5. \A g \in File : f \in importedBy'[g] <=> g \in imports[f]
      BY <2>1, <3>1, <3>4 DEF Linked, EdgesInv, EdgesFollow
    <3>6. \A g, h \in File : h # f => (h \in importedBy'[g] <=> h \in importedBy[g])
      BY <2>1, <3>1 DEF Linked
    <3>7. EdgesFollow'
      BY <3>1, <3>5, <3>6 DEF EdgesFollow, EdgesInv
    <3>8. \A h \in File : Unlabelled(h)' \/ EdgesReturn(h)'
      <4> SUFFICES ASSUME NEW h \in File PROVE Unlabelled(h)' \/ EdgesReturn(h)'
        OBVIOUS
      <4>1. CASE h = f
        BY <1>1, <3>1, <3>5, <4>1 DEF EdgesReturn
      <4>2. CASE h # f
        BY <1>1, <3>1, <3>6, <4>2 DEF Unlabelled, EdgesReturn, EdgesInv
      <4>3. QED
        BY <4>1, <4>2
    <3>9. QED
      BY <1>1, <2>1, <2>3, <3>1, <3>2, <3>5, <3>7, <3>8 DEF EdgesInv, EdgesReturn, At
  <2>9. CASE Label(t)
    <3>1. /\ UNCHANGED <<mtime, imports, importedBy>>
          /\ mtimes' = [mtimes EXCEPT ![f] = job[t].stat]
          /\ At(t, "label")
      BY <2>9 DEF Label, disk
    <3>2. job'[t].pc = "save"
      BY <1>1, <2>9 DEF Label, Job
    <3>3. EdgesReturn(f)
      BY <3>1 DEF EdgesInv
    <3>4. \A h \in File : h # f => mtimes'[h] = mtimes[h]
      BY <1>1, <3>1
    <3>5. \A h \in File : Unlabelled(h)' \/ EdgesReturn(h)'
      BY <3>1, <3>3, <3>4 DEF Unlabelled, EdgesReturn, EdgesInv
    <3>6. QED
      BY <2>3, <3>1, <3>2, <3>5 DEF EdgesInv, EdgesFollow, At
  <2>10. QED
    BY <1>3, <2>5, <2>6, <2>7, <2>8, <2>9 DEF Step
<1>4. ~Restart
  BY <1>1 DEF Restart
<1>5. CASE UNCHANGED vars
  BY <1>5 DEF vars, disk, index, EdgesInv, EdgesFollow, EdgesReturn, Unlabelled, At
<1>6. QED
  BY <1>2, <1>3, <1>4, <1>5 DEF Next

\* beside only grows, and restarts too.
LEMMA OnlyGrow ==
    ASSUME IInv, [Next]_vars
    PROVE  /\ beside \subseteq beside'
           /\ restarts' = restarts \/ restarts' = restarts + 1
<1>1. ASSUME NEW t \in Thread, NEW f \in File, StartRefresh(t, f)
      PROVE  beside \subseteq beside' /\ restarts' = restarts
  BY <1>1 DEF StartRefresh, Meet
<1>2. ASSUME NEW t \in Thread, Step(t), ~ \E f \in File : StartRefresh(t, f)
      PROVE  UNCHANGED <<beside, restarts>>
  BY <1>2 DEF Step, Skip, Reindex, ParseImports, ParseSymbols, Unlink, Store, StoreFails, Link,
              Label, SaveRow
<1>3. (\E f \in File : DeleteFile(f) \/ \E S \in Text : SaveFile(f, S)) => UNCHANGED <<beside, restarts>>
  BY DEF DeleteFile, SaveFile
<1>4. Restart => beside' = beside /\ restarts' = restarts + 1
  BY DEF Restart
<1> QED
  BY <1>1, <1>2, <1>3, <1>4 DEF Next, vars

LEMMA EdgesInvariant == Spec => [](restarts = 0 /\ beside = {} => EdgesInv)
<1>1. Init => EdgesInv
  <2> SUFFICES ASSUME Init PROVE EdgesInv
    OBVIOUS
  <2>1. Idle.pc = "idle"
    BY DEF Idle
  <2>2. \A t \in Thread : job[t].pc = "idle"
    BY <2>1 DEF Init
  <2>3. \A f \in File : imports[f] = {} /\ importedBy[f] = {}
    BY DEF Init
  <2>4. QED
    BY <2>2, <2>3 DEF EdgesInv, EdgesFollow, EdgesReturn, At
<1>2. IInv /\ (restarts = 0 /\ beside = {} => EdgesInv) /\ [Next]_vars =>
          (restarts = 0 /\ beside = {} => EdgesInv)'
  <2> SUFFICES ASSUME IInv, restarts = 0 /\ beside = {} => EdgesInv, [Next]_vars,
                      restarts' = 0, beside' = {}
               PROVE  EdgesInv'
    OBVIOUS
  <2>1. restarts \in Nat
    BY ConstantsAssumption DEF IInv, TypeOK
  <2>2. beside \subseteq beside' /\ (restarts' = restarts \/ restarts' = restarts + 1)
    BY OnlyGrow
  <2>3. restarts' = restarts /\ restarts = 0 /\ beside = {}
    BY <2>1, <2>2
  <2>4. QED
    BY <2>3, EdgesStep
<1>3. QED
  BY <1>1, <1>2, IndexInvariant, PTL DEF Spec

-----------------------------------------------------------------------------
(* The theorems *)

\* A file that no two threads refreshed at once and whose label equals its
\* mtime, which refresh_file will skip, has the edges and symbols of its present
\* text: whatever other files were refreshed beside it, whatever was saved or
\* deleted during a refresh, wherever a crash cut it, and after every reload of
\* the rows.
THEOREM LabelSafety == Spec => []CurrentLabelMeansCurrentIndex
<1>1. IInv => CurrentLabelMeansCurrentIndex
  BY DEF IInv, IndexInv, Alone, Sound, CurrentLabelMeansCurrentIndex, LabelsCurrent, Exists
<1> QED BY <1>1, IndexInvariant, PTL

\* However refreshes of a file overlap, the slower one never takes the label
\* back to the version on disk.
THEOREM LateLabels == Spec => LateLabelIsStale
<1>1. IInv /\ TypeOK' /\ [Next]_vars =>
          [restarts' = restarts =>
               \A f \in File : mtimes'[f] < mtimes[f] => mtimes'[f] # mtime'[f]]_vars
  BY InductiveStep DEF NoLabelBack
<1> QED BY <1>1, IndexInvariant, TypeCorrect, PTL DEF Spec, LateLabelIsStale

\* refresh_file leaves both directions of the graph in agreement on every file
\* whose label is current, from the index's start until its first reload or the
\* first refresh that meets another: whatever was saved or deleted during a
\* refresh, and although a refresh may fail between taking old back edges out and
\* putting new ones in.
THEOREM EdgesExact == Spec => []ReverseEdgesExact
<1>1. IInv /\ (restarts = 0 /\ beside = {} => EdgesInv) => ReverseEdgesExact
  <2> SUFFICES ASSUME IInv, EdgesInv PROVE EdgesAgree
    BY DEF ReverseEdgesExact
  <2>1. /\ clock \in Nat /\ mtime \in [File -> 0..clock] /\ mtimes \in [File -> 0..clock]
        /\ imports \in [File -> SUBSET File]
    BY DEF IInv, TypeOK
  <2>2. ASSUME NEW f \in File, Exists(f), mtimes[f] = mtime[f]
        PROVE  EdgesReturn(f)
    BY <2>1, <2>2 DEF Exists, Unlabelled, EdgesInv
  <2>3. QED
    BY <2>1, <2>2 DEF EdgesAgree, EdgesReturn, EdgesInv, EdgesFollow
<1>2. QED
  BY <1>1, IndexInvariant, EdgesInvariant, PTL
=============================================================================
