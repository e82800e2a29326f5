------------------------ MODULE RelevanceStoreProofs ------------------------
(***************************************************************************)
(* Proofs about RelevanceStore, for any paths, files and threads and any   *)
(* number of calls and restarts.                                           *)
(*                                                                         *)
(* A multiplier is in range because its hits do not pass its total.  For   *)
(* that to stay so it must hold of every count there is: in the rows, in   *)
(* the dict objects (the replaced ones too), in the rows a call has read   *)
(* but not yet assigned, and in the arguments it has yet to save.  And a   *)
(* call that takes arguments must hold a dict that exists.                 *)
(***************************************************************************)
EXTENDS RelevanceStore, TLAPS

SoundCount == {c \in Count : c.hits <= c.total}

\* Every count, wherever it is, is sound.
AllSound ==
    /\ row \in [Path -> [File -> SoundCount]]
    /\ objects \in Seq([File -> SoundCount])
    /\ \A t \in Thread : /\ job[t].rows \in [File -> SoundCount]
                         /\ job[t].args \in SoundCount

\* A call that is about to bind finds a table, and one that counts or saves holds it.
TablesLoaded ==
    \A t \in Thread :
        /\ At(t, "bind") => table[job[t].path] # 0
        /\ job[t].pc \in {"count", "args", "save"} => job[t].ref # 0

IInv == TypeOK /\ AllSound /\ TablesLoaded

-----------------------------------------------------------------------------

LEMMA NoneSound == None \in SoundCount /\ NoCounts \in [File -> SoundCount]
BY DEF None, NoCounts, SoundCount, Count

\* Hits within the total give a multiplier between 0.5 and 2.0.
LEMMA SoundInRange ==
    ASSUME NEW c \in SoundCount
    PROVE  Sound(c)
<1>1. CASE c.total < MIN_OBSERVATIONS
  BY <1>1 DEF InRange, Multiplier, Sound, SoundCount, Count
<1>2. CASE ~(c.total < MIN_OBSERVATIONS)
  <2>1. /\ Multiplier(c).num = 5 * c.total + 15 * c.hits
        /\ Multiplier(c).den = 10 * c.total
    BY <1>2 DEF Multiplier
  <2>2. c.hits \in Nat /\ c.total \in Nat /\ c.hits <= c.total
    BY DEF SoundCount, Count
  <2>3. QED
    BY <2>1, <2>2 DEF InRange, Sound
<1>3. QED
  BY <1>1, <1>2

JobType ==
    [pc : {"idle", "load", "assign", "bind", "count", "args", "save"},
     path : Path, todo : SUBSET File, cited : SUBSET File, cur : File,
     ref : 0..Len(objects), rows : [File -> Count], args : Count]

LEMMA IdleFits ==
    ASSUME objects \in Seq([File -> Count])
    PROVE  /\ Idle \in JobType
           /\ Idle.pc = "idle" /\ Idle.ref = 0
           /\ Idle.rows = NoCounts /\ Idle.args = None
<1>1. Path # {} /\ File # {}
  BY ConstantsAssumption
<1>2. (CHOOSE p \in Path : TRUE) \in Path /\ (CHOOSE f \in File : TRUE) \in File
  BY <1>1
<1>3. NoCounts \in [File -> Count] /\ None \in Count
  BY DEF NoCounts, None, Count
<1>4. Len(objects) \in Nat
  OBVIOUS
<1>5. QED
  BY <1>2, <1>3, <1>4 DEF Idle, JobType

-----------------------------------------------------------------------------

LEMMA InitInv == Init => IInv
<1> SUFFICES ASSUME Init PROVE IInv
  OBVIOUS
<1>1. objects = <<>> /\ objects \in Seq([File -> Count]) /\ Len(objects) = 0
  BY DEF Init
<1>2. Idle \in JobType /\ Idle.pc = "idle" /\ Idle.ref = 0
      /\ Idle.rows = NoCounts /\ Idle.args = None
  BY <1>1, IdleFits
<1>3. \A t \in Thread : job[t] = Idle
  BY DEF Init
<1>4. NoCounts \in [File -> Count]
  BY DEF NoCounts, None, Count
<1>5. TypeOK
  BY <1>1, <1>2, <1>4 DEF Init, TypeOK, JobType
<1>6. AllSound
  BY <1>1, <1>2, <1>3, NoneSound DEF Init, AllSound
<1>7. TablesLoaded
  BY <1>2, <1>3 DEF TablesLoaded, At
<1>8. QED
  BY <1>5, <1>6, <1>7 DEF IInv

-----------------------------------------------------------------------------

\* A call whose record changes to a good one, everything shared staying as it
\* is but the counters.
LEMMA JobStep ==
    ASSUME IInv, overlapped' \in SUBSET Path, NEW t \in Thread, NEW j \in JobType,
           job' = [job EXCEPT ![t] = j],
           row' \in [Path -> [File -> SoundCount]],
           UNCHANGED <<table, objects>>,
           feedbacks' \in Nat, rankings' \in Nat, restarts' \in Nat,
           j.rows \in [File -> SoundCount], j.args \in SoundCount,
           j.pc = "bind" => table[j.path] # 0,
           j.pc \in {"count", "args", "save"} => j.ref # 0
    PROVE  IInv'
<1>1. job \in [Thread -> JobType] /\ [File -> SoundCount] \subseteq [File -> Count]
  BY DEF IInv, TypeOK, JobType, SoundCount
<1>2. job' \in [Thread -> JobType] /\ job'[t] = j
      /\ \A u \in Thread \ {t} : job'[u] = job[u]
  BY <1>1
<1>3. TypeOK'
  <2>1. row' \in [Path -> [File -> Count]]
    BY <1>1
  <2>2. QED
    BY <1>2, <2>1 DEF IInv, TypeOK, JobType
<1>4. AllSound'
  BY <1>2 DEF IInv, AllSound
<1>5. TablesLoaded'
  BY <1>2 DEF IInv, TablesLoaded, At
<1>6. QED
  BY <1>3, <1>4, <1>5 DEF IInv

\* A new call.
LEMMA BeginStep ==
    ASSUME IInv, overlapped' \in SUBSET Path, NEW t \in Thread,
           \/ \E p \in Path, F \in (SUBSET File) \ {{}}, C \in SUBSET File :
                  BeginRecord(t, p, F, C)
           \/ \E p \in Path : BeginRanking(t, p)
    PROVE  IInv'
<1>1. /\ Idle \in JobType /\ Idle.rows = NoCounts /\ Idle.args = None
      /\ Idle.ref = 0
  BY IdleFits DEF IInv, TypeOK
<1>2. feedbacks \in Nat /\ rankings \in Nat /\ restarts \in Nat
      /\ row \in [Path -> [File -> SoundCount]]
  BY DEF IInv, TypeOK, AllSound
<1>3. ASSUME NEW p \in Path, NEW F \in SUBSET File, NEW C \in SUBSET File,
             BeginRecord(t, p, F, C)
      PROVE  IInv'
  <2> DEFINE j == [Idle EXCEPT !.pc = Entry(p), !.path = p, !.todo = F, !.cited = C]
  <2>1. j \in JobType /\ j.rows = NoCounts /\ j.args = None /\ j.path = p
        /\ j.pc = Entry(p) /\ j.pc \in {"load", "bind"}
    BY <1>1 DEF JobType, Entry
  <2>2. j.pc = "bind" => table[j.path] # 0
    BY <2>1 DEF Entry
  <2>3. job' = [job EXCEPT ![t] = j] /\ feedbacks' = feedbacks + 1
        /\ UNCHANGED <<row, table, objects, rankings, restarts>>
    BY <1>3 DEF BeginRecord
  <2>4. feedbacks' \in Nat /\ rankings' \in Nat /\ restarts' \in Nat
        /\ row' \in [Path -> [File -> SoundCount]] /\ UNCHANGED <<table, objects>>
    BY <1>2, <2>3
  <2>5. j.pc \in {"count", "args", "save"} => j.ref # 0
    BY <2>1
  <2>6. j.rows \in [File -> SoundCount] /\ j.args \in SoundCount
    BY <2>1, NoneSound
  <2> HIDE DEF j
  <2>7. QED
    BY <2>1, <2>2, <2>3, <2>4, <2>5, <2>6, JobStep
<1>4. ASSUME NEW p \in Path, BeginRanking(t, p)
      PROVE  IInv'
  <2> DEFINE j == [Idle EXCEPT !.pc = "load", !.path = Mount[p]]
  <2>1. j \in JobType /\ j.rows = NoCounts /\ j.args = None /\ j.pc = "load"
    BY <1>1, ConstantsAssumption DEF JobType
  <2>2. job' = [job EXCEPT ![t] = j] /\ rankings' = rankings + 1
        /\ UNCHANGED <<row, table, objects, feedbacks, restarts>>
    BY <1>4 DEF BeginRanking
  <2>3. feedbacks' \in Nat /\ rankings' \in Nat /\ restarts' \in Nat
        /\ row' \in [Path -> [File -> SoundCount]] /\ UNCHANGED <<table, objects>>
    BY <1>2, <2>2
  <2>4. /\ j.rows \in [File -> SoundCount] /\ j.args \in SoundCount
        /\ j.pc = "bind" => table[j.path] # 0
        /\ j.pc \in {"count", "args", "save"} => j.ref # 0
    BY <2>1, NoneSound
  <2> HIDE DEF j
  <2>5. QED
    BY <2>1, <2>2, <2>3, <2>4, JobStep
<1>5. QED
  BY <1>3, <1>4

\* The steps that change neither the dicts nor the table of them.
LEMMA QuietStep ==
    ASSUME IInv, overlapped' \in SUBSET Path, NEW t \in Thread,
           LoadRows(t) \/ BindTable(t) \/ TakeArgs(t) \/ SaveRow(t)
    PROVE  IInv'
<1>1. /\ job[t] \in JobType
      /\ job[t].rows \in [File -> SoundCount] /\ job[t].args \in SoundCount
      /\ job \in [Thread -> JobType]
  BY DEF IInv, TypeOK, AllSound, JobType
<1>2. /\ feedbacks \in Nat /\ rankings \in Nat /\ restarts \in Nat
      /\ row \in [Path -> [File -> SoundCount]]
      /\ table \in [Path -> 0..Len(objects)]
      /\ objects \in Seq([File -> SoundCount])
  BY DEF IInv, TypeOK, AllSound
<1>3. Idle \in JobType /\ Idle.pc = "idle"
      /\ Idle.rows \in [File -> SoundCount] /\ Idle.args \in SoundCount
  BY IdleFits, NoneSound DEF IInv, TypeOK
<1>4. CASE LoadRows(t)
  <2> DEFINE j == [job[t] EXCEPT !.pc = "assign", !.rows = row[job[t].path]]
  <2>1. row[job[t].path] \in [File -> SoundCount]
    BY <1>1, <1>2 DEF JobType
  <2>2. j \in JobType /\ j.rows = row[job[t].path] /\ j.args = job[t].args
        /\ j.pc = "assign"
    BY <1>1, <2>1 DEF JobType, SoundCount
  <2>3. job' = [job EXCEPT ![t] = j]
    BY <1>1, <1>4 DEF LoadRows, JobType
  <2>4. UNCHANGED <<row, table, objects, feedbacks, rankings, restarts>>
    BY <1>4 DEF LoadRows
  <2> HIDE DEF j
  <2>5. QED
    BY <1>1, <1>2, <2>1, <2>2, <2>3, <2>4, JobStep
<1>5. CASE BindTable(t)
  <2>1. UNCHANGED <<row, table, objects, feedbacks, rankings, restarts>>
    BY <1>5 DEF BindTable
  <2>2. CASE job[t].todo = {}
    <3>1. job' = [job EXCEPT ![t] = Idle]
      BY <1>5, <2>2 DEF BindTable
    <3>2. QED
      BY <1>2, <1>3, <2>1, <3>1, JobStep
  <2>3. CASE job[t].todo # {}
    <3> DEFINE j == [job[t] EXCEPT !.pc = "count", !.ref = table[job[t].path]]
    <3>1. table[job[t].path] # 0
      BY <1>5 DEF BindTable, IInv, TablesLoaded
    <3>2. table[job[t].path] \in 0..Len(objects)
      BY <1>1, <1>2 DEF JobType
    <3>3. j \in JobType /\ j.rows = job[t].rows /\ j.args = job[t].args
          /\ j.pc = "count" /\ j.ref # 0
      BY <1>1, <3>1, <3>2 DEF JobType
    <3>4. job' = [job EXCEPT ![t] = j]
      BY <1>1, <1>5, <2>3 DEF BindTable, JobType
    <3> HIDE DEF j
    <3>5. QED
      BY <1>1, <1>2, <2>1, <3>3, <3>4, JobStep
  <2>4. QED
    BY <2>2, <2>3
<1>6. CASE TakeArgs(t)
  <2> DEFINE arg == objects[job[t].ref][job[t].cur]
             j   == [job[t] EXCEPT !.pc = "save", !.args = arg]
  <2>1. job[t].ref \in 1..Len(objects)
    <3>1. job[t].ref # 0
      BY <1>6 DEF TakeArgs, IInv, TablesLoaded, At
    <3>2. job[t].ref \in 0..Len(objects) /\ Len(objects) \in Nat
      BY <1>1, <1>2 DEF JobType
    <3>3. QED
      BY <3>1, <3>2
  <2>2. arg \in SoundCount
    BY <1>1, <1>2, <2>1 DEF JobType
  <2>3. j \in JobType /\ j.rows = job[t].rows /\ j.args = arg /\ j.pc = "save"
        /\ j.ref = job[t].ref
    BY <1>1, <2>2 DEF JobType, SoundCount
  <2>4. job' = [job EXCEPT ![t] = j]
    BY <1>1, <1>6 DEF TakeArgs, JobType
  <2>5. UNCHANGED <<row, table, objects, feedbacks, rankings, restarts>>
    BY <1>6 DEF TakeArgs
  <2>6. j.ref # 0 /\ j.rows \in [File -> SoundCount] /\ j.args \in SoundCount
    BY <1>1, <2>1, <2>2, <2>3
  <2>7. feedbacks' \in Nat /\ rankings' \in Nat /\ restarts' \in Nat
        /\ row' \in [Path -> [File -> SoundCount]]
    BY <1>2, <2>5
  <2> HIDE DEF j, arg
  <2>8. QED
    BY <2>3, <2>4, <2>5, <2>6, <2>7, JobStep
<1>7. CASE SaveRow(t)
  <2>1. row' \in [Path -> [File -> SoundCount]]
    BY <1>1, <1>2, <1>7 DEF SaveRow, JobType
  <2>2. UNCHANGED <<table, objects, feedbacks, rankings, restarts>>
    BY <1>7 DEF SaveRow
  <2>3. CASE job[t].todo = {}
    <3>1. job' = [job EXCEPT ![t] = Idle]
      BY <1>7, <2>3 DEF SaveRow
    <3>2. QED
      BY <1>2, <1>3, <2>1, <2>2, <3>1, JobStep
  <2>4. CASE job[t].todo # {}
    <3> DEFINE j == [job[t] EXCEPT !.pc = "count", !.args = None]
    <3>1. j \in JobType /\ j.rows = job[t].rows /\ j.args = None
          /\ j.pc = "count" /\ j.ref = job[t].ref
      BY <1>1, NoneSound DEF JobType, SoundCount
    <3>2. job' = [job EXCEPT ![t] = j]
      BY <1>1, <1>7, <2>4 DEF SaveRow, JobType
    <3>3. j.ref # 0
      BY <1>7, <3>1 DEF SaveRow, IInv, TablesLoaded, At
    <3>4. /\ j.rows \in [File -> SoundCount] /\ j.args \in SoundCount
          /\ j.pc = "bind" => table[j.path] # 0
      BY <1>1, <3>1, NoneSound
    <3>5. feedbacks' \in Nat /\ rankings' \in Nat /\ restarts' \in Nat
      BY <1>2, <2>2
    <3> HIDE DEF j
    <3>6. QED
      BY <2>1, <2>2, <3>1, <3>2, <3>3, <3>4, <3>5, JobStep
  <2>5. QED
    BY <2>3, <2>4
<1>8. QED
  BY <1>4, <1>5, <1>6, <1>7

\* _ensure_loaded assigns a new dict: references to the old ones stay good.
LEMMA AssignStep ==
    ASSUME IInv, overlapped' \in SUBSET Path, NEW t \in Thread, AssignTable(t)
    PROVE  IInv'
<1> DEFINE n == Len(objects) + 1
           j == [job[t] EXCEPT !.pc = "bind", !.rows = NoCounts]
<1>1. /\ job \in [Thread -> JobType] /\ job[t] \in JobType
      /\ objects \in Seq([File -> SoundCount]) /\ Len(objects) \in Nat
      /\ table \in [Path -> 0..Len(objects)]
      /\ [File -> SoundCount] \subseteq [File -> Count]
  BY DEF IInv, TypeOK, AllSound, JobType, SoundCount
<1>2. /\ objects' = Append(objects, job[t].rows)
      /\ table' = [table EXCEPT ![job[t].path] = n]
      /\ job' = [job EXCEPT ![t] = j]
      /\ UNCHANGED <<row, feedbacks, rankings, restarts>>
  BY <1>1 DEF AssignTable, JobType
<1>3. job[t].rows \in [File -> SoundCount] /\ job[t].args \in SoundCount
  BY DEF IInv, AllSound
<1>4. objects' \in Seq([File -> SoundCount]) /\ Len(objects') = n
  BY <1>1, <1>2, <1>3
<1>5. table' \in [Path -> 0..n] /\ table'[job[t].path] # 0
      /\ \A p \in Path : table[p] # 0 => table'[p] # 0
  BY <1>1, <1>2 DEF JobType
<1>6. JobType \subseteq JobType'
  BY <1>1, <1>4 DEF JobType
<1>7. /\ j \in JobType /\ j.rows = NoCounts /\ j.args = job[t].args
      /\ j.pc = "bind" /\ j.path = job[t].path
  BY <1>1, NoneSound DEF JobType, SoundCount
<1> HIDE DEF j
<1>8. job' \in [Thread -> JobType'] /\ job'[t] = j
      /\ \A u \in Thread \ {t} : job'[u] = job[u] /\ job[u] \in JobType
  BY <1>1, <1>2, <1>6, <1>7
<1>9. TypeOK'
  <2>1. objects' \in Seq([File -> Count])
    BY <1>1, <1>4
  <2>2. QED
    BY <1>2, <1>4, <1>5, <1>8, <2>1 DEF IInv, TypeOK, JobType
<1>10. AllSound'
  BY <1>2, <1>3, <1>4, <1>7, <1>8, NoneSound DEF IInv, AllSound
<1>11. TablesLoaded'
  <2>1. \A u \in Thread \ {t} : job[u].path \in Path
    BY <1>8 DEF JobType
  <2>2. QED
    BY <1>5, <1>7, <1>8, <2>1 DEF IInv, TablesLoaded, At
<1>12. QED
  BY <1>9, <1>10, <1>11 DEF IInv

\* record counts one answer for one file in the dict it holds.
LEMMA CountStep ==
    ASSUME IInv, overlapped' \in SUBSET Path, NEW t \in Thread, NEW f \in File, CountFile(t, f)
    PROVE  IInv'
<1> DEFINE r == job[t].ref
           d == [objects[r] EXCEPT ![f] = Plus(@, f \in job[t].cited)]
           j == [job[t] EXCEPT !.pc = "args", !.cur = f, !.todo = @ \ {f}]
<1>1. /\ job \in [Thread -> JobType] /\ job[t] \in JobType
      /\ objects \in Seq([File -> SoundCount]) /\ Len(objects) \in Nat
      /\ [File -> SoundCount] \subseteq [File -> Count]
  BY DEF IInv, TypeOK, AllSound, JobType, SoundCount
<1>2. job[t].rows \in [File -> SoundCount] /\ job[t].args \in SoundCount
  BY DEF IInv, AllSound
<1>3. r \in 1..Len(objects)
  <2>1. r # 0
    BY DEF CountFile, IInv, TablesLoaded, At
  <2>2. r \in 0..Len(objects)
    BY <1>1 DEF JobType
  <2>3. QED
    BY <1>1, <2>1, <2>2
<1>4. /\ objects' = [objects EXCEPT ![r] = d]
      /\ job' = [job EXCEPT ![t] = j]
      /\ UNCHANGED <<row, table, feedbacks, rankings, restarts>>
  BY <1>1, <1>3 DEF CountFile, JobType
\* total goes up whenever hits does
<1>5. d \in [File -> SoundCount]
  <2>1. objects[r] \in [File -> SoundCount] /\ objects[r][f] \in SoundCount
    BY <1>1, <1>3
  <2>2. Plus(objects[r][f], f \in job[t].cited) \in SoundCount
    <3>1. CASE f \in job[t].cited
      BY <2>1, <3>1 DEF Plus, SoundCount, Count
    <3>2. CASE f \notin job[t].cited
      BY <2>1, <3>2 DEF Plus, SoundCount, Count
    <3>3. QED
      BY <3>1, <3>2
  <2>3. QED
    BY <2>1, <2>2
<1>6. j \in JobType /\ j.rows = job[t].rows /\ j.args = job[t].args
      /\ j.pc = "args" /\ j.ref = r
  BY <1>1 DEF JobType
<1> HIDE DEF j, d
<1>7. objects' \in Seq([File -> SoundCount]) /\ Len(objects') = Len(objects)
  BY <1>1, <1>3, <1>4, <1>5
<1>8. job' \in [Thread -> JobType] /\ job'[t] = j
      /\ \A u \in Thread \ {t} : job'[u] = job[u]
  BY <1>1, <1>4, <1>6
<1>9. TypeOK'
  <2>1. objects' \in Seq([File -> Count])
    BY <1>1, <1>7
  <2>2. QED
    BY <1>4, <1>7, <1>8, <2>1 DEF IInv, TypeOK, JobType
<1>10. AllSound'
  BY <1>2, <1>4, <1>6, <1>7, <1>8 DEF IInv, AllSound
<1>11. TablesLoaded'
  <2>1. \A u \in Thread \ {t} :
            /\ At(u, "bind")' => table'[job'[u].path] # 0
            /\ job'[u].pc \in {"count", "args", "save"} => job'[u].ref # 0
    BY <1>4, <1>8 DEF IInv, TablesLoaded, At
  <2>2. /\ At(t, "bind")' => table'[job'[t].path] # 0
        /\ job'[t].pc \in {"count", "args", "save"} => job'[t].ref # 0
    BY <1>3, <1>6, <1>8 DEF At
  <2>3. QED
    BY <2>1, <2>2 DEF TablesLoaded
<1>12. QED
  BY <1>9, <1>10, <1>11 DEF IInv

\* A restart forgets the dicts and every call; the rows stay.
LEMMA RestartStep ==
    ASSUME IInv, overlapped' \in SUBSET Path, Restart
    PROVE  IInv'
<1>1. objects' = <<>> /\ Len(objects') = 0
      /\ objects' \in Seq([File -> SoundCount])
      /\ objects' \in Seq([File -> Count])
  BY DEF Restart
<1>2. table' = [p \in Path |-> 0] /\ job' = [t \in Thread |-> Idle]
      /\ UNCHANGED <<row, feedbacks, rankings>> /\ restarts' \in Nat
  BY DEF Restart, IInv, TypeOK
<1>3. /\ Idle \in JobType /\ Idle.pc = "idle" /\ Idle.ref = 0
      /\ Idle.rows = NoCounts /\ Idle.args = None
  BY IdleFits DEF IInv, TypeOK
<1>4. Idle \in JobType'
  BY <1>1, <1>3 DEF JobType
<1>5. TypeOK'
  BY <1>1, <1>2, <1>4 DEF IInv, TypeOK, JobType
<1>6. AllSound'
  BY <1>1, <1>2, <1>3, NoneSound DEF IInv, AllSound
<1>7. TablesLoaded'
  BY <1>2, <1>3 DEF TablesLoaded, At
<1>8. QED
  BY <1>5, <1>6, <1>7 DEF IInv

LEMMA NextInv == IInv /\ [Next]_vars => IInv'
<1> SUFFICES ASSUME IInv, [Next]_vars PROVE IInv'
  OBVIOUS
<1>0. overlapped' \in SUBSET Path
  <2>1. overlapped \in SUBSET Path /\ Mount \in [Path -> Path]
    BY ConstantsAssumption DEF IInv, TypeOK
  <2>2. \A t \in Thread, p \in Path : Enter(t, p) => overlapped' \in SUBSET Path
    BY <2>1 DEF Enter
  <2>3. CASE \E t \in Thread, p \in Path, F \in (SUBSET File) \ {{}}, C \in SUBSET File :
               BeginRecord(t, p, F, C)
    BY <2>2, <2>3 DEF BeginRecord
  <2>4. CASE \E t \in Thread, p \in Path : BeginRanking(t, p)
    BY <2>1, <2>2, <2>4 DEF BeginRanking
  <2>5. CASE \E t \in Thread : Step(t)
    BY <2>1, <2>5 DEF Step, LoadRows, AssignTable, BindTable, CountFile, TakeArgs, SaveRow
  <2>6. CASE Restart \/ UNCHANGED vars
    BY <2>1, <2>6 DEF Restart, vars
  <2>7. QED
    BY <2>3, <2>4, <2>5, <2>6 DEF Next
<1>1. ASSUME NEW t \in Thread, NEW p \in Path, NEW F \in (SUBSET File) \ {{}},
             NEW C \in SUBSET File, BeginRecord(t, p, F, C)
      PROVE  IInv'
  BY <1>1, <1>0, BeginStep
<1>2. ASSUME NEW t \in Thread, NEW p \in Path, BeginRanking(t, p)
      PROVE  IInv'
  BY <1>2, <1>0, BeginStep
<1>3. ASSUME NEW t \in Thread, Step(t)
      PROVE  IInv'
  <2>1. CASE LoadRows(t) \/ BindTable(t) \/ TakeArgs(t) \/ SaveRow(t)
    BY <2>1, <1>0, QuietStep
  <2>2. CASE AssignTable(t)
    BY <2>2, <1>0, AssignStep
  <2>3. CASE \E f \in File : CountFile(t, f)
    BY <2>3, <1>0, CountStep
  <2>4. QED
    BY <1>3, <2>1, <2>2, <2>3 DEF Step
<1>4. CASE Restart
  BY <1>4, <1>0, RestartStep
<1>5. CASE UNCHANGED vars
  BY <1>5 DEF vars, IInv, TypeOK, AllSound, TablesLoaded, At
<1>6. QED
  BY <1>1, <1>2, <1>3, <1>4, <1>5 DEF Next

LEMMA Invariance == Spec => []IInv
BY InitInv, NextInv, PTL DEF Spec

-----------------------------------------------------------------------------
(* Theorems *)

\* Every variable keeps its type, and no path and no call of record or
\* _ensure_loaded refers to a dict that was not created, whatever threads
\* interleave.
THEOREM TypeCorrect == Spec => []TypeOK
<1>1. IInv => TypeOK
  BY DEF IInv
<1>2. QED
  BY <1>1, Invariance, PTL

\* Every multiplier get_multiplier can return, from a dict or from rows loaded
\* later, is between 0.5 and 2.0, for any number of threads, lost updates and
\* restarts.
THEOREM MultipliersSafe == Spec => []MultipliersInRange
<1>1. IInv => MultipliersInRange
  <2> SUFFICES ASSUME IInv PROVE MultipliersInRange
    OBVIOUS
  <2>1. ASSUME NEW f \in File, NEW p \in Path
        PROVE  Sound(row[p][f])
    <3>1. row[p][f] \in SoundCount
      BY DEF IInv, AllSound
    <3>2. QED
      BY <3>1, SoundInRange
  <2>2. ASSUME NEW f \in File, NEW i \in 1..Len(objects)
        PROVE  Sound(objects[i][f])
    <3>1. objects[i][f] \in SoundCount
      BY DEF IInv, AllSound
    <3>2. QED
      BY <3>1, SoundInRange
  <2>3. QED
    BY <2>1, <2>2 DEF MultipliersInRange
<1>2. QED
  BY <1>1, Invariance, PTL
-----------------------------------------------------------------------------
(* The counter.  What a dict says of a file is what the row says, but for  *)
(* the file just counted and not yet saved, of which the dict is one       *)
(* observation ahead; so a row that is saved has gained that observation   *)
(* and lost none.  For that no two paths may share a dict, a load must     *)
(* still be of the rows as they are when it is assigned, and nobody else   *)
(* may be in the path: all of it is claimed of the paths in which no two   *)
(* calls have met.                                                         *)

Saving(t) == job[t].pc \in {"args", "save"}

Busy(t) == job[t].pc # "idle"

\* Two calls of a path have met.
Met == \A t, u \in Thread :
           t # u /\ Busy(t) /\ Busy(u) /\ job[t].path = job[u].path
               => job[t].path \in overlapped

\* No dict is two paths', nor counted in for another path than its own.
Own ==
    /\ \A p, q \in Path : table[p] # 0 /\ table[p] = table[q] => p = q
    /\ \A t \in Thread, q \in Path :
           job[t].pc \in {"count", "args", "save"} /\ job[t].ref = table[q]
               => q = job[t].path

\* What the local variables of a call are worth that is alone in its path.
CallExact(t) ==
    Busy(t) /\ job[t].path \notin overlapped =>
        /\ job[t].pc \in {"load", "assign"} => table[job[t].path] = 0
        /\ At(t, "assign") => job[t].rows = row[job[t].path]
        /\ job[t].pc \in {"count", "args", "save"} => job[t].ref = table[job[t].path]
        /\ Saving(t) => \E c \in BOOLEAN :
               objects[job[t].ref][job[t].cur] = Plus(row[job[t].path][job[t].cur], c)
        /\ At(t, "save") => job[t].args = objects[job[t].ref][job[t].cur]

DictExact(p) ==
    \A f \in File :
        \/ table[p] = 0
        \/ objects[table[p]][f] = row[p][f]
        \/ \E t \in Thread : Saving(t) /\ job[t].path = p /\ job[t].cur = f

DictsExact == \A p \in Path \ overlapped : DictExact(p)

Exact == Met /\ Own /\ DictsExact /\ \A t \in Thread : CallExact(t)

\* A step of one thread in its path leaves the other threads and the other
\* paths as exact as they were.
LEMMA OthersStep ==
    ASSUME IInv, Exact, NEW t \in Thread, NEW j \in JobType', NEW p \in Path,
           job' = [job EXCEPT ![t] = j],
           Busy(t) => job[t].path = p,
           j.pc # "idle" => j.path = p,
           overlapped \subseteq overlapped',
           Busy(t) \/ Enter(t, p) \/ j.pc = "idle",
           ~Busy(t) => UNCHANGED <<row, table, objects>>,
           \A q \in Path \ {p} : row'[q] = row[q] /\ table'[q] = table[q],
           \A i \in 1..Len(objects) :
               objects'[i] = objects[i] \/ (At(t, "count") /\ i = job[t].ref)
    PROVE  /\ Met'
           /\ \A u \in Thread \ {t} : CallExact(u)'
           /\ \A q \in Path \ {p} : q \notin overlapped' => DictExact(q)'
<1>1. /\ job \in [Thread -> JobType] /\ table \in [Path -> 0..Len(objects)]
      /\ Len(objects) \in Nat
  BY DEF IInv, TypeOK, JobType
<1>2. job'[t] = j /\ \A u \in Thread \ {t} : job'[u] = job[u]
  BY <1>1
<1>3. Met /\ Own /\ DictsExact /\ \A u \in Thread : CallExact(u)
  BY DEF Exact
<1>4. Met'
  <2> SUFFICES ASSUME NEW u \in Thread \ {t}, Busy(u), j.pc # "idle",
                      job[u].path = p
               PROVE  p \in overlapped'
    BY <1>2, <1>3 DEF Met, Busy
  <2>1. CASE Busy(t)
    BY <1>3, <2>1 DEF Met
  <2>2. CASE Enter(t, p)
    BY <2>2 DEF Enter, Busy, At
  <2>3. QED
    BY <2>1, <2>2
<1>5. ASSUME NEW u \in Thread \ {t}
      PROVE  CallExact(u)'
  <2> DEFINE q == job[u].path
             r == job[u].ref
  <2> SUFFICES ASSUME Busy(u), q \notin overlapped'
               PROVE  CallExact(u)'
    BY <1>2 DEF CallExact, Busy
  <2>1. CallExact(u) /\ q \in Path /\ q \notin overlapped
    BY <1>1, <1>3 DEF JobType
  <2>2. ~Busy(t) \/ q # p
    BY <1>3, <2>1 DEF Met
  <2>3. row'[q] = row[q] /\ table'[q] = table[q]
    BY <2>1, <2>2
  <2>4. job[u].pc \in {"count", "args", "save"} => objects'[r] = objects[r]
    <3> SUFFICES ASSUME job[u].pc \in {"count", "args", "save"}
                 PROVE  objects'[r] = objects[r]
      OBVIOUS
    <3>1. r # 0 /\ r = table[q] /\ r \in 1..Len(objects)
      BY <1>1, <2>1 DEF CallExact, IInv, TablesLoaded
    <3>2. CASE ~Busy(t)
      BY <3>2
    <3>3. CASE Busy(t) /\ q # p
      <4>1. ~(At(t, "count") /\ r = job[t].ref)
        BY <1>3, <2>1, <3>1, <3>3 DEF Own, At
      <4>2. QED
        BY <3>1, <4>1
    <3>4. QED
      BY <2>2, <3>2, <3>3
  <2>5. job'[u] = job[u]
    BY <1>2
  <2>6. QED
    BY <2>1, <2>3, <2>4, <2>5 DEF CallExact, Saving, At
<1>6. ASSUME NEW q \in Path \ {p}, q \notin overlapped', NEW f \in File
      PROVE  \/ table'[q] = 0
             \/ objects'[table'[q]][f] = row'[q][f]
             \/ \E u \in Thread : /\ Saving(u)' /\ job'[u].path = q
                                  /\ job'[u].cur = f
  <2>1. row'[q] = row[q] /\ table'[q] = table[q] /\ DictExact(q)
    BY <1>3, <1>6 DEF DictsExact
  <2>2. CASE table[q] = 0
    BY <2>1, <2>2
  <2>3. CASE table[q] # 0 /\ objects[table[q]][f] = row[q][f]
    <3>1. table[q] \in 1..Len(objects)
      BY <1>1, <2>3
    <3>2. ~(At(t, "count") /\ table[q] = job[t].ref)
      BY <1>3 DEF Own, At, Busy
    <3>3. QED
      BY <2>1, <2>3, <3>1, <3>2
  <2>4. CASE \E u \in Thread : Saving(u) /\ job[u].path = q /\ job[u].cur = f
    <3>1. PICK u \in Thread : Saving(u) /\ job[u].path = q /\ job[u].cur = f
      BY <2>4
    <3>2. u # t
      BY <3>1 DEF Busy, Saving
    <3>3. QED
      BY <1>2, <3>1, <3>2 DEF Saving
  <2>5. QED
    BY <2>1, <2>2, <2>3, <2>4 DEF DictExact
<1>7. QED
  BY <1>4, <1>5, <1>6 DEF DictExact

\* What a step of a thread must show of its own path.
LEMMA StepExact ==
    ASSUME IInv, IInv', Exact, NEW t \in Thread, NEW p \in Path,
           job' = [job EXCEPT ![t] = job'[t]],
           Busy(t) => job[t].path = p,
           Busy(t)' => job'[t].path = p,
           overlapped \subseteq overlapped',
           Busy(t) \/ Enter(t, p),
           ~Busy(t) => UNCHANGED <<row, table, objects>>,
           \A q \in Path \ {p} : row'[q] = row[q] /\ table'[q] = table[q],
           \A i \in 1..Len(objects) :
               objects'[i] = objects[i] \/ (At(t, "count") /\ i = job[t].ref),
           Own',
           p \notin overlapped' => DictExact(p)',
           CallExact(t)'
    PROVE  Exact'
<1>1. job'[t] \in JobType'
  BY DEF IInv, TypeOK, JobType
<1>2. job'[t].pc # "idle" => job'[t].path = p
  BY DEF Busy
<1>3. /\ Met'
      /\ \A u \in Thread \ {t} : CallExact(u)'
      /\ \A q \in Path \ {p} : q \notin overlapped' => DictExact(q)'
  BY <1>1, <1>2, OthersStep
<1>4. QED
  BY <1>3 DEF Exact, DictsExact

\* A new call.
LEMMA BeginExact ==
    ASSUME IInv, IInv', Exact, NEW t \in Thread, NEW p \in Path, NEW j,
           At(t, "idle"), job' = [job EXCEPT ![t] = j],
           j.pc \in {"load", "bind"}, j.pc = "load" => table[p] = 0, j.path = p,
           Enter(t, p), UNCHANGED <<row, table, objects>>
    PROVE  Exact'
<1>1. job \in [Thread -> JobType] /\ job'[t] = j /\ ~Busy(t)
      /\ job' = [job EXCEPT ![t] = job'[t]]
      /\ \A u \in Thread \ {t} : job'[u] = job[u]
  BY DEF IInv, TypeOK, JobType, At, Busy
<1>2. Own /\ DictsExact
  BY DEF Exact
<1>3. overlapped \subseteq overlapped'
  BY DEF Enter
<1>4. Own'
  BY <1>1, <1>2 DEF Own
<1>5. p \notin overlapped' => DictExact(p)'
  <2> SUFFICES ASSUME p \notin overlapped', NEW f \in File, table[p] # 0,
                      objects[table[p]][f] # row[p][f]
               PROVE  \E u \in Thread : Saving(u)' /\ job'[u].path = p /\ job'[u].cur = f
    BY DEF DictExact
  <2>1. PICK u \in Thread : Saving(u) /\ job[u].path = p /\ job[u].cur = f
    BY <1>2, <1>3 DEF DictsExact, DictExact
  <2>2. u # t
    BY <2>1 DEF Saving, At
  <2>3. QED
    BY <1>1, <2>1, <2>2 DEF Saving
<1>6. CallExact(t)'
  BY <1>1 DEF CallExact, Saving, At
<1>7. Busy(t)' => job'[t].path = p
  BY <1>1
<1>8. QED
  BY <1>1, <1>3, <1>4, <1>5, <1>6, <1>7, StepExact

\* A step that changes no table, dict or row.
LEMMA LocalExact ==
    ASSUME IInv, IInv', Exact, NEW t \in Thread,
           LoadRows(t) \/ BindTable(t) \/ TakeArgs(t)
    PROVE  Exact'
<1>0. PICK p \in Path : job[t].path = p
  BY DEF IInv, TypeOK, JobType
<1>1. /\ job \in [Thread -> JobType] /\ job[t] \in JobType 
      /\ job' = [job EXCEPT ![t] = job'[t]]
      /\ UNCHANGED <<row, table, objects, overlapped>>
      /\ \A u \in Thread \ {t} : job'[u] = job[u]
  BY <1>0 DEF IInv, TypeOK, JobType, LoadRows, BindTable, TakeArgs
<1>2. Own /\ DictsExact /\ CallExact(t)
  BY DEF Exact
<1>3. Idle.pc = "idle" /\ Idle.ref = 0
  BY IdleFits DEF IInv, TypeOK
<1>4. Busy(t)
  BY DEF Busy, At, LoadRows, BindTable, TakeArgs
<1>5. /\ Own' /\ CallExact(t)' /\ (Busy(t)' => job'[t].path = p)
      /\ (Saving(t) => Saving(t)' /\ job'[t].cur = job[t].cur)
  <2>1. CASE LoadRows(t)
    <3>1. /\ job[t].pc = "load" /\ job'[t].pc = "assign" /\ job'[t].path = p
          /\ job'[t].rows = row[p]
      BY <1>0, <1>1, <2>1 DEF LoadRows, JobType, At
    <3>2. QED
      BY <1>0, <1>1, <1>2, <1>4, <3>1 DEF Own, CallExact, Saving, At, Busy
  <2>2. CASE BindTable(t)
    <3>1. job[t].pc = "bind"
      BY <2>2 DEF BindTable, At
    <3>2. CASE job[t].todo = {}
      <4>1. job'[t].pc = "idle"
        BY <1>0, <1>1, <1>3, <2>2, <3>2 DEF BindTable
      <4>2. QED
        BY <1>0, <1>1, <1>2, <3>1, <4>1 DEF Own, CallExact, Saving, At, Busy
    <3>3. CASE job[t].todo # {}
      <4>1. job'[t].pc = "count" /\ job'[t].path = p /\ job'[t].ref = table[p]
        BY <1>0, <1>1, <2>2, <3>3 DEF BindTable, JobType
      <4>2. table[p] # 0
        BY <1>0, <3>1 DEF IInv, TablesLoaded, At
      <4>3. QED
        BY <1>0, <1>1, <1>2, <1>4, <3>1, <4>1, <4>2 DEF Own, CallExact, Saving, At
    <3>4. QED
      BY <3>2, <3>3
  <2>3. CASE TakeArgs(t)
    <3>1. /\ job[t].pc = "args" /\ job'[t].pc = "save" /\ job'[t].path = p
          /\ job'[t].cur = job[t].cur /\ job'[t].ref = job[t].ref
          /\ job'[t].args = objects[job[t].ref][job[t].cur]
      BY <1>0, <1>1, <2>3 DEF TakeArgs, JobType, At
    <3>2. QED
      BY <1>0, <1>1, <1>2, <1>4, <3>1 DEF Own, CallExact, Saving, At
  <2>4. QED
    BY <2>1, <2>2, <2>3
<1>6. p \notin overlapped' => DictExact(p)'
  <2> SUFFICES ASSUME p \notin overlapped, NEW f \in File, table[p] # 0,
                      objects[table[p]][f] # row[p][f]
               PROVE  \E u \in Thread : Saving(u)' /\ job'[u].path = p /\ job'[u].cur = f
    BY <1>0, <1>1 DEF DictExact
  <2>1. PICK u \in Thread : Saving(u) /\ job[u].path = p /\ job[u].cur = f
    BY <1>0, <1>1, <1>2 DEF DictsExact, DictExact
  <2>2. CASE u = t
    BY <1>0, <1>5, <2>1, <2>2 DEF Busy, Saving
  <2>3. CASE u # t
    BY <1>0, <1>1, <2>1, <2>3 DEF Saving
  <2>4. QED
    BY <2>2, <2>3
<1>7. QED
  BY <1>0, <1>1, <1>4, <1>5, <1>6, StepExact

\* A new dict takes the path over.
LEMMA AssignExact ==
    ASSUME IInv, IInv', Exact, NEW t \in Thread, AssignTable(t)
    PROVE  Exact'
<1>0. PICK p \in Path : job[t].path = p
  BY DEF IInv, TypeOK, JobType
<1> DEFINE n == Len(objects) + 1
<1>1. /\ job \in [Thread -> JobType] /\ job[t] \in JobType 
      /\ objects \in Seq([File -> Count]) /\ Len(objects) \in Nat
      /\ table \in [Path -> 0..Len(objects)] /\ row \in [Path -> [File -> Count]]
      /\ job[t].rows \in [File -> Count]
  BY <1>0 DEF IInv, TypeOK, JobType
<1>2. Own /\ CallExact(t)
  BY DEF Exact
<1>3. /\ job[t].pc = "assign" /\ UNCHANGED <<row, overlapped>>
      /\ objects' = Append(objects, job[t].rows)
      /\ table' = [table EXCEPT ![p] = n]
      /\ job' = [job EXCEPT ![t] = job'[t]]
      /\ job'[t].pc = "bind" /\ job'[t].path = p
  BY <1>0, <1>1 DEF AssignTable, At, JobType
<1>4. Busy(t)
  BY <1>0, <1>3 DEF Busy
<1>5. /\ table'[p] = n /\ objects'[n] = job[t].rows
      /\ \A q \in Path \ {p} : table'[q] = table[q] /\ table[q] # n
      /\ \A i \in 1..Len(objects) : objects'[i] = objects[i]
  BY <1>0, <1>1, <1>3
<1>6. Own'
  <2>1. \A r, q \in Path : table'[r] # 0 /\ table'[r] = table'[q] => r = q
    BY <1>0, <1>2, <1>5 DEF Own
  <2>2. ASSUME NEW u \in Thread, NEW q \in Path,
               job'[u].pc \in {"count", "args", "save"}, job'[u].ref = table'[q]
        PROVE  q = job'[u].path
    <3>1. u # t /\ job'[u] = job[u]
      BY <1>0, <1>1, <1>3, <2>2
    <3>2. job[u].ref # n
      <4>1. job[u].ref \in 0..Len(objects)
        BY <1>0, <1>1 DEF JobType
      <4>2. QED
        BY <1>0, <1>1, <4>1
    <3>3. q # p /\ table'[q] = table[q]
      BY <1>0, <1>5, <2>2, <3>1, <3>2
    <3>4. QED
      BY <1>0, <1>2, <2>2, <3>1, <3>3 DEF Own
  <2>3. QED
    BY <2>1, <2>2 DEF Own
<1>7. p \notin overlapped' => DictExact(p)'
  <2>1. p \notin overlapped' => job[t].rows = row[p]
    BY <1>0, <1>2, <1>3, <1>4 DEF CallExact, At
  <2>2. QED
    BY <1>0, <1>3, <1>5, <2>1 DEF DictExact
<1>8. CallExact(t)'
  BY <1>0, <1>3 DEF CallExact, Saving, At
<1>9. /\ Busy(t) => job[t].path = p
      /\ Busy(t)' => job'[t].path = p
      /\ overlapped \subseteq overlapped'
      /\ \A q \in Path \ {p} : row'[q] = row[q] /\ table'[q] = table[q]
  BY <1>0, <1>3, <1>5
<1> HIDE DEF n
<1>10. QED
  BY <1>0, <1>1, <1>3, <1>4, <1>5, <1>6, <1>7, <1>8, <1>9, StepExact

\* The dict is one observation ahead of the row.
LEMMA CountExact ==
    ASSUME IInv, IInv', Exact, NEW t \in Thread, NEW f \in File, CountFile(t, f)
    PROVE  Exact'
<1>0. PICK p \in Path : job[t].path = p
  BY DEF IInv, TypeOK, JobType
<1> DEFINE r == job[t].ref
           c == f \in job[t].cited
<1>1. /\ job \in [Thread -> JobType] /\ job[t] \in JobType 
      /\ objects \in Seq([File -> Count]) /\ Len(objects) \in Nat
      /\ table \in [Path -> 0..Len(objects)] /\ row \in [Path -> [File -> Count]]
  BY <1>0 DEF IInv, TypeOK, JobType
<1>2. Met /\ Own /\ DictsExact /\ CallExact(t)
  BY DEF Exact
<1>3. /\ job[t].pc = "count" /\ UNCHANGED <<row, table, overlapped>>
      /\ objects' = [objects EXCEPT ![r][f] = Plus(@, c)]
      /\ job' = [job EXCEPT ![t] = job'[t]]
      /\ job'[t].pc = "args" /\ job'[t].path = p /\ job'[t].cur = f /\ job'[t].ref = r
  BY <1>0, <1>1 DEF CountFile, At, JobType
<1>4. Busy(t) /\ At(t, "count")
  BY <1>0, <1>3 DEF Busy, At
<1>5. r \in 1..Len(objects)
  <2>1. r # 0
    BY <1>0, <1>3 DEF IInv, TablesLoaded
  <2>2. r \in 0..Len(objects)
    BY <1>0, <1>1 DEF JobType
  <2>3. QED
    BY <1>0, <1>1, <2>1, <2>2
<1>6. /\ objects'[r][f] = Plus(objects[r][f], c)
      /\ \A g \in File \ {f} : objects'[r][g] = objects[r][g]
      /\ \A i \in 1..Len(objects) : i # r => objects'[i] = objects[i]
  <2>1. objects[r] \in [File -> Count]
    BY <1>0, <1>1, <1>5
  <2>2. QED
    BY <1>0, <1>1, <1>3, <1>5, <2>1
<1>7. Own'
  <2>1. \A u \in Thread \ {t} : job'[u] = job[u]
    BY <1>1, <1>3
  <2>2. UNCHANGED table /\ job[t].pc = "count"
        /\ job'[t].path = p /\ job'[t].ref = job[t].ref
    BY <1>3
  <2> HIDE DEF r, c
  <2>3. QED
    BY <1>0, <1>2, <2>1, <2>2 DEF Own
<1>8. ASSUME p \notin overlapped
      PROVE  r = table[p] /\ \A g \in File : objects[r][g] = row[p][g]
  <2>1. r = table[p] /\ table[p] # 0
    BY <1>0, <1>1, <1>2, <1>3, <1>4, <1>5, <1>8 DEF CallExact
  <2>2. \A u \in Thread : ~(Saving(u) /\ job[u].path = p)
    BY <1>0, <1>2, <1>3, <1>4, <1>8 DEF Met, Saving, Busy
  <2>3. QED
    BY <1>0, <1>1, <1>2, <1>8, <2>1, <2>2 DEF DictsExact, DictExact
<1>9. p \notin overlapped' => DictExact(p)'
  <2> SUFFICES ASSUME p \notin overlapped, NEW g \in File, g # f
               PROVE  objects'[table'[p]][g] = row'[p][g]
    BY <1>0, <1>3 DEF DictExact, Saving
  <2>1. QED
    BY <1>0, <1>3, <1>6, <1>8
<1>10. CallExact(t)'
  <2> SUFFICES ASSUME p \notin overlapped PROVE CallExact(t)'
    BY <1>0, <1>3 DEF CallExact
  <2>1. r = table'[p]
    BY <1>0, <1>3, <1>8
  <2>2. objects'[r][f] = Plus(row'[p][f], c)
    BY <1>0, <1>3, <1>6, <1>8
  <2>3. c \in BOOLEAN
    OBVIOUS
  <2> HIDE DEF c, r
  <2>4. \E d \in BOOLEAN : objects'[r][f] = Plus(row'[p][f], d)
    BY <2>2, <2>3
  <2>5. QED
    BY <1>0, <1>3, <2>1, <2>4 DEF CallExact, At
<1>11. /\ Busy(t) => job[t].path = p
       /\ Busy(t)' => job'[t].path = p
       /\ overlapped \subseteq overlapped'
       /\ \A q \in Path \ {p} : row'[q] = row[q] /\ table'[q] = table[q]
       /\ \A i \in 1..Len(objects) :
              objects'[i] = objects[i] \/ (At(t, "count") /\ i = job[t].ref)
  BY <1>0, <1>3, <1>4, <1>6
<1>12. job' = [job EXCEPT ![t] = job'[t]]
  BY <1>3
<1> HIDE DEF r, c
<1>13. /\ overlapped \subseteq overlapped'
       /\ Busy(t) \/ Enter(t, p)
       /\ ~Busy(t) => UNCHANGED <<row, table, objects>>
  BY <1>4, <1>11
<1>14. QED
  BY <1>0, <1>7, <1>9, <1>10, <1>11, <1>12, <1>13, StepExact

\* The row catches up.
LEMMA SaveExact ==
    ASSUME IInv, IInv', Exact, NEW t \in Thread, SaveRow(t)
    PROVE  Exact'
<1>0. PICK p \in Path : job[t].path = p
  BY DEF IInv, TypeOK, JobType
<1> DEFINE f == job[t].cur
<1>1. /\ job \in [Thread -> JobType] /\ job[t] \in JobType /\ p \in Path /\ f \in File
      /\ Len(objects) \in Nat
      /\ table \in [Path -> 0..Len(objects)] /\ row \in [Path -> [File -> Count]]
  BY <1>0 DEF IInv, TypeOK, JobType
<1>2. Met /\ Own /\ DictsExact /\ CallExact(t)
  BY DEF Exact
<1>3. /\ job[t].pc = "save" /\ UNCHANGED <<table, objects, overlapped>>
      /\ row' = [row EXCEPT ![p][f] = job[t].args]
      /\ job' = [job EXCEPT ![t] = job'[t]]
      /\ \A u \in Thread \ {t} : job'[u] = job[u]
  BY <1>0, <1>1 DEF SaveRow, At, JobType
<1>4. Busy(t)
  BY <1>0, <1>3 DEF Busy
<1>5. /\ job'[t].pc \in {"idle", "count"}
      /\ job'[t].pc = "count" => job'[t].path = p /\ job'[t].ref = job[t].ref
  <2>1. CASE job[t].todo = {}
    <3>1. Idle.pc = "idle"
      BY IdleFits DEF IInv, TypeOK
    <3>2. QED
      BY <1>0, <1>1, <2>1, <3>1 DEF SaveRow
  <2>2. CASE job[t].todo # {}
    BY <1>0, <1>1, <2>2 DEF SaveRow, JobType
  <2>3. QED
    BY <2>1, <2>2
<1>6. Own'
  BY <1>0, <1>1, <1>2, <1>3, <1>5 DEF Own
<1>7. row'[p][f] = job[t].args /\ \A g \in File \ {f} : row'[p][g] = row[p][g]
  BY <1>0, <1>1, <1>3
<1>8. p \notin overlapped' => DictExact(p)'
  <2> SUFFICES ASSUME p \notin overlapped, NEW g \in File, table[p] # 0
               PROVE  objects[table[p]][g] = row'[p][g]
    BY <1>0, <1>3 DEF DictExact
  <2>1. job[t].args = objects[table[p]][f]
    BY <1>0, <1>2, <1>3, <1>4 DEF CallExact, At
  <2>2. CASE g = f
    BY <1>0, <1>7, <2>1, <2>2
  <2>3. CASE g # f
    <3>1. \A u \in Thread : Saving(u) /\ job[u].path = p => job[u].cur = f
      BY <1>0, <1>2, <1>4 DEF Met, Saving, Busy
    <3>2. QED
      BY <1>0, <1>2, <1>7, <2>3, <3>1 DEF DictsExact, DictExact
  <2>4. QED
    BY <2>2, <2>3
<1>9. CallExact(t)'
  BY <1>0, <1>2, <1>3, <1>4, <1>5 DEF CallExact, Saving, At, Busy
<1>10. /\ Busy(t) => job[t].path = p
       /\ Busy(t)' => job'[t].path = p
       /\ overlapped \subseteq overlapped'
       /\ \A q \in Path \ {p} : row'[q] = row[q] /\ table'[q] = table[q]
       /\ \A i \in 1..Len(objects) : objects'[i] = objects[i]
  BY <1>0, <1>1, <1>3, <1>5 DEF Busy
<1> HIDE DEF f
<1>11. QED
  BY <1>0, <1>1, <1>3, <1>4, <1>6, <1>8, <1>9, <1>10, StepExact

\* A step of a thread writes no row, or one more observation, or a sound count
\* over a path in which calls have met.
LEMMA RowStep ==
    ASSUME IInv, Exact, NEW t \in Thread, Step(t)
    PROVE  [Counter!Next]_<<row, overlapped>>
<1>1. CASE SaveRow(t)
  <2> DEFINE p == job[t].path
             f == job[t].cur
  <2>1. p \in Path /\ f \in File
    BY DEF IInv, TypeOK
  <2>2. row' = [row EXCEPT ![p][f] = job[t].args] /\ UNCHANGED overlapped
        /\ Busy(t) /\ At(t, "save")
    BY <1>1 DEF SaveRow, Busy, At
  <2>3. CASE p \notin overlapped
    <3>1. PICK c \in BOOLEAN : job[t].args = Plus(row[p][f], c)
      BY <2>2, <2>3 DEF Exact, CallExact, Saving, At
    <3>2. row' = [row EXCEPT ![p][f] = Plus(@, c)]
      BY <2>2, <3>1
    <3>3. Counter!Observe(p, f, c)
      BY <2>2, <3>2 DEF Counter!Observe, Counter!Plus, Plus
    <3> HIDE DEF p, f
    <3>4. QED
      BY <2>1, <3>3 DEF Counter!Next
  <2>4. CASE p \in overlapped
    <3>1. row'[p][f] = job[t].args
      BY <2>1, <2>2 DEF IInv, TypeOK
    <3>2. row'[p][f].hits <= row'[p][f].total
      BY <3>1 DEF IInv, AllSound, SoundCount
    <3>3. Counter!Overwrite(p, f)
      BY <2>2, <2>4, <3>1, <3>2 DEF Counter!Overwrite
    <3> HIDE DEF p, f
    <3>4. QED
      BY <2>1, <3>3 DEF Counter!Next
  <2>5. QED
    BY <2>3, <2>4
<1>2. CASE ~SaveRow(t)
  BY <1>2 DEF Step, LoadRows, AssignTable, BindTable, CountFile, TakeArgs
<1>3. QED
  BY <1>1, <1>2

\* A new call may meet another.
LEMMA EnterStep ==
    ASSUME NEW t \in Thread, NEW p \in Path, Enter(t, p), UNCHANGED row
    PROVE  [Counter!Next]_<<row, overlapped>>
BY DEF Enter, Counter!Next, Counter!Overlap

\* record and get_multiplier on any number of threads: each row saved under a
\* path where no two calls have met since the process started counts exactly one
\* observation more and forgets none, through loads, rankings and restarts, and
\* where calls did meet a row may fall back but never tells of more citations
\* than observations.
THEOREM RowsCount == Spec => CounterSpec
<1>1. Init => Exact
  <2> SUFFICES ASSUME Init PROVE Exact
    OBVIOUS
  <2>1. Idle.pc = "idle"
    BY IdleFits DEF Init
  <2>2. \A t \in Thread : job[t].pc = "idle"
    BY <2>1 DEF Init
  <2>3. \A p \in Path : table[p] = 0
    BY DEF Init
  <2>4. QED
    BY <2>2, <2>3
    DEF Exact, Met, Own, DictsExact, DictExact, CallExact, Saving, At, Busy
<1>2. IInv /\ IInv' /\ Exact /\ [Next]_vars
          => Exact' /\ [Counter!Next]_<<row, overlapped>>
  <2> SUFFICES ASSUME IInv, IInv', Exact, [Next]_vars
               PROVE  Exact' /\ [Counter!Next]_<<row, overlapped>>
    OBVIOUS
  <2>0. /\ Idle \in JobType /\ Idle.pc = "idle" /\ Mount \in [Path -> Path]
    BY IdleFits, ConstantsAssumption DEF IInv, TypeOK
  <2>1. ASSUME NEW t \in Thread, NEW p \in Path, NEW F \in (SUBSET File) \ {{}},
               NEW C \in SUBSET File, BeginRecord(t, p, F, C)
        PROVE  Exact' /\ [Counter!Next]_<<row, overlapped>>
    <3> DEFINE j == [Idle EXCEPT !.pc = Entry(p), !.path = p, !.todo = F, !.cited = C]
    <3>1. /\ At(t, "idle") /\ job' = [job EXCEPT ![t] = j] /\ Enter(t, p)
          /\ UNCHANGED <<row, table, objects>>
      BY <2>1 DEF BeginRecord
    <3>2. /\ j.pc \in {"load", "bind"} /\ (j.pc = "load" => table[p] = 0)
          /\ j.path = p
      BY <2>0 DEF Entry, JobType
    <3> HIDE DEF j
    <3>3. Exact'
      BY <3>1, <3>2, BeginExact
    <3>4. QED
      BY <3>1, <3>3, EnterStep
  <2>2. ASSUME NEW t \in Thread, NEW p \in Path, BeginRanking(t, p)
        PROVE  Exact' /\ [Counter!Next]_<<row, overlapped>>
    <3> DEFINE q == Mount[p]
               j == [Idle EXCEPT !.pc = "load", !.path = q]
    <3>1. /\ At(t, "idle") /\ job' = [job EXCEPT ![t] = j] /\ Enter(t, q)
          /\ UNCHANGED <<row, table, objects>> /\ table[q] = 0
      BY <2>2 DEF BeginRanking
    <3>2. /\ j.pc \in {"load", "bind"} /\ (j.pc = "load" => table[q] = 0)
          /\ j.path = q /\ q \in Path
      BY <2>0, <3>1 DEF JobType
    <3> HIDE DEF j, q
    <3>3. Exact'
      BY <3>1, <3>2, BeginExact
    <3>4. QED
      BY <3>1, <3>2, <3>3, EnterStep
  <2>3. ASSUME NEW t \in Thread, Step(t)
        PROVE  Exact' /\ [Counter!Next]_<<row, overlapped>>
    <3>1. CASE LoadRows(t) \/ BindTable(t) \/ TakeArgs(t)
      BY <2>3, <3>1, LocalExact, RowStep
    <3>2. CASE AssignTable(t)
      BY <2>3, <3>2, AssignExact, RowStep
    <3>3. CASE \E f \in File : CountFile(t, f)
      BY <2>3, <3>3, CountExact, RowStep
    <3>4. CASE SaveRow(t)
      BY <2>3, <3>4, SaveExact, RowStep
    <3>5. QED
      BY <2>3, <3>1, <3>2, <3>3, <3>4 DEF Step
  <2>4. CASE Restart
    <3>1. /\ table' = [p \in Path |-> 0] /\ job' = [t \in Thread |-> Idle]
          /\ row' = row /\ overlapped' = {}
      BY <2>4 DEF Restart
    <3>2. Exact'
      BY <2>0, <3>1
      DEF Exact, Met, Own, DictsExact, DictExact, CallExact, Saving, At, Busy
    <3>3. QED
      BY <3>1, <3>2 DEF Counter!Next, Counter!Restart
  <2>5. CASE UNCHANGED vars
    BY <2>5
    DEF vars, Exact, Met, Own, DictsExact, DictExact, CallExact, Saving, At, Busy
  <2>6. QED
    BY <2>1, <2>2, <2>3, <2>4, <2>5 DEF Next
<1>3. Init => Counter!Init
  BY DEF Init, Counter!Init, NoCounts, None, Counter!None
<1>4. QED
  BY <1>1, <1>2, <1>3, Invariance, PTL DEF Spec, CounterSpec, Counter!Spec
=============================================================================
