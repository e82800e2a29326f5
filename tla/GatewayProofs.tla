---------------------------- MODULE GatewayProofs ----------------------------
(***************************************************************************)
(* Proofs about Gateway, for any repositories, files, threads, capacity    *)
(* and bounds.                                                             *)
(***************************************************************************)
EXTENDS Gateway, SequenceTheorems, TLAPS

Busy == {"scan", "refresh", "build", "docs", "rank"}

Request == [pc : {"idle", "walkers"} \union Busy, repo : Repo \union {NoRepo},
            active : File \union {NoFile}, asked : Nat, idx : Nat, todo : SUBSET File]

Job == [pc : {"none", "compare", "label", "row"}, idx : Nat,
        file : File \union {NoFile}, stat : Nat]

\* The parts of TypeOK, as strong as they have to be to be inductive.
DiskOK ==
    /\ saves \in 0..MaxSaves
    /\ mtime \in [Repo -> [File -> 0..saves]]
    /\ row \in [Repo -> [File -> 0..saves]]

ObjectsOK == object \in Seq(Object)

TableOK ==
    /\ table \in Seq(1..Len(object))
    /\ Len(table) <= MaxIndexes
    /\ \A j, k \in DOMAIN table : object[At(j)].repo = object[At(k)].repo => j = k

\* An index knows of its observer only if it is registered.
WatchOK ==
    /\ running \subseteq observers /\ observers \subseteq Repo
    /\ queue \in [Repo -> SUBSET File]
    /\ built \subseteq Repo
    /\ \A i \in DOMAIN object : object[i].watched => object[i].repo \in observers

ReqOK ==
    /\ req \in [Thread -> Request]
    /\ \A t \in Thread :
          /\ req[t].idx \in 0..Len(object)
          /\ req[t].pc # "idle" => req[t].repo \in Repo
          /\ req[t].pc \in Busy => /\ req[t].idx # 0 /\ req[t].active \in File
                                   /\ object[req[t].idx].repo = req[t].repo

JobsOK ==
    /\ job \in [Worker -> Job]
    /\ \A w \in Worker : job[w].pc # "none" =>
           job[w].idx \in 1..Len(object) /\ job[w].file \in File /\ job[w].stat \in 1..saves
    /\ unsettled \in [Repo -> SUBSET File]

Types == DiskOK /\ ObjectsOK /\ TableOK /\ WatchOK /\ ReqOK /\ JobsOK

LEMMA TypesMean == Types => TypeOK
<1> SUFFICES ASSUME Types PROVE TypeOK
  OBVIOUS
<1>1. \A w \in Worker : ~Free(w) =>
          /\ job[w].pc \in {"compare", "label", "row"}
          /\ job[w].idx \in DOMAIN object /\ job[w].file \in File
          /\ job[w].stat \in 1..saves
  BY DEF Types, JobsOK, ObjectsOK, Job, Free
<1>2. QED
  BY <1>1 DEF Types, TypeOK, DiskOK, ObjectsOK, TableOK, WatchOK, ReqOK, JobsOK, Request, Busy

LEMMA TypesInit == Init => Types
<1> SUFFICES ASSUME Init PROVE Types
  OBVIOUS
<1>1. DiskOK
  BY ConstantsAssumption DEF Init, DiskOK, Nothing
<1>2. ObjectsOK /\ TableOK
  BY ConstantsAssumption DEF Init, ObjectsOK, TableOK
<1>3. WatchOK
  BY DEF Init, WatchOK
<1>4. ReqOK
  BY DEF Init, ReqOK, Request, Idle, Busy
<1>5. JobsOK
  BY DEF Init, JobsOK, Job, NoJob
<1>6. QED
  BY <1>1, <1>2, <1>3, <1>4, <1>5 DEF Types

-----------------------------------------------------------------------------
(* What becomes of an index *)

\* Indexes are added; each stays with its repository.
Onward ==
    /\ Len(object') \in Nat /\ Len(object) <= Len(object')
    /\ \A i \in 1..Len(object) : object'[i].repo = object[i].repo

LEMMA ObjectFacts ==
    ASSUME ObjectsOK
    PROVE  /\ Len(object) \in Nat /\ DOMAIN object = 1..Len(object)
           /\ \A i \in 1..Len(object) : object[i] \in Object
BY DEF ObjectsOK

LEMMA Standing ==
    ASSUME ObjectsOK, object' = object
    PROVE  Onward
BY ObjectFacts DEF Onward

LEMMA TableKept ==
    ASSUME ObjectsOK, TableOK, Onward, table' = table
    PROVE  TableOK'
<1>1. table \in Seq(1..Len(object))
  BY DEF TableOK
<1>2. DOMAIN table = 1..Len(table) /\ \A k \in DOMAIN table : table[k] \in 1..Len(object)
  BY <1>1
<1>3. /\ Len(object) \in Nat /\ Len(object') \in Nat
      /\ 1..Len(object) \subseteq 1..Len(object')
      /\ \A i \in 1..Len(object) : object'[i].repo = object[i].repo
  BY ObjectFacts DEF Onward
<1>4. table' \in Seq(1..Len(object'))
  BY <1>1, <1>3, SeqMonotonic
<1>5. QED
  BY <1>2, <1>3, <1>4 DEF TableOK, At

LEMMA RequestsKept ==
    ASSUME ObjectsOK, ReqOK, Onward, req' = req
    PROVE  ReqOK'
<1>1. /\ Len(object) \in Nat /\ Len(object') \in Nat
      /\ \A i \in 1..Len(object) : i \in 1..Len(object') /\ object'[i].repo = object[i].repo
  BY ObjectFacts DEF Onward
<1>2. ASSUME NEW t \in Thread
      PROVE  /\ req[t].idx \in 0..Len(object')
             /\ req[t].idx # 0 => object'[req[t].idx].repo = object[req[t].idx].repo
  BY <1>1 DEF ReqOK
<1>3. QED
  BY <1>1, <1>2 DEF ReqOK

\* Jobs after a step that adds no index that one of them is about.
LEMMA JobsMove ==
    ASSUME Onward, DiskOK, saves' \in {saves, saves + 1}, job' \in [Worker -> Job],
           unsettled' \in [Repo -> SUBSET File],
           \A w \in Worker : job'[w].pc # "none" =>
               /\ job'[w].idx \in 1..Len(object) /\ job'[w].file \in File
               /\ job'[w].stat \in 1..saves,
           ObjectsOK
    PROVE  JobsOK'
<1>0. saves \in Nat
  BY ConstantsAssumption DEF DiskOK
<1>1. 1..Len(object) \subseteq 1..Len(object') /\ 1..saves \subseteq 1..saves'
  BY <1>0, ObjectFacts DEF Onward
<1>2. Worker' = Worker /\ Job' = Job
  BY DEF Worker, Job
<1>3. QED
  BY <1>1, <1>2 DEF JobsOK

LEMMA JobsKept ==
    ASSUME Onward, DiskOK, ObjectsOK, JobsOK, saves' \in {saves, saves + 1}, job' = job,
           unsettled' \in [Repo -> SUBSET File]
    PROVE  JobsOK'
BY JobsMove DEF JobsOK

\* Jobs after one of them goes on or ends.
LEMMA OneJob ==
    ASSUME JobsOK, NEW w \in Worker, job[w].pc # "none",
           \A v \in Worker : v # w => job'[v] = job[v],
           \/ job'[w].pc = "none"
           \/ /\ job'[w].idx = job[w].idx /\ job'[w].file = job[w].file
              /\ job'[w].stat = job[w].stat
    PROVE  \A v \in Worker : job'[v].pc # "none" =>
               /\ job'[v].idx \in 1..Len(object) /\ job'[v].file \in File
               /\ job'[v].stat \in 1..saves
<1> TAKE v \in Worker
<1>1. job[v].pc # "none" =>
          job[v].idx \in 1..Len(object) /\ job[v].file \in File /\ job[v].stat \in 1..saves
  BY DEF JobsOK
<1>2. job[w].idx \in 1..Len(object) /\ job[w].file \in File /\ job[w].stat \in 1..saves
  BY DEF JobsOK
<1>3. CASE v = w
  BY <1>2, <1>3
<1>4. CASE v # w
  BY <1>1, <1>4
<1>5. QED
  BY <1>3, <1>4

LEMMA JobFacts ==
    ASSUME DiskOK, ObjectsOK, JobsOK, NEW w \in Worker
    PROVE  /\ job[w] \in Job /\ DOMAIN job = Worker
           /\ job[w].pc # "none" =>
                  /\ job[w].idx \in 1..Len(object) /\ object[job[w].idx] \in Object
                  /\ object[job[w].idx].repo \in Repo
                  /\ job[w].file \in File /\ job[w].stat \in 1..saves
<1>1. job[w].pc # "none" => job[w].idx \in 1..Len(object)
  BY DEF JobsOK
<1>2. \A i \in 1..Len(object) : object[i] \in Object /\ object[i].repo \in Repo
  BY ObjectFacts DEF Object
<1>3. QED
  BY <1>1, <1>2 DEF JobsOK

LEMMA NoJobIs == NoJob \in Job /\ NoJob.pc = "none"
BY DEF NoJob, Job

\* The stat begins a job, or does nothing.
LEMMA StatIs ==
    ASSUME DiskOK, ObjectsOK, JobsOK, NEW w \in Worker, NEW i \in 1..Len(object), NEW f \in File,
           Stat(w, i, f)
    PROVE  /\ job' \in [Worker -> Job]
           /\ \A v \in Worker : v # w => job'[v] = job[v]
           /\ mtime[object[i].repo][f] \in 0..saves
           /\ mtime[object[i].repo][f] = 0 => job' = job
           /\ mtime[object[i].repo][f] # 0 =>
                  /\ job'[w].pc = "compare" /\ job'[w].idx = i /\ job'[w].file = f
                  /\ job'[w].stat = mtime[object[i].repo][f] /\ job'[w].stat \in 1..saves
<1> DEFINE m == mtime[object[i].repo][f]
           j == [pc |-> "compare", idx |-> i, file |-> f, stat |-> m]
<1>1. object[i].repo \in Repo /\ i \in Nat
  BY ObjectFacts DEF Object
<1>2. m \in 0..saves /\ saves \in Nat
  BY <1>1, ConstantsAssumption DEF DiskOK
<1>3. j \in Job /\ j.pc = "compare" /\ j.idx = i /\ j.file = f /\ j.stat = m
  BY <1>1, <1>2 DEF Job
<1>4. job \in [Worker -> Job]
  BY DEF JobsOK
<1>5. job' = IF m = 0 THEN job ELSE [job EXCEPT ![w] = j]
  BY DEF Stat
<1> HIDE DEF m, j
<1>6. CASE m = 0
  BY <1>2, <1>4, <1>5, <1>6 DEF m
<1>7. CASE m # 0
  <2>1. m \in 1..saves
    BY <1>2, <1>7
  <2>2. /\ job' \in [Worker -> Job] /\ job'[w] = j
        /\ \A v \in Worker : v # w => job'[v] = job[v]
    BY <1>3, <1>4, <1>5, <1>7
  <2>3. QED
    BY <1>2, <1>3, <1>7, <2>1, <2>2 DEF m
<1>8. QED
  BY <1>6, <1>7

\* A job goes on to another of its steps.
LEMMA JobGoesOn ==
    ASSUME JobsOK, NEW w \in Worker, NEW pc \in {"label", "row"}, job' = [job EXCEPT ![w].pc = pc]
    PROVE  /\ job' \in [Worker -> Job]
           /\ \A v \in Worker : v # w => job'[v] = job[v]
           /\ job'[w].pc = pc /\ job'[w].idx = job[w].idx /\ job'[w].file = job[w].file
           /\ job'[w].stat = job[w].stat
<1> DEFINE j == [job[w] EXCEPT !.pc = pc]
<1>1. job \in [Worker -> Job] /\ job[w] \in Job
  BY DEF JobsOK
<1>2. /\ j \in Job /\ j.pc = pc /\ j.idx = job[w].idx /\ j.file = job[w].file
      /\ j.stat = job[w].stat
  BY <1>1 DEF Job
<1>3. job' = [job EXCEPT ![w] = j]
  OBVIOUS
<1> HIDE DEF j
<1>4. QED
  BY <1>1, <1>2, <1>3

\* Or it ends.
LEMMA JobEnds ==
    ASSUME JobsOK, NEW w \in Worker, job' = [job EXCEPT ![w] = NoJob]
    PROVE  /\ job' \in [Worker -> Job]
           /\ \A v \in Worker : v # w => job'[v] = job[v]
           /\ job'[w] = NoJob /\ job'[w].pc = "none"
BY NoJobIs DEF JobsOK

\* The label of one file of one index becomes the stat of a job.
LEMMA LabelIs ==
    ASSUME DiskOK, ObjectsOK, JobsOK, NEW w \in Worker, Label(w)
    PROVE  /\ job[w].idx \in 1..Len(object) /\ job[w].file \in File
           /\ ObjectsOK' /\ Onward /\ Len(object') = Len(object)
           /\ \A j \in 1..Len(object) :
                  /\ object'[j].watched = object[j].watched
                  /\ object'[j].late = IF j = job[w].idx THEN object[j].late \union TakenBack(w)
                                                          ELSE object[j].late
                  /\ \A g \in File :
                         object'[j].mtimes[g] = IF j = job[w].idx /\ g = job[w].file
                                                THEN job[w].stat ELSE object[j].mtimes[g]
<1> DEFINE i == job[w].idx
           f == job[w].file
           T == TakenBack(w)
           m == [object[i].mtimes EXCEPT ![f] = job[w].stat]
           o == [object[i] EXCEPT !.mtimes = m, !.late = object[i].late \union T]
<1>1. /\ Len(object) \in Nat /\ DOMAIN object = 1..Len(object)
      /\ \A j \in 1..Len(object) : object[j] \in Object
  BY ObjectFacts
<1>2. job[w].pc = "label"
  BY DEF Label
<1>3. i \in 1..Len(object) /\ f \in File /\ job[w].stat \in 1..saves /\ object[i] \in Object
  BY <1>2, JobFacts
<1>4. T \in SUBSET File
  BY <1>3 DEF TakenBack
<1>5. object' = [object EXCEPT ![i] = o] /\ saves' = saves
  BY DEF Label, disk
<1> HIDE DEF T
<1>6. job[w].stat \in 0..saves
  BY <1>3
<1>7. /\ m \in [File -> 0..saves]
      /\ \A g \in File : m[g] = IF g = f THEN job[w].stat ELSE object[i].mtimes[g]
  BY <1>3, <1>6 DEF Object
<1> HIDE DEF m
<1>8. /\ o \in Object /\ o.repo = object[i].repo /\ o.mtimes = m
      /\ o.watched = object[i].watched /\ o.late = object[i].late \union T
  BY <1>3, <1>4, <1>7 DEF Object
<1> HIDE DEF o
<1>9. /\ object' \in Seq(Object) /\ Len(object') = Len(object)
      /\ \A j \in 1..Len(object) : object'[j] = IF j = i THEN o ELSE object[j]
  BY <1>1, <1>3, <1>5, <1>8, ExceptSeq DEF ObjectsOK
<1>10. ObjectsOK'
  BY <1>5, <1>9 DEF ObjectsOK, Object
<1>11. Onward
  BY <1>1, <1>8, <1>9 DEF Onward
<1> HIDE DEF i, f
<1>12. ASSUME NEW j \in 1..Len(object)
       PROVE  /\ object'[j].watched = object[j].watched
              /\ object'[j].late = IF j = i THEN object[j].late \union T ELSE object[j].late
              /\ \A g \in File : object'[j].mtimes[g] = IF j = i /\ g = f THEN job[w].stat
                                                          ELSE object[j].mtimes[g]
  BY <1>7, <1>8, <1>9
<1>13. QED
  BY <1>3, <1>9, <1>10, <1>11, <1>12 DEF i, f, T

\* The sequence without its k-th element.
LEMMA Removed ==
    ASSUME NEW S, NEW s \in Seq(S), NEW k \in DOMAIN s
    PROVE  /\ RemoveAt(s, k) \in Seq(S) /\ Len(RemoveAt(s, k)) = Len(s) - 1
           /\ \A j \in 1..Len(s) - 1 :
                  RemoveAt(s, k)[j] = IF j < k THEN s[j] ELSE s[j + 1]
<1> DEFINE a == SubSeq(s, 1, k - 1)
           b == SubSeq(s, k + 1, Len(s))
<1>1. Len(s) \in Nat /\ DOMAIN s = 1..Len(s) /\ k \in 1..Len(s)
      /\ \A j \in 1..Len(s) : s[j] \in S
  BY LenProperties, ElementOfSeq
<1>2. a \in Seq(S) /\ Len(a) = k - 1 /\ \A j \in 1..k - 1 : a[j] = s[j]
  <2>1. 1 \in Int /\ k - 1 \in Int /\ \A j \in 1..k - 1 : s[j] \in S
    BY <1>1
  <2>2. /\ a \in Seq(S) /\ Len(a) = (IF 1 <= k - 1 THEN (k - 1) - 1 + 1 ELSE 0)
        /\ \A j \in 1..(k - 1) - 1 + 1 : a[j] = s[1 + j - 1]
    BY <2>1, SubSeqProperties
  <2> HIDE DEF a
  <2>3. QED
    BY <1>1, <2>2
<1>3. b \in Seq(S) /\ Len(b) = Len(s) - k /\ \A j \in 1..Len(s) - k : b[j] = s[k + j]
  <2>1. k + 1 \in Int /\ Len(s) \in Int /\ \A j \in k + 1..Len(s) : s[j] \in S
    BY <1>1
  <2>2. /\ b \in Seq(S) /\ Len(b) = (IF k + 1 <= Len(s) THEN Len(s) - (k + 1) + 1 ELSE 0)
        /\ \A j \in 1..Len(s) - (k + 1) + 1 : b[j] = s[(k + 1) + j - 1]
    BY <2>1, SubSeqProperties
  <2> HIDE DEF b
  <2>3. Len(s) - (k + 1) + 1 = Len(s) - k /\ \A j \in 1..Len(s) - k : (k + 1) + j - 1 = k + j
    BY <1>1
  <2>4. Len(b) = Len(s) - k
    BY <1>1, <2>2, <2>3
  <2>5. \A j \in 1..Len(s) - k : b[j] = s[k + j]
    BY <2>2, <2>3, Zenon
  <2>6. QED
    BY <2>2, <2>4, <2>5
<1>4. RemoveAt(s, k) = a \o b
  BY DEF RemoveAt
<1> HIDE DEF a, b
<1>5. /\ a \o b \in Seq(S) /\ Len(a \o b) = Len(a) + Len(b)
      /\ \A j \in 1..Len(a) + Len(b) : (a \o b)[j] = IF j <= Len(a) THEN a[j] ELSE b[j - Len(a)]
  BY <1>2, <1>3, ConcatProperties
<1>6. \A j \in 1..Len(s) - 1 : (a \o b)[j] = IF j < k THEN s[j] ELSE s[j + 1]
  <2>1. TAKE j \in 1..Len(s) - 1
  <2>2. CASE j < k
    <3>1. j \in 1..k - 1 /\ j <= Len(a) /\ j \in 1..Len(a) + Len(b)
      BY <1>1, <1>2, <1>3, <2>2
    <3>2. QED
      BY <1>2, <1>5, <2>2, <3>1
  <2>3. CASE ~(j < k)
    <3>1. /\ j - Len(a) \in 1..Len(s) - k /\ ~(j <= Len(a)) /\ j \in 1..Len(a) + Len(b)
          /\ k + (j - Len(a)) = j + 1
      BY <1>1, <1>2, <1>3, <2>3
    <3>2. QED
      BY <1>3, <1>5, <2>3, <3>1
  <2>4. QED
    BY <2>2, <2>3
<1>7. QED
  BY <1>1, <1>2, <1>3, <1>4, <1>5, <1>6

LEMMA EvictedIs ==
    ASSUME NEW S, NEW s \in Seq(S), Len(s) <= MaxIndexes
    PROVE  /\ Evicted(s) \in Seq(S) /\ Len(Evicted(s)) + 1 <= MaxIndexes
           /\ \E d \in {0, 1} : \A j \in 1..Len(Evicted(s)) :
                  j + d \in 1..Len(s) /\ Evicted(s)[j] = s[j + d]
<1>1. Len(s) \in Nat /\ MaxIndexes \in Nat /\ MaxIndexes >= 1
  BY LenProperties, ConstantsAssumption
<1>2. CASE Len(s) >= MaxIndexes
  <2>1. Evicted(s) = Tail(s) /\ s # <<>>
    BY <1>1, <1>2 DEF Evicted
  <2>2. /\ Tail(s) \in Seq(S) /\ Len(Tail(s)) = Len(s) - 1
        /\ \A j \in 1..Len(Tail(s)) : Tail(s)[j] = s[j + 1]
    BY <2>1, HeadTailProperties
  <2>3. \A j \in 1..Len(Tail(s)) : j + 1 \in 1..Len(s)
    BY <1>1, <2>2
  <2>4. Len(Tail(s)) + 1 <= MaxIndexes
    BY <1>1, <2>2
  <2>5. QED
    BY <2>1, <2>2, <2>3, <2>4
<1>3. CASE ~(Len(s) >= MaxIndexes)
  <2>1. Evicted(s) = s
    BY <1>3 DEF Evicted
  <2>2. \A j \in 1..Len(s) : j + 0 \in 1..Len(s) /\ s[j] = s[j + 0]
    BY <1>1
  <2>3. Len(s) + 1 <= MaxIndexes
    BY <1>1, <1>3
  <2>4. QED
    BY <2>1, <2>2, <2>3
<1>4. QED
  BY <1>2, <1>3

\* Only the looked-up index is new to the table, and if it was not in it, it is
\* a new one.
\* Where the places of a table come from when the k-th entry goes to the end.
MovedFrom(p, k, m) == IF p = m THEN k ELSE IF p < k THEN p ELSE p + 1

LEMMA MovedOnce ==
    ASSUME NEW m \in Nat, NEW k \in 1..m, NEW p \in 1..m, NEW q \in 1..m
    PROVE  /\ MovedFrom(p, k, m) \in 1..m
           /\ MovedFrom(p, k, m) = MovedFrom(q, k, m) => p = q
<1>1. CASE p = m
  BY <1>1 DEF MovedFrom
<1>2. CASE p # m /\ p < k
  BY <1>2 DEF MovedFrom
<1>3. CASE p # m /\ ~(p < k)
  BY <1>3 DEF MovedFrom
<1>4. QED
  BY <1>1, <1>2, <1>3

LEMMA LookedUp ==
    ASSUME DiskOK, ObjectsOK, TableOK, NEW r \in Repo, NEW i, GetOrCreate(r, i),
           saves' = saves, mtime' = mtime, row' = row
    PROVE  /\ ObjectsOK' /\ TableOK' /\ Onward
           /\ i \in 1..Len(object') /\ object'[i].repo = r
           /\ \A j \in 1..Len(object) : object'[j] = object[j]
           /\ \A k \in DOMAIN table' : \/ \E j \in DOMAIN table : table'[k] = table[j]
                                       \/ table'[k] = i /\ i \notin 1..Len(object)
           /\ \/ i \in 1..Len(object) /\ object' = object
              \/ /\ Len(object') = Len(object) + 1 /\ i = Len(object')
                 /\ object'[i] = New(r)
<1> DEFINE n == Len(object)
           S == 1..n
<1>1. /\ n \in Nat /\ DOMAIN object = 1..n
      /\ \A j \in 1..n : object[j] \in Object
  BY ObjectFacts
<1>2. /\ table \in Seq(S) /\ Len(table) \in Nat /\ DOMAIN table = 1..Len(table)
      /\ \A k \in 1..Len(table) : table[k] \in S
  BY LenProperties, ElementOfSeq DEF TableOK
<1>3. Object' = Object
  BY DEF Object
<1>0. \A j, k \in 1..Len(table) : object[table[j]].repo = object[table[k]].repo => j = k
  BY <1>2 DEF TableOK, At
<1>4. CASE \E k \in Places(r) : /\ i = At(k)
                                /\ table' = Append(RemoveAt(table, k), i)
                                /\ UNCHANGED object
  <2>1. PICK k \in Places(r) : /\ i = At(k)
                               /\ table' = Append(RemoveAt(table, k), i)
                               /\ UNCHANGED object
    BY <1>4
  <2>2. k \in DOMAIN table /\ object[table[k]].repo = r /\ i = table[k] /\ i \in S
    BY <1>2, <2>1 DEF Places, At
  <2> DEFINE a == RemoveAt(table, k)
             m == Len(table)
  <2> HIDE DEF a, S
  <2>3. /\ a \in Seq(S) /\ Len(a) = m - 1
        /\ \A j \in 1..m - 1 : a[j] = IF j < k THEN table[j] ELSE table[j + 1]
    BY <1>2, <2>2, Removed DEF a
  <2>4. /\ Append(a, i) \in Seq(S) /\ Len(Append(a, i)) = Len(a) + 1
        /\ \A j \in 1..Len(a) : Append(a, i)[j] = a[j]
        /\ Append(a, i)[Len(a) + 1] = i
    BY <2>2, <2>3, AppendProperties
  <2>5. table' = Append(a, i) /\ object' = object
    BY <2>1 DEF a
  <2> DEFINE o(p) == MovedFrom(p, k, m)
  <2>15. m \in Nat /\ m >= 1 /\ Len(a) + 1 = m
    BY <1>2, <2>2, <2>3
  <2>6. Len(table') = m /\ table' \in Seq(S) /\ DOMAIN table' = 1..m
    <3>1. Len(table') = m /\ table' \in Seq(S)
      BY <2>4, <2>5, <2>15
    <3>2. QED
      BY <3>1, LenProperties
  <2>7. /\ \A p \in 1..m : o(p) \in 1..m
        /\ \A p, q \in 1..m : o(p) = o(q) => p = q
    <3>1. m \in Nat /\ k \in 1..m
      BY <1>2, <2>2
    <3> HIDE DEF m
    <3>2. QED
      BY <3>1, MovedOnce
  <2>8. \A p \in 1..m : table'[p] = table[o(p)]
    <3>1. TAKE p \in 1..m
    <3>2. CASE p = m
      <4>1. o(p) = k
        BY <3>2 DEF MovedFrom
      <4>2. table'[p] = i
        BY <2>4, <2>5, <2>15, <3>2
      <4>3. QED
        BY <2>2, <4>1, <4>2
    <3>3. CASE p # m
      <4>1. p \in 1..m - 1
        BY <2>15, <3>3
      <4>2. o(p) = IF p < k THEN p ELSE p + 1
        BY <3>3 DEF MovedFrom
      <4>3. table'[p] = a[p]
        BY <2>3, <2>4, <2>5, <4>1
      <4>4. QED
        BY <2>3, <4>1, <4>2, <4>3
    <3>4. QED
      BY <3>2, <3>3
  <2> HIDE DEF o, m
  <2>9. TableOK'
    <3>1. \A p, q \in 1..m : object[table'[p]].repo = object[table'[q]].repo => p = q
      <4>1. TAKE p, q \in 1..m
      <4>2. HAVE object[table'[p]].repo = object[table'[q]].repo
      <4>3. object[table[o(p)]].repo = object[table[o(q)]].repo
        BY <2>8, <4>2
      <4>4. o(p) \in 1..Len(table) /\ o(q) \in 1..Len(table)
        BY <2>7 DEF m
      <4>5. o(p) = o(q)
        BY <1>0, <4>3, <4>4
      <4>6. QED
        BY <2>7, <4>5
    <3>2. QED
      BY <2>5, <2>6, <3>1 DEF TableOK, At, m, S
  <2>10. \A p \in DOMAIN table' : \E j \in DOMAIN table : table'[p] = table[j]
    BY <1>2, <2>6, <2>7, <2>8 DEF m
  <2>11. ObjectsOK' /\ Onward
    BY <1>3, <2>5, Standing DEF ObjectsOK
  <2>12. i \in 1..Len(object)
    BY <2>2 DEF S
  <2>13. QED
    BY <2>2, <2>5, <2>9, <2>10, <2>11, <2>12
<1>5. CASE /\ Places(r) = {}
           /\ i = n + 1
           /\ table' = Append(Evicted(table), i)
           /\ object' = Append(object, New(r))
  <2>1. New(r) \in Object /\ New(r).repo = r
    BY ConstantsAssumption DEF New, Object, DiskOK
  <2>2. /\ object' \in Seq(Object) /\ Len(object') = n + 1
        /\ \A j \in 1..n : object'[j] = object[j]
        /\ object'[n + 1] = New(r)
    BY <1>5, <2>1, AppendProperties DEF ObjectsOK
  <2>3. \A k \in 1..Len(table) : object[table[k]].repo # r
    BY <1>2, <1>5 DEF Places, At
  <2> DEFINE e == Evicted(table)
             T == 1..n + 1
  <2>4. /\ e \in Seq(S) /\ Len(e) + 1 <= MaxIndexes
        /\ \E d \in {0, 1} : \A j \in 1..Len(e) :
               j + d \in 1..Len(table) /\ e[j] = table[j + d]
    BY <1>2, EvictedIs DEF TableOK
  <2>5. PICK d \in {0, 1} : \A j \in 1..Len(e) :
               j + d \in 1..Len(table) /\ e[j] = table[j + d]
    BY <2>4
  <2>6. S \subseteq T /\ i \in T
    BY <1>1, <1>5
  <2> HIDE DEF e, S, T
  <2>7. e \in Seq(T)
    BY <2>4, <2>6, SeqMonotonic
  <2>8. /\ Append(e, i) \in Seq(T) /\ Len(Append(e, i)) = Len(e) + 1
        /\ \A j \in 1..Len(e) : Append(e, i)[j] = e[j]
        /\ Append(e, i)[Len(e) + 1] = i
    BY <2>6, <2>7, AppendProperties
  <2>9. table' = Append(e, i) /\ Len(e) \in Nat
    BY <1>5, <2>4, LenProperties DEF e
  <2>10. DOMAIN table' = 1..Len(e) + 1 /\ Len(table') = Len(e) + 1
    BY <2>8, <2>9, LenProperties
  <2>11. \A p \in 1..Len(e) : /\ p + d \in 1..Len(table)
                              /\ table'[p] = table[p + d] /\ table[p + d] \in 1..n
                              /\ object'[table'[p]].repo = object[table[p + d]].repo
                              /\ object'[table'[p]].repo # r
    BY <1>2, <2>2, <2>3, <2>5, <2>8, <2>9 DEF S
  <2>12. object'[table'[Len(e) + 1]].repo = r
    BY <1>5, <2>1, <2>2, <2>8, <2>9
  <2>13. ASSUME NEW p \in 1..Len(e) + 1, NEW q \in 1..Len(e) + 1,
                object'[table'[p]].repo = object'[table'[q]].repo
         PROVE  p = q
    <3>1. CASE p \in 1..Len(e) /\ q \in 1..Len(e)
      <4>1. p + d = q + d
        BY <1>0, <2>11, <2>13, <3>1
      <4>2. QED
        BY <2>9, <3>1, <4>1
    <3>2. CASE p = Len(e) + 1 \/ q = Len(e) + 1
      BY <2>9, <2>11, <2>12, <2>13, <3>2
    <3>3. QED
      BY <2>9, <3>1, <3>2
  <2>14. TableOK'
    BY <2>2, <2>4, <2>8, <2>9, <2>10, <2>13 DEF TableOK, At, T
  <2>15. ObjectsOK' /\ Onward
    BY <1>1, <1>3, <2>2 DEF ObjectsOK, Onward
  <2>16. \A p \in DOMAIN table' : \/ \E j \in DOMAIN table : table'[p] = table[j]
                                  \/ table'[p] = i /\ i \notin 1..Len(object)
    <3>1. TAKE p \in DOMAIN table'
    <3>2. CASE p \in 1..Len(e)
      BY <1>2, <2>11, <3>2
    <3>3. CASE p = Len(e) + 1
      BY <1>1, <1>5, <2>8, <2>9, <3>3
    <3>4. QED
      BY <2>9, <2>10, <3>2, <3>3
  <2>17. i \in 1..Len(object') /\ object'[i] = New(r)
    BY <1>1, <1>5, <2>2
  <2>18. QED
    BY <1>5, <2>1, <2>2, <2>14, <2>15, <2>16, <2>17
<1>6. QED
  BY <1>4, <1>5 DEF GetOrCreate

\* Only the index that is watched from now on changes.
LEMMA Watched ==
    ASSUME DiskOK, ObjectsOK, WatchOK, NEW i \in DOMAIN object, StartWatching(i),
           saves' = saves, mtime' = mtime, built' = built
    PROVE  /\ ObjectsOK' /\ WatchOK' /\ Onward /\ Len(object') = Len(object)
           /\ \A j \in 1..Len(object) : /\ object'[j].repo = object[j].repo
                                        /\ object'[j].mtimes = object[j].mtimes
                                        /\ j # i => object'[j] = object[j]
           /\ object'[i].late = IF object[i].watched THEN object[i].late
                                ELSE Stale(i) \ Expected(i)
<1> DEFINE late == IF object[i].watched THEN object[i].late
                   ELSE Stale(i) \ Expected(i)
           o == [object[i] EXCEPT !.watched = TRUE, !.late = late]
<1>1. /\ Len(object) \in Nat /\ DOMAIN object = 1..Len(object)
      /\ \A j \in 1..Len(object) : object[j] \in Object
  BY ObjectFacts
<1>2. object' = [object EXCEPT ![i] = o]
  BY DEF StartWatching
<1>3. late \in SUBSET File
  BY <1>1 DEF Stale, Object
<1> HIDE DEF late
<1>4. o \in Object /\ o.repo = object[i].repo /\ o.mtimes = object[i].mtimes /\ o.late = late
  BY <1>1, <1>3 DEF Object
<1> HIDE DEF o
<1>5. /\ object' \in Seq(Object) /\ Len(object') = Len(object)
      /\ \A j \in 1..Len(object) : object'[j] = IF j = i THEN o ELSE object[j]
  BY <1>1, <1>2, <1>4, ExceptSeq DEF ObjectsOK
<1>6. \A j \in 1..Len(object) : /\ object'[j].repo = object[j].repo
                                /\ object'[j].mtimes = object[j].mtimes
                                /\ j # i => object'[j] = object[j]
  BY <1>4, <1>5
<1>7. Onward
  BY <1>1, <1>5, <1>6 DEF Onward
<1>8. Object' = Object
  BY DEF Object
<1>9. ObjectsOK'
  BY <1>5, <1>8 DEF ObjectsOK
<1>10. /\ observers' = observers \union {object[i].repo} /\ queue' = queue
       /\ running' \in {running, running \union {object[i].repo}}
  BY DEF StartWatching
<1>11. object[i].repo \in Repo
  BY <1>1 DEF Object
<1>12. DOMAIN object' = 1..Len(object)
  BY <1>5, LenProperties
<1>13. \A j \in 1..Len(object) : object'[j].watched => object'[j].repo \in observers'
  BY <1>1, <1>6, <1>10 DEF WatchOK
<1>14. WatchOK'
  BY <1>10, <1>11, <1>12, <1>13 DEF WatchOK
<1>15. QED
  BY <1>1, <1>4, <1>5, <1>6, <1>7, <1>9, <1>14 DEF late

\* A save takes the file from what is late, and adds a version.
LEMMA Saved ==
    ASSUME DiskOK, ObjectsOK, NEW r \in Repo, NEW f \in File, SaveFile(r, f)
    PROVE  /\ DiskOK' /\ ObjectsOK' /\ Onward /\ Len(object') = Len(object)
           /\ \A j \in 1..Len(object) :
                  /\ object'[j].repo = object[j].repo
                  /\ object'[j].mtimes = object[j].mtimes
                  /\ object'[j].watched = object[j].watched
                  /\ object'[j].late = IF object[j].repo = r THEN object[j].late \ {f}
                                                             ELSE object[j].late
<1>1. /\ Len(object) \in Nat /\ DOMAIN object = 1..Len(object)
      /\ \A j \in 1..Len(object) : object[j] \in Object
  BY ObjectFacts
<1>2. saves \in Nat /\ saves' = saves + 1 /\ saves' \in 0..MaxSaves
      /\ 0..saves \subseteq 0..saves' /\ saves' \in 0..saves'
  BY ConstantsAssumption DEF SaveFile, DiskOK
<1>3. mtime' \in [Repo -> [File -> 0..saves']]
  <2>1. mtime' = [mtime EXCEPT ![r] = [mtime[r] EXCEPT ![f] = saves']]
    BY <1>2 DEF SaveFile
  <2>2. mtime \in [Repo -> [File -> 0..saves']]
    BY <1>2 DEF DiskOK
  <2>3. [mtime[r] EXCEPT ![f] = saves'] \in [File -> 0..saves']
    BY <1>2, <2>2
  <2>4. QED
    BY <2>1, <2>2, <2>3
<1>4. row' \in [Repo -> [File -> 0..saves']]
  BY <1>2 DEF SaveFile, DiskOK
<1>5. object' = [j \in 1..Len(object) |->
                    IF object[j].repo = r THEN [object[j] EXCEPT !.late = @ \ {f}]
                                          ELSE object[j]]
  BY <1>1 DEF SaveFile
<1>6. ASSUME NEW j \in 1..Len(object)
      PROVE  /\ object'[j] \in Object'
             /\ object'[j].repo = object[j].repo
             /\ object'[j].mtimes = object[j].mtimes
             /\ object'[j].watched = object[j].watched
             /\ object'[j].late = IF object[j].repo = r THEN object[j].late \ {f}
                                                        ELSE object[j].late
  <2>1. object[j] \in [repo : Repo, mtimes : [File -> 0..saves'], watched : BOOLEAN,
                       late : SUBSET File]
    BY <1>1, <1>2 DEF Object
  <2>2. object'[j] = IF object[j].repo = r THEN [object[j] EXCEPT !.late = @ \ {f}]
                                           ELSE object[j]
    BY <1>5
  <2>3. QED
    BY <2>1, <2>2 DEF Object
<1>7. ObjectsOK' /\ Len(object') = Len(object)
  <2>1. object' \in [1..Len(object) -> Object']
    BY <1>5, <1>6
  <2>2. QED
    BY <1>1, <2>1 DEF ObjectsOK
<1>8. Onward
  <2>1. Len(object') \in Nat /\ Len(object) <= Len(object')
    BY <1>1, <1>7
  <2>2. \A j \in 1..Len(object) :
            object'[j].repo = object[j].repo /\ object'[j].mtimes = object[j].mtimes
    BY <1>6
  <2>3. QED
    BY <2>1, <2>2 DEF Onward
<1>9. QED
  BY <1>2, <1>3, <1>4, <1>6, <1>7, <1>8 DEF DiskOK

\* One request moves on.
LEMMA RequestMoves ==
    ASSUME ObjectsOK, ReqOK, Onward, NEW t \in Thread, NEW q \in Request,
           req' = [req EXCEPT ![t] = q], q.idx \in 0..Len(object'),
           q.pc # "idle" => q.repo \in Repo,
           q.pc \in Busy => q.idx # 0 /\ q.active \in File /\ object'[q.idx].repo = q.repo
    PROVE  ReqOK'
<1>1. /\ Len(object) \in Nat /\ Len(object') \in Nat
      /\ \A i \in 1..Len(object) : i \in 1..Len(object') /\ object'[i].repo = object[i].repo
  BY ObjectFacts DEF Onward
<1>2. req' \in [Thread -> Request] /\ \A u \in Thread : req'[u] = IF u = t THEN q ELSE req[u]
  BY DEF ReqOK
<1>3. ASSUME NEW u \in Thread
      PROVE  /\ req[u].idx \in 0..Len(object')
             /\ req[u].idx # 0 => object'[req[u].idx].repo = object[req[u].idx].repo
  BY <1>1 DEF ReqOK
<1>4. QED
  BY <1>2, <1>3 DEF ReqOK

\* The steps that change no index and no queue.
LEMMA QuietStep ==
    ASSUME Types, UNCHANGED <<disk, index, watching, unsettled>>, built' \subseteq Repo, ReqOK',
           job' \in [Worker -> Job],
           \A w \in Worker : job'[w].pc # "none" =>
               /\ job'[w].idx \in 1..Len(object) /\ job'[w].file \in File
               /\ job'[w].stat \in 1..saves
    PROVE  Types'
<1>1. Onward /\ DiskOK' /\ ObjectsOK' /\ WatchOK'
  <2>1. Object' = Object
    BY DEF Object, disk
  <2>2. QED
    BY <2>1, Standing DEF Types, DiskOK, ObjectsOK, WatchOK, disk, index, watching
<1>2. TableOK'
  BY <1>1, TableKept DEF Types, index
<1>3. DiskOK /\ ObjectsOK /\ saves' \in {saves, saves + 1} /\ unsettled' \in [Repo -> SUBSET File]
  BY DEF Types, JobsOK, disk
<1>4. JobsOK'
  BY <1>1, <1>3, JobsMove
<1>5. QED
  BY <1>1, <1>2, <1>4 DEF Types

LEMMA RequestFacts ==
    ASSUME ReqOK, NEW t \in Thread
    PROVE  /\ req[t] \in Request /\ DOMAIN req = Thread
           /\ req[t].pc # "idle" => req[t].repo \in Repo
           /\ req[t].idx \in 0..Len(object)
           /\ req[t].pc \in Busy => /\ req[t].idx \in 1..Len(object) /\ req[t].active \in File
                                    /\ object[req[t].idx].repo = req[t].repo
BY DEF ReqOK

LEMMA IdleIs == Idle \in Request /\ Idle.idx = 0 /\ Idle.pc = "idle"
BY DEF Idle, Request

\* What a request asks for is a version.
LEMMA VersionsAre ==
    ASSUME DiskOK, JobsOK, NEW r \in Repo, NEW f \in File \union {NoFile}
    PROVE  Versions(r, f) \subseteq Nat
<1>1. f # NoFile => mtime[r][f] \in Nat
  BY DEF DiskOK
<1>2. \A w \in Worker : job[w].stat \in Nat
  BY DEF JobsOK, Job
<1>3. QED
  BY <1>1, <1>2 DEF Versions, Refreshing

LEMMA TypesStep == Types /\ [Next]_vars => Types'
<1> SUFFICES ASSUME Types, [Next]_vars PROVE Types'
  OBVIOUS
<1>0. /\ DiskOK /\ ObjectsOK /\ TableOK /\ WatchOK /\ ReqOK /\ JobsOK
      /\ Len(object) \in Nat /\ DOMAIN object = 1..Len(object) /\ saves \in Nat
      /\ \A i \in 1..Len(object) : object[i] \in Object
      /\ unsettled \in [Repo -> SUBSET File]
      /\ \A w \in Worker : job[w].pc # "none" =>
             job[w].idx \in 1..Len(object) /\ job[w].file \in File /\ job[w].stat \in 1..saves
  BY ObjectFacts, ConstantsAssumption DEF Types, DiskOK, JobsOK
<1>a. "idle" \notin Busy /\ "walkers" \notin Busy
  BY DEF Busy
<1>b. ASSUME UNCHANGED <<disk, index, watching, job, unsettled>>, built' \subseteq Repo, ReqOK'
      PROVE  Types'
  BY <1>0, <1>b, QuietStep DEF JobsOK
<1>1. CASE UNCHANGED vars
  <2>1. ReqOK'
    BY <1>0, <1>1, Standing, RequestsKept DEF vars, index
  <2>2. QED
    BY <1>0, <1>1, <2>1, <1>b DEF vars, WatchOK
<1>2. ASSUME NEW r \in Repo, NEW f \in File, SaveFile(r, f) PROVE Types'
  <2>1. /\ DiskOK' /\ ObjectsOK' /\ Onward /\ Len(object') = Len(object)
        /\ \A j \in 1..Len(object) : /\ object'[j].repo = object[j].repo
                                     /\ object'[j].watched = object[j].watched
    BY <1>0, <1>2, Saved
  <2>2. TableOK' /\ ReqOK'
    BY <1>0, <1>2, <2>1, TableKept, RequestsKept DEF SaveFile
  <2>3. DOMAIN object' = 1..Len(object)
    BY <2>1, LenProperties DEF ObjectsOK
  <2>4. queue' \in [Repo -> SUBSET File]
    BY <1>0, <1>2 DEF SaveFile, WatchOK
  <2>5. WatchOK'
    BY <1>0, <1>2, <2>1, <2>3, <2>4 DEF SaveFile, WatchOK
  <2>6. saves' \in {saves, saves + 1} /\ job' = job
    BY <1>2 DEF SaveFile
  <2>7. unsettled' \in [Repo -> SUBSET File]
    <3>1. PICK S \in {unsettled[r], unsettled[r] \union {f}} :
              unsettled' = [unsettled EXCEPT ![r] = S]
      BY <1>2 DEF SaveFile
    <3>2. S \in SUBSET File
      BY <1>0, <3>1
    <3>3. QED
      BY <1>0, <3>1, <3>2
  <2>8. JobsOK'
    BY <1>0, <2>1, <2>6, <2>7, JobsKept
  <2>9. QED
    BY <2>1, <2>2, <2>5, <2>8 DEF Types
<1>3. ASSUME NEW r \in Repo, NEW f \in File, DeleteFile(r, f) PROVE Types'
  <2>1. /\ saves' = saves /\ row' = row /\ object' = object /\ table' = table
        /\ UNCHANGED <<observers, running, queue, built, job, unsettled>>
    BY <1>3 DEF DeleteFile, index, watching
  <2>2. Object' = Object /\ Onward
    BY <1>0, <2>1, Standing DEF Object
  <2>3. mtime' \in [Repo -> [File -> 0..saves]]
    <3>1. mtime' = [mtime EXCEPT ![r] = [mtime[r] EXCEPT ![f] = 0]] /\ 0 \in 0..saves
      BY <1>0, <1>3, ConstantsAssumption DEF DeleteFile, DiskOK
    <3>2. [mtime[r] EXCEPT ![f] = 0] \in [File -> 0..saves]
      BY <1>0, <3>1 DEF DiskOK
    <3>3. QED
      BY <1>0, <3>1, <3>2 DEF DiskOK
  <2>4. DiskOK' /\ ObjectsOK' /\ WatchOK'
    BY <1>0, <2>1, <2>2, <2>3 DEF DiskOK, ObjectsOK, WatchOK
  <2>5. TableOK'
    BY <1>0, <2>1, <2>2, TableKept
  <2>6. ASSUME NEW t \in Thread
        PROVE  /\ req'[t] \in Request
               /\ req'[t].idx = req[t].idx /\ req'[t].pc = req[t].pc
               /\ req'[t].repo = req[t].repo /\ req'[t].active = req[t].active
    <3>1. req'[t] = req[t] \/ req'[t] = [req[t] EXCEPT !.asked = 0]
      BY <1>3 DEF DeleteFile
    <3>2. QED
      BY <1>0, <3>1, RequestFacts DEF Request
  <2>7. req' \in [Thread -> Request]
    BY <1>3, <2>6 DEF DeleteFile
  <2>8. ReqOK'
    BY <1>0, <2>1, <2>6, <2>7 DEF ReqOK
  <2>9. saves' \in {saves, saves + 1} /\ unsettled' \in [Repo -> SUBSET File] /\ job' = job
    BY <1>0, <2>1
  <2>10. JobsOK'
    BY <1>0, <2>2, <2>9, JobsKept
  <2>11. QED
    BY <2>4, <2>5, <2>8, <2>10 DEF Types
<1>4. ASSUME NEW t \in Thread, NEW r \in Repo, NEW f \in File \union {NoFile},
             BeginRequest(t, r, f)
      PROVE  Types'
  <2>1. PICK v \in Versions(r, f) :
            req' = [req EXCEPT ![t] = [Idle EXCEPT !.pc = "walkers", !.repo = r,
                                                  !.active = f, !.asked = v]]
    BY <1>4 DEF BeginRequest
  <2> DEFINE q == [Idle EXCEPT !.pc = "walkers", !.repo = r, !.active = f, !.asked = v]
  <2>2. v \in Nat
    BY <1>0, VersionsAre
  <2>3. q \in Request /\ q.idx = 0 /\ q.pc = "walkers" /\ q.repo = r
    BY <2>2 DEF Request, Idle
  <2>4. req' = [req EXCEPT ![t] = q] /\ UNCHANGED <<disk, index, watching, job, built, unsettled>>
    BY <1>4, <2>1 DEF BeginRequest
  <2> HIDE DEF q
  <2>5. Onward /\ 0 \in 0..Len(object')
    BY <1>0, <2>4, Standing DEF index
  <2>6. ReqOK'
    BY <1>0, <1>a, <2>3, <2>4, <2>5, RequestMoves
  <2>7. QED
    BY <1>0, <1>b, <2>4, <2>6 DEF WatchOK
<1>5. ASSUME NEW t \in Thread, req' = [req EXCEPT ![t] = Idle],
             UNCHANGED <<disk, index, watching, job, built, unsettled>>
      PROVE  Types'
  <2>1. Onward /\ 0 \in 0..Len(object')
    BY <1>0, <1>5, Standing DEF index
  <2>2. ReqOK'
    BY <1>0, <1>a, <1>5, <2>1, IdleIs, RequestMoves
  <2>3. QED
    BY <1>0, <1>5, <1>b, <2>2 DEF WatchOK
<1>6. ASSUME NEW t \in Thread, LookUp(t) PROVE Types'
  <2> DEFINE r == req[t].repo
  <2>1. IsAt(t, "walkers") /\ req[t].active # NoFile
        /\ UNCHANGED <<saves, mtime, row, observers, running, queue, built, job, unsettled>>
    BY <1>6 DEF LookUp, disk, watching
  <2>2. r \in Repo /\ req[t] \in Request /\ req[t].active \in File
    BY <1>0, <2>1, RequestFacts DEF IsAt, Request
  <2>3. PICK i \in 1..Len(object) + 1 :
            /\ GetOrCreate(r, i)
            /\ \/ req' = [req EXCEPT ![t].pc = "scan", ![t].idx = i, ![t].todo = Scanned]
               \/ \E S \in Neighborhood(r, req[t].active) :
                      req' = [req EXCEPT ![t].pc = "refresh", ![t].idx = i, ![t].todo = S]
    BY <1>6 DEF LookUp
  <2>4. /\ ObjectsOK' /\ TableOK' /\ Onward
        /\ i \in 1..Len(object') /\ object'[i].repo = r
        /\ \A j \in 1..Len(object) : object'[j] = object[j]
        /\ \/ i \in 1..Len(object) /\ object' = object
           \/ /\ Len(object') = Len(object) + 1 /\ i = Len(object')
              /\ object'[i] = New(r)
    BY <1>0, <2>1, <2>2, <2>3, LookedUp
  <2>5. PICK pc \in {"scan", "refresh"}, S \in SUBSET File :
            req' = [req EXCEPT ![t] = [req[t] EXCEPT !.pc = pc, !.idx = i, !.todo = S]]
    <3>1. CASE req' = [req EXCEPT ![t].pc = "scan", ![t].idx = i, ![t].todo = Scanned]
      <4>1. Scanned \in SUBSET File
        BY ConstantsAssumption
      <4>2. req' = [req EXCEPT ![t] =
                       [req[t] EXCEPT !.pc = "scan", !.idx = i, !.todo = Scanned]]
        BY <3>1
      <4>3. QED
        BY <4>1, <4>2
    <3>2. ASSUME NEW S \in Neighborhood(r, req[t].active),
                 req' = [req EXCEPT ![t].pc = "refresh", ![t].idx = i, ![t].todo = S]
          PROVE  \E pc \in {"scan", "refresh"}, N \in SUBSET File :
                     req' = [req EXCEPT ![t] =
                                [req[t] EXCEPT !.pc = pc, !.idx = i, !.todo = N]]
      <4>1. S \in SUBSET File
        BY DEF Neighborhood
      <4>2. req' = [req EXCEPT ![t] =
                       [req[t] EXCEPT !.pc = "refresh", !.idx = i, !.todo = S]]
        BY <3>2
      <4>3. QED
        BY <4>1, <4>2
    <3>3. QED
      BY <2>3, <3>1, <3>2
  <2> DEFINE q == [req[t] EXCEPT !.pc = pc, !.idx = i, !.todo = S]
  <2>6. /\ q \in Request /\ q.idx = i /\ q.repo = r /\ q.active = req[t].active
        /\ i \in Nat /\ i # 0
    <3>1. i \in Nat /\ i # 0
      BY <1>0
    <3>2. pc \in {"idle", "walkers"} \union Busy
      BY DEF Busy
    <3>3. QED
      BY <2>2, <3>1, <3>2 DEF Request
  <2>7. req' = [req EXCEPT ![t] = q] /\ i \in 0..Len(object')
    BY <2>4, <2>5
  <2> HIDE DEF q
  <2>8. ReqOK'
    BY <1>0, <2>2, <2>4, <2>6, <2>7, RequestMoves
  <2>9. WatchOK'
    <3>1. \A j \in 1..Len(object') : object'[j].watched => object'[j].repo \in observers
      BY <1>0, <2>4 DEF WatchOK, New
    <3>2. DOMAIN object' = 1..Len(object')
      BY <2>4, LenProperties DEF ObjectsOK
    <3>3. QED
      BY <1>0, <2>1, <3>1, <3>2 DEF WatchOK
  <2>10. DiskOK'
    BY <1>0, <2>1 DEF DiskOK
  <2>11. saves' \in {saves, saves + 1} /\ unsettled' \in [Repo -> SUBSET File] /\ job' = job
    BY <1>0, <2>1
  <2>12. JobsOK'
    BY <1>0, <2>4, <2>11, JobsKept
  <2>13. QED
    BY <2>4, <2>8, <2>9, <2>10, <2>12 DEF Types
<1>7. ASSUME NEW t \in Thread, NEW f \in File, Refresh(t, f) PROVE Types'
  <2>1. /\ req[t].pc \in {"scan", "refresh"} /\ Stat(t, req[t].idx, f)
        /\ req' = [req EXCEPT ![t] = [req[t] EXCEPT !.todo = @ \ {f}]]
        /\ UNCHANGED <<disk, index, watching, built, unsettled>>
    BY <1>7 DEF Refresh
  <2>2. req[t].pc \in Busy
    BY <2>1 DEF Busy
  <2>3. req[t] \in Request /\ req[t].idx \in 1..Len(object) /\ req[t].active \in File
        /\ object[req[t].idx].repo = req[t].repo
    BY <1>0, <2>2, RequestFacts
  <2>4. object' = object /\ Onward
    BY <1>0, <2>1, Standing DEF index
  <2> DEFINE q == [req[t] EXCEPT !.todo = @ \ {f}]
  <2>5. /\ q \in Request /\ q.idx = req[t].idx /\ q.pc = req[t].pc /\ q.repo = req[t].repo
        /\ q.active = req[t].active
    BY <2>3 DEF Request
  <2>6. req' = [req EXCEPT ![t] = q]
    BY <2>1
  <2> HIDE DEF q
  <2>7. q.idx \in 0..Len(object') /\ q.idx # 0 /\ object'[q.idx].repo = q.repo /\ q.repo \in Repo
    <3>1. req[t].repo \in Repo
      BY <1>0, <2>3 DEF Object
    <3>2. QED
      BY <1>0, <2>3, <2>4, <2>5, <3>1
  <2>8. ReqOK'
    BY <1>0, <2>3, <2>4, <2>5, <2>6, <2>7, RequestMoves
  <2>9. t \in Worker
    BY DEF Worker
  <2>10. /\ job' \in [Worker -> Job]
         /\ \A w \in Worker : job'[w].pc # "none" =>
                /\ job'[w].idx \in 1..Len(object) /\ job'[w].file \in File
                /\ job'[w].stat \in 1..saves
    BY <1>0, <2>1, <2>3, <2>9, StatIs
  <2>11. QED
    BY <1>0, <2>1, <2>8, <2>10, QuietStep DEF WatchOK
<1>8. ASSUME NEW t \in Thread, NEW pc \in {"build", "rank"}, req[t].pc \in Busy,
             StartWatching(req[t].idx), req' = [req EXCEPT ![t].pc = pc],
             UNCHANGED <<disk, row, table, job, built, unsettled>>
      PROVE  Types'
  <2>1. req[t] \in Request /\ req[t].idx \in DOMAIN object /\ req[t].active \in File
        /\ object[req[t].idx].repo = req[t].repo
    BY <1>0, <1>8, RequestFacts
  <2>2. saves' = saves /\ mtime' = mtime /\ row' = row /\ table' = table /\ built' = built
    BY <1>8 DEF disk
  <2>3. /\ ObjectsOK' /\ WatchOK' /\ Onward /\ Len(object') = Len(object)
        /\ \A j \in 1..Len(object) : object'[j].repo = object[j].repo
    BY <1>0, <1>8, <2>1, <2>2, Watched
  <2>4. DiskOK' /\ TableOK'
    BY <1>0, <2>2, <2>3, TableKept DEF DiskOK
  <2> DEFINE q == [req[t] EXCEPT !.pc = pc]
  <2>5. q \in Request /\ q.idx = req[t].idx /\ q.repo = req[t].repo /\ q.active = req[t].active
    BY <2>1 DEF Request, Busy
  <2>6. req' = [req EXCEPT ![t] = q]
    BY <1>8
  <2> HIDE DEF q
  <2>7. q.idx \in 0..Len(object') /\ q.idx # 0 /\ object'[q.idx].repo = q.repo /\ q.repo \in Repo
    <3>1. object[req[t].idx] \in Object
      BY <1>0, <2>1
    <3>2. req[t].repo \in Repo
      BY <2>1, <3>1 DEF Object
    <3>3. QED
      BY <1>0, <2>1, <2>3, <2>5, <3>2
  <2>8. ReqOK'
    BY <1>0, <2>1, <2>3, <2>5, <2>6, <2>7, RequestMoves
  <2>9. saves' \in {saves, saves + 1} /\ unsettled' \in [Repo -> SUBSET File] /\ job' = job
    BY <1>0, <1>8, <2>2
  <2>10. JobsOK'
    BY <1>0, <2>3, <2>9, JobsKept
  <2>11. QED
    BY <2>3, <2>4, <2>8, <2>10 DEF Types
<1>9. ASSUME NEW t \in Thread, NEW pc \in {"docs", "rank"}, req[t].pc \in Busy,
             NEW S \in SUBSET File, req' = [req EXCEPT ![t].pc = pc, ![t].todo = S],
             UNCHANGED <<disk, index, watching, job, unsettled>>, built' \subseteq Repo
      PROVE  Types'
  <2>1. req[t] \in Request /\ req[t].idx \in 1..Len(object) /\ req[t].active \in File
        /\ object[req[t].idx].repo = req[t].repo /\ object[req[t].idx] \in Object
    BY <1>0, <1>9, RequestFacts
  <2> DEFINE q == [req[t] EXCEPT !.pc = pc, !.todo = S]
  <2>2. q \in Request /\ q.idx = req[t].idx /\ q.repo = req[t].repo /\ q.active = req[t].active
    BY <2>1 DEF Request, Busy
  <2>3. req' = [req EXCEPT ![t] = q] /\ object' = object /\ Onward
    BY <1>0, <1>9, Standing DEF index
  <2>4. req[t].repo \in Repo
    BY <2>1 DEF Object
  <2> HIDE DEF q
  <2>5. q.idx \in 0..Len(object') /\ q.idx # 0 /\ object'[q.idx].repo = q.repo
    BY <1>0, <2>1, <2>2, <2>3
  <2>6. ReqOK'
    BY <1>0, <2>1, <2>2, <2>3, <2>4, <2>5, RequestMoves
  <2>7. QED
    BY <1>9, <1>b, <2>6
<1>10. ASSUME NEW t \in Thread, RefreshFails(t) PROVE Types'
  <2>1. /\ job' = [job EXCEPT ![t] = NoJob] /\ req' = [req EXCEPT ![t] = Idle]
        /\ UNCHANGED <<disk, index, watching, built, unsettled>>
    BY <1>10 DEF RefreshFails
  <2>2. Onward /\ 0 \in 0..Len(object')
    BY <1>0, <2>1, Standing DEF index
  <2>3. ReqOK'
    BY <1>0, <1>a, <2>1, <2>2, IdleIs, RequestMoves
  <2>4. t \in Worker
    BY DEF Worker
  <2>5. /\ job' \in [Worker -> Job] /\ job'[t].pc = "none"
        /\ \A v \in Worker : v # t => job'[v] = job[v]
    BY <1>0, <2>1, <2>4, JobEnds
  <2>6. \A v \in Worker : job'[v].pc # "none" =>
            /\ job'[v].idx \in 1..Len(object) /\ job'[v].file \in File
            /\ job'[v].stat \in 1..saves
    <3>1. job[t].pc # "none"
      BY <1>10 DEF RefreshFails, MayRaise
    <3>2. QED
      BY <1>0, <2>4, <2>5, <3>1, OneJob
  <2>7. QED
    BY <1>0, <2>1, <2>3, <2>5, <2>6, QuietStep DEF WatchOK
<1>11. ASSUME NEW t \in Thread, Step(t) PROVE Types'
  <2>1. CASE AnswerWithoutIndex(t) \/ Rank(t) \/ BuildFails(t) \/ RankFails(t)
    BY <1>5, <2>1 DEF AnswerWithoutIndex, Rank, BuildFails, RankFails
  <2>2. CASE EndScan(t)
    BY <1>8, <2>2 DEF EndScan, IsAt, Busy
  <2>3. CASE EndRefresh(t)
    BY <1>8, <2>3 DEF EndRefresh, IsAt, Busy
  <2>4. CASE BuildStart(t)
    <3>1. Known(req[t].idx) \in SUBSET File
      BY DEF Known
    <3>2. req[t].pc \in Busy /\ built' \subseteq Repo
      BY <1>0, <2>4 DEF BuildStart, IsAt, Busy, WatchOK
    <3>3. QED
      BY <1>9, <2>4, <3>1, <3>2 DEF BuildStart
  <2>5. CASE BuildEnd(t)
    <3>1. req[t].pc \in Busy /\ {} \in SUBSET File
      BY <2>5 DEF BuildEnd, IsAt, Busy
    <3>2. req[t].repo \in Repo
      BY <1>0, <1>a, <3>1, RequestFacts
    <3>3. built' \subseteq Repo
      BY <1>0, <2>5, <3>2 DEF BuildEnd, WatchOK
    <3>4. QED
      BY <1>9, <2>5, <3>1, <3>3 DEF BuildEnd
  <2>6. QED
    BY <1>6, <1>7, <1>10, <1>11, <2>1, <2>2, <2>3, <2>4, <2>5 DEF Step
<1>12. ASSUME NEW w \in Worker, Skip(w) \/ Reindex(w) PROVE Types'
  <2>1. job[w].pc = "compare" /\ UNCHANGED <<disk, index, watching, built, req, unsettled>>
    BY <1>12 DEF Skip, Reindex
  <2>2. ReqOK'
    BY <1>0, <2>1, Standing, RequestsKept DEF index
  <2>3. /\ job' \in [Worker -> Job]
        /\ \A v \in Worker : v # w => job'[v] = job[v]
        /\ \/ job'[w].pc = "none"
           \/ /\ job'[w].idx = job[w].idx /\ job'[w].file = job[w].file
              /\ job'[w].stat = job[w].stat
    <3>1. CASE job' = [job EXCEPT ![w] = NoJob]
      BY <1>0, <3>1, JobEnds
    <3>2. CASE job' = [job EXCEPT ![w].pc = "label"]
      BY <1>0, <3>2, JobGoesOn
    <3>3. QED
      BY <1>12, <3>1, <3>2 DEF Skip, Reindex
  <2>4. \A v \in Worker : job'[v].pc # "none" =>
            /\ job'[v].idx \in 1..Len(object) /\ job'[v].file \in File
            /\ job'[v].stat \in 1..saves
    <3>1. job[w].pc # "none"
      BY <2>1
    <3>2. QED
      BY <1>0, <2>3, <3>1, OneJob
  <2>5. QED
    BY <1>0, <2>1, <2>2, <2>3, <2>4, QuietStep DEF WatchOK
<1>13. ASSUME NEW w \in Worker, Label(w) PROVE Types'
  <2>1. /\ ObjectsOK' /\ Onward /\ Len(object') = Len(object)
        /\ \A j \in 1..Len(object) : object'[j].watched = object[j].watched
    BY <1>0, <1>13, LabelIs
  <2>2. /\ job[w].pc = "label" /\ job' = [job EXCEPT ![w].pc = "row"]
        /\ UNCHANGED <<saves, mtime, row, table, observers, running, queue, built, req, unsettled>>
    BY <1>13 DEF Label, disk, watching
  <2>3. DiskOK' /\ TableOK' /\ ReqOK'
    BY <1>0, <2>1, <2>2, TableKept, RequestsKept DEF DiskOK
  <2>4. WatchOK'
    <3>1. DOMAIN object' = 1..Len(object)
      BY <2>1, LenProperties DEF ObjectsOK
    <3>2. \A j \in 1..Len(object) : object'[j].repo = object[j].repo
      BY <2>1 DEF Onward
    <3>3. QED
      BY <1>0, <2>1, <2>2, <3>1, <3>2 DEF WatchOK
  <2>5. /\ job' \in [Worker -> Job]
        /\ \A v \in Worker : v # w => job'[v] = job[v]
        /\ job'[w].idx = job[w].idx /\ job'[w].file = job[w].file /\ job'[w].stat = job[w].stat
    BY <1>0, <2>2, JobGoesOn
  <2>6. \A v \in Worker : job'[v].pc # "none" =>
            /\ job'[v].idx \in 1..Len(object) /\ job'[v].file \in File
            /\ job'[v].stat \in 1..saves
    <3>1. job[w].pc # "none"
      BY <2>2
    <3>2. QED
      BY <1>0, <2>5, <3>1, OneJob
  <2>7. JobsOK'
    <3>1. saves' \in {saves, saves + 1} /\ unsettled' \in [Repo -> SUBSET File]
      BY <1>0, <2>2
    <3>2. QED
      BY <1>0, <2>1, <2>5, <2>6, <3>1, JobsMove
  <2>8. QED
    BY <2>1, <2>3, <2>4, <2>7 DEF Types
<1>14. ASSUME NEW w \in Worker, SaveRow(w) PROVE Types'
  <2> DEFINE r == object[job[w].idx].repo
             f == job[w].file
  <2>1. /\ job[w].pc = "row" /\ job' = [job EXCEPT ![w] = NoJob]
        /\ row' = [row EXCEPT ![r][f] = job[w].stat]
        /\ unsettled' \in {unsettled, [unsettled EXCEPT ![r] = @ \ {f}]}
        /\ UNCHANGED <<saves, mtime, object, table, observers, running, queue, built, req>>
    BY <1>14 DEF SaveRow, disk, watching
  <2>2. r \in Repo /\ f \in File /\ job[w].stat \in 1..saves
    BY <1>0, <2>1, JobFacts
  <2>3. row' \in [Repo -> [File -> 0..saves]]
    <3>1. job[w].stat \in 0..saves
      BY <2>2
    <3>2. row' = [row EXCEPT ![r] = [row[r] EXCEPT ![f] = job[w].stat]]
      BY <2>1
    <3>3. [row[r] EXCEPT ![f] = job[w].stat] \in [File -> 0..saves]
      BY <1>0, <2>2, <3>1 DEF DiskOK
    <3>4. QED
      BY <1>0, <2>2, <3>2, <3>3 DEF DiskOK
  <2>4. unsettled' \in [Repo -> SUBSET File]
    <3>1. unsettled[r] \ {f} \in SUBSET File
      BY <1>0, <2>2
    <3>2. [unsettled EXCEPT ![r] = @ \ {f}] \in [Repo -> SUBSET File]
      BY <1>0, <2>2, <3>1
    <3>3. QED
      BY <1>0, <2>1, <3>2
  <2>5. Object' = Object /\ Onward
    BY <1>0, <2>1, Standing DEF Object
  <2>6. DiskOK' /\ ObjectsOK' /\ WatchOK'
    BY <1>0, <2>1, <2>3, <2>5 DEF DiskOK, ObjectsOK, WatchOK
  <2>7. TableOK' /\ ReqOK'
    BY <1>0, <2>1, <2>5, TableKept, RequestsKept
  <2>8. /\ job' \in [Worker -> Job] /\ job'[w].pc = "none"
        /\ \A v \in Worker : v # w => job'[v] = job[v]
    BY <1>0, <2>1, JobEnds
  <2>9. \A v \in Worker : job'[v].pc # "none" =>
            /\ job'[v].idx \in 1..Len(object) /\ job'[v].file \in File
            /\ job'[v].stat \in 1..saves
    <3>1. job[w].pc # "none"
      BY <2>1
    <3>2. QED
      BY <1>0, <2>8, <3>1, OneJob
  <2>10. JobsOK'
    <3>1. saves' \in {saves, saves + 1}
      BY <2>1
    <3>2. QED
      BY <1>0, <2>4, <2>5, <2>8, <2>9, <3>1, JobsMove
  <2>11. QED
    BY <2>6, <2>7, <2>10 DEF Types
<1>15. ASSUME NEW r \in Repo, NEW f \in File, HandleEvent(r, f) PROVE Types'
  <2>1. /\ queue' = [queue EXCEPT ![r] = @ \ {f}]
        /\ UNCHANGED <<saves, mtime, row, object, table, observers, running, built, req, unsettled>>
    BY <1>15 DEF HandleEvent, disk, index
  <2>2. Object' = Object /\ Onward
    BY <1>0, <2>1, Standing DEF Object
  <2>3. queue' \in [Repo -> SUBSET File]
    BY <1>0, <2>1 DEF WatchOK
  <2>4. DiskOK' /\ ObjectsOK' /\ WatchOK'
    BY <1>0, <2>1, <2>2, <2>3 DEF DiskOK, ObjectsOK, WatchOK
  <2>5. TableOK' /\ ReqOK'
    BY <1>0, <2>1, <2>2, TableKept, RequestsKept
  <2>6. /\ job' \in [Worker -> Job]
        /\ \A w \in Worker : job'[w].pc # "none" =>
               /\ job'[w].idx \in 1..Len(object) /\ job'[w].file \in File
               /\ job'[w].stat \in 1..saves
    <3>1. CASE \E i \in HandlerIndex(r) : Stat(r, i, f)
      <4>1. PICK k \in DOMAIN table : Stat(r, table[k], f)
        BY <3>1 DEF HandlerIndex, Places, At
      <4>2. table[k] \in 1..Len(object)
        BY <1>0 DEF TableOK
      <4>3. r \in Worker
        BY DEF Worker
      <4>4. QED
        BY <1>0, <4>1, <4>2, <4>3, StatIs
    <3>2. CASE job' = job
      BY <1>0, <3>2 DEF JobsOK
    <3>3. QED
      BY <1>15, <3>1, <3>2 DEF HandleEvent
  <2>7. JobsOK'
    <3>1. saves' \in {saves, saves + 1} /\ unsettled' \in [Repo -> SUBSET File]
      BY <1>0, <2>1
    <3>2. QED
      BY <1>0, <2>2, <2>6, <3>1, JobsMove
  <2>8. QED
    BY <2>4, <2>5, <2>7 DEF Types
<1>16. ASSUME NEW r \in Repo, HandlerFails(r) PROVE Types'
  <2>1. /\ UNCHANGED <<saves, mtime, row, object, table, observers, built, req, unsettled>>
        /\ running' = running \ {r} /\ queue' = [queue EXCEPT ![r] = {}]
        /\ job' = [job EXCEPT ![r] = NoJob]
    BY <1>16 DEF HandlerFails, disk, index
  <2>2. Object' = Object /\ Onward
    BY <1>0, <2>1, Standing DEF Object
  <2>3. queue' \in [Repo -> SUBSET File]
    BY <1>0, <2>1 DEF WatchOK
  <2>4. DiskOK' /\ ObjectsOK' /\ WatchOK'
    BY <1>0, <2>1, <2>2, <2>3 DEF DiskOK, ObjectsOK, WatchOK
  <2>5. TableOK' /\ ReqOK'
    BY <1>0, <2>1, <2>2, TableKept, RequestsKept
  <2>6. r \in Worker
    BY DEF Worker
  <2>7. /\ job' \in [Worker -> Job] /\ job'[r].pc = "none"
        /\ \A v \in Worker : v # r => job'[v] = job[v]
    BY <1>0, <2>1, <2>6, JobEnds
  <2>8. JobsOK'
    <3>1. saves' \in {saves, saves + 1} /\ unsettled' \in [Repo -> SUBSET File]
      BY <1>0, <2>1
    <3>2. job[r].pc # "none"
      BY <1>16 DEF HandlerFails, MayRaise
    <3>3. \A v \in Worker : job'[v].pc # "none" =>
              /\ job'[v].idx \in 1..Len(object) /\ job'[v].file \in File
              /\ job'[v].stat \in 1..saves
      BY <1>0, <2>6, <2>7, <3>2, OneJob
    <3>4. QED
      BY <1>0, <2>2, <2>7, <3>1, <3>3, JobsMove
  <2>9. QED
    BY <2>4, <2>5, <2>8 DEF Types
<1>17. CASE Restart
  <2>1. DiskOK' /\ ObjectsOK' /\ TableOK'
    BY <1>0, <1>17, ConstantsAssumption DEF Restart, DiskOK, ObjectsOK, TableOK, disk
  <2>2. WatchOK'
    BY <1>17 DEF Restart, WatchOK
  <2>3. ReqOK'
    BY <1>17, <1>a, IdleIs DEF Restart, ReqOK
  <2>4. JobsOK'
    BY <1>17, NoJobIs DEF Restart, JobsOK, Worker, Job
  <2>5. QED
    BY <2>1, <2>2, <2>3, <2>4 DEF Types
<1>18. QED
  BY <1>1, <1>2, <1>3, <1>4, <1>11, <1>12, <1>13, <1>14, <1>15, <1>16, <1>17 DEF Next

\* All components keep to their types, the table holds at most MaxIndexes indexes
\* and no repository twice, whatever requests, observers and restarts do.
THEOREM TypeCorrect == Spec => []TypeOK
BY TypesInit, TypesStep, TypesMean, PTL DEF Spec

-----------------------------------------------------------------------------
(* What a step does to labels and to refreshes under way *)

\* Labels stay, or become the stat of a refresh under way; those of a new index
\* are the rows.
LabelsFrom ==
    \A i \in DOMAIN object', f \in File :
        \/ /\ i \in 1..Len(object)
           /\ \/ object'[i].mtimes[f] = object[i].mtimes[f]
              \/ \E w \in Refreshing(object[i].repo, f) :
                     /\ job[w].pc = "label" /\ job'[w].pc = "row" /\ job'[w].idx = job[w].idx
                     /\ job'[w].file = f /\ job'[w].stat = job[w].stat
                     /\ object'[i].mtimes[f] = job[w].stat
        \/ i \notin 1..Len(object) /\ object'[i].repo \in Repo
           /\ object'[i].mtimes[f] = row[object'[i].repo][f]

\* Refreshes go on, or begin with the present version.
JobsFrom ==
    \A w \in Worker : job'[w].pc # "none" =>
        \/ /\ job[w].pc # "none" /\ job'[w].idx = job[w].idx /\ job'[w].file = job[w].file
           /\ job'[w].stat = job[w].stat
        \/ /\ job'[w].idx \in 1..Len(object) /\ job'[w].file \in File /\ mtime' = mtime
           /\ job'[w].stat = mtime[object[job'[w].idx].repo][job'[w].file]

Shape == Onward /\ LabelsFrom /\ JobsFrom

LEMMA JobsStand ==
    ASSUME job' = job
    PROVE  JobsFrom
BY DEF JobsFrom

LEMMA LabelsStand ==
    ASSUME ObjectsOK', Len(object') = Len(object),
           \A i \in 1..Len(object) : object'[i].mtimes = object[i].mtimes
    PROVE  LabelsFrom
<1>1. DOMAIN object' = 1..Len(object)
  BY LenProperties DEF ObjectsOK
<1>2. QED
  BY <1>1 DEF LabelsFrom

LEMMA StatShape ==
    ASSUME DiskOK, ObjectsOK, JobsOK, NEW w \in Worker, NEW i \in 1..Len(object), NEW f \in File,
           Stat(w, i, f), mtime' = mtime
    PROVE  JobsFrom
<1> DEFINE m == mtime[object[i].repo][f]
<1>1. /\ \A v \in Worker : v # w => job'[v] = job[v]
      /\ m = 0 => job' = job
      /\ m # 0 => job'[w].idx = i /\ job'[w].file = f /\ job'[w].stat = m
  BY StatIs
<1>2. SUFFICES ASSUME NEW v \in Worker, job'[v].pc # "none"
               PROVE  \/ /\ job[v].pc # "none" /\ job'[v].idx = job[v].idx
                         /\ job'[v].file = job[v].file /\ job'[v].stat = job[v].stat
                      \/ /\ job'[v].idx \in 1..Len(object) /\ job'[v].file \in File
                         /\ job'[v].stat = mtime[object[job'[v].idx].repo][job'[v].file]
  BY DEF JobsFrom
<1>3. CASE v # w \/ m = 0
  BY <1>1, <1>2, <1>3
<1>4. CASE v = w /\ m # 0
  BY <1>1, <1>4 DEF m
<1>5. QED
  BY <1>3, <1>4

LEMMA OneJobShape ==
    ASSUME NEW w \in Worker, job[w].pc # "none",
           \A v \in Worker : v # w => job'[v] = job[v],
           \/ job'[w].pc = "none"
           \/ /\ job'[w].idx = job[w].idx /\ job'[w].file = job[w].file
              /\ job'[w].stat = job[w].stat
    PROVE  JobsFrom
<1>1. SUFFICES ASSUME NEW v \in Worker, job'[v].pc # "none"
               PROVE  /\ job[v].pc # "none" /\ job'[v].idx = job[v].idx
                      /\ job'[v].file = job[v].file /\ job'[v].stat = job[v].stat
  BY DEF JobsFrom
<1>2. CASE v = w
  BY <1>1, <1>2
<1>3. CASE v # w
  BY <1>1, <1>3
<1>4. QED
  BY <1>2, <1>3

LEMMA ShapeStep == Types /\ [Next]_vars => Shape \/ Restart
<1> SUFFICES ASSUME Types, [Next]_vars, ~Restart PROVE Shape
  OBVIOUS
<1>0. /\ DiskOK /\ ObjectsOK /\ TableOK /\ WatchOK /\ ReqOK /\ JobsOK /\ ObjectsOK'
      /\ Len(object) \in Nat /\ DOMAIN object = 1..Len(object)
  BY ObjectFacts, TypesStep DEF Types
<1>a. ASSUME object' = object PROVE Onward /\ LabelsFrom
  BY <1>0, <1>a, Standing, LabelsStand
<1>1. CASE UNCHANGED <<object, job>>
  BY <1>1, <1>a, JobsStand DEF Shape
<1>2. ASSUME NEW r \in Repo, NEW f \in File, SaveFile(r, f) PROVE Shape
  <2>1. /\ Onward /\ Len(object') = Len(object)
        /\ \A j \in 1..Len(object) : object'[j].mtimes = object[j].mtimes
    BY <1>0, <1>2, Saved
  <2>2. job' = job
    BY <1>2 DEF SaveFile
  <2>3. QED
    BY <1>0, <2>1, <2>2, LabelsStand, JobsStand DEF Shape
<1>3. ASSUME NEW t \in Thread, LookUp(t) PROVE Shape
  <2> DEFINE r == req[t].repo
  <2>1. UNCHANGED <<saves, mtime, row, job>> /\ req[t].pc = "walkers"
    BY <1>3 DEF LookUp, disk, IsAt
  <2>2. r \in Repo
    BY <1>0, <2>1, RequestFacts
  <2>3. PICK i \in 1..Len(object) + 1 : GetOrCreate(r, i)
    BY <1>3 DEF LookUp
  <2> HIDE DEF r
  <2>4. /\ Onward
        /\ \A j \in 1..Len(object) : object'[j] = object[j]
        /\ \/ i \in 1..Len(object) /\ object' = object
           \/ /\ Len(object') = Len(object) + 1 /\ i = Len(object')
              /\ object'[i] = New(r)
    BY <1>0, <2>1, <2>2, <2>3, LookedUp
  <2>5. DOMAIN object' = 1..Len(object')
    BY <1>0, LenProperties DEF ObjectsOK
  <2>6. New(r).repo = r /\ New(r).mtimes = row[r]
    BY DEF New
  <2>7. ASSUME NEW j \in DOMAIN object', j \notin 1..Len(object)
        PROVE  object'[j].repo \in Repo /\ object'[j].mtimes = row[object'[j].repo]
    <3>1. Len(object') = Len(object) + 1 /\ i = Len(object') /\ object'[i] = New(r)
      BY <1>0, <2>4, <2>5, <2>7
    <3>2. j = i
      BY <1>0, <2>5, <2>7, <3>1
    <3>3. QED
      BY <2>2, <2>6, <3>1, <3>2
  <2>8. LabelsFrom
    BY <2>4, <2>7 DEF LabelsFrom
  <2>9. QED
    BY <2>1, <2>4, <2>8, JobsStand DEF Shape
<1>4. ASSUME NEW t \in Thread, NEW f \in File, Refresh(t, f) PROVE Shape
  <2>1. /\ req[t].pc \in Busy /\ Stat(t, req[t].idx, f)
        /\ mtime' = mtime /\ object' = object
    BY <1>4 DEF Refresh, Busy, disk, index
  <2>2. req[t].idx \in 1..Len(object) /\ t \in Worker
    BY <1>0, <2>1, RequestFacts DEF Worker
  <2>3. QED
    BY <1>0, <1>a, <2>1, <2>2, StatShape DEF Shape
<1>5. ASSUME NEW t \in Thread, EndScan(t) \/ EndRefresh(t) PROVE Shape
  <2>1. StartWatching(req[t].idx) /\ req[t].pc \in Busy
        /\ UNCHANGED <<saves, mtime, row, built, job>>
    BY <1>5 DEF EndScan, EndRefresh, IsAt, Busy, disk
  <2>2. req[t].idx \in DOMAIN object
    BY <1>0, <2>1, RequestFacts
  <2>3. /\ Onward /\ Len(object') = Len(object)
        /\ \A j \in 1..Len(object) : object'[j].mtimes = object[j].mtimes
    BY <1>0, <2>1, <2>2, Watched
  <2>4. QED
    BY <1>0, <2>1, <2>3, LabelsStand, JobsStand DEF Shape
<1>6. ASSUME NEW w \in Worker, job[w].pc # "none", object' = object,
             job' = [job EXCEPT ![w] = NoJob] \/ job' = [job EXCEPT ![w].pc = "label"]
      PROVE  Shape
  <2>1. /\ \A v \in Worker : v # w => job'[v] = job[v]
        /\ \/ job'[w].pc = "none"
           \/ /\ job'[w].idx = job[w].idx /\ job'[w].file = job[w].file
              /\ job'[w].stat = job[w].stat
    BY <1>0, <1>6, JobEnds, JobGoesOn
  <2>2. QED
    BY <1>6, <1>a, <2>1, OneJobShape DEF Shape
<1>7. ASSUME NEW w \in Worker, Label(w) PROVE Shape
  <2> DEFINE i == job[w].idx
             f == job[w].file
  <2>1. /\ i \in 1..Len(object) /\ f \in File /\ Onward /\ Len(object') = Len(object)
        /\ \A j \in 1..Len(object), g \in File :
               object'[j].mtimes[g] = IF j = i /\ g = f THEN job[w].stat ELSE object[j].mtimes[g]
    BY <1>0, <1>7, LabelIs
  <2>2. job[w].pc = "label" /\ job' = [job EXCEPT ![w].pc = "row"]
    BY <1>7 DEF Label
  <2>3. /\ \A v \in Worker : v # w => job'[v] = job[v]
        /\ job'[w].pc = "row" /\ job'[w].idx = i /\ job'[w].file = f
        /\ job'[w].stat = job[w].stat
    BY <1>0, <2>2, JobGoesOn
  <2>4. w \in Refreshing(object[i].repo, f)
    BY <2>2 DEF Refreshing, JobOn
  <2>5. DOMAIN object' = 1..Len(object)
    BY <1>0, <2>1, LenProperties DEF ObjectsOK
  <2> HIDE DEF i, f
  <2>6. ASSUME NEW j \in 1..Len(object), NEW g \in File
        PROVE  \/ object'[j].mtimes[g] = object[j].mtimes[g]
               \/ \E v \in Refreshing(object[j].repo, g) :
                      /\ job[v].pc = "label" /\ job'[v].pc = "row" /\ job'[v].idx = job[v].idx
                      /\ job'[v].file = g /\ job'[v].stat = job[v].stat
                      /\ object'[j].mtimes[g] = job[v].stat
    <3>1. CASE j = i /\ g = f
      <4>1. object'[j].mtimes[g] = job[w].stat /\ w \in Refreshing(object[j].repo, g)
        BY <2>1, <2>4, <3>1
      <4>2. job'[w].idx = job[w].idx
        BY <2>3 DEF i
      <4>3. QED
        BY <2>2, <2>3, <3>1, <4>1, <4>2
    <3>2. CASE ~(j = i /\ g = f)
      BY <2>1, <3>2
    <3>3. QED
      BY <3>1, <3>2
  <2>7. LabelsFrom
    BY <2>5, <2>6 DEF LabelsFrom
  <2>8. JobsFrom
    BY <2>2, <2>3, OneJobShape DEF i, f
  <2>9. QED
    BY <2>1, <2>7, <2>8 DEF Shape
<1>8. ASSUME NEW r \in Repo, NEW f \in File, HandleEvent(r, f) PROVE Shape
  <2>1. mtime' = mtime /\ object' = object
    BY <1>8 DEF HandleEvent, disk, index
  <2>2. CASE \E i \in HandlerIndex(r) : Stat(r, i, f)
    <3>1. PICK k \in DOMAIN table : Stat(r, table[k], f)
      BY <2>2 DEF HandlerIndex, Places, At
    <3>2. table[k] \in 1..Len(object) /\ r \in Worker
      BY <1>0 DEF TableOK, Worker
    <3>3. QED
      BY <1>0, <1>a, <2>1, <3>1, <3>2, StatShape DEF Shape
  <2>3. CASE job' = job
    BY <1>1, <2>1, <2>3
  <2>4. QED
    BY <1>8, <2>2, <2>3 DEF HandleEvent
<1>9. ASSUME NEW t \in Thread, Step(t) PROVE Shape
  <2>1. CASE AnswerWithoutIndex(t) \/ Rank(t) \/ BuildStart(t) \/ BuildEnd(t) \/ BuildFails(t)
             \/ RankFails(t)
    BY <1>1, <2>1 DEF AnswerWithoutIndex, Rank, BuildStart, BuildEnd, BuildFails, RankFails, index
  <2>2. CASE RefreshFails(t)
    BY <1>6, <2>2 DEF RefreshFails, MayRaise, Worker, index
  <2>3. QED
    BY <1>3, <1>4, <1>5, <1>9, <2>1, <2>2 DEF Step
<1>10. ASSUME NEW w \in Worker, Skip(w) \/ Reindex(w) \/ SaveRow(w) PROVE Shape
  BY <1>6, <1>10 DEF Skip, Reindex, SaveRow, index
<1>11. ASSUME NEW r \in Repo, HandlerFails(r) PROVE Shape
  BY <1>6, <1>11 DEF HandlerFails, MayRaise, Worker, index
<1>12. CASE UNCHANGED vars
  BY <1>1, <1>12 DEF vars, index
<1>13. ASSUME NEW r \in Repo, NEW f \in File, DeleteFile(r, f) PROVE Shape
  BY <1>1, <1>13 DEF DeleteFile, index
<1>14. ASSUME NEW t \in Thread, NEW r \in Repo, NEW f \in File \union {NoFile},
              BeginRequest(t, r, f)
       PROVE  Shape
  BY <1>1, <1>14 DEF BeginRequest, index
<1>15. QED
  BY <1>2, <1>7, <1>8, <1>9, <1>10, <1>11, <1>12, <1>13, <1>14 DEF Next

\* Who refreshes a file after a step did before it, or begins now.
LEMMA RefreshingFrom ==
    ASSUME DiskOK, ObjectsOK, JobsOK, Shape, NEW r \in Repo, NEW f \in File,
           NEW w \in Refreshing(r, f)'
    PROVE  /\ w \in Worker
           /\ \/ w \in Refreshing(r, f) /\ job'[w].stat = job[w].stat
              \/ job'[w].stat = mtime[r][f] /\ mtime' = mtime
<1>1. w \in Worker /\ job'[w].pc # "none" /\ object'[job'[w].idx].repo = r /\ job'[w].file = f
  BY DEF Refreshing, JobOn, Worker
<1>2. CASE /\ job[w].pc # "none" /\ job'[w].idx = job[w].idx /\ job'[w].file = job[w].file
           /\ job'[w].stat = job[w].stat
  <2>1. job[w].idx \in 1..Len(object)
    BY <1>1, <1>2, JobFacts
  <2>2. object[job[w].idx].repo = r
    BY <1>1, <1>2, <2>1 DEF Shape, Onward
  <2>3. QED
    BY <1>1, <1>2, <2>2 DEF Refreshing, JobOn
<1>3. CASE /\ job'[w].idx \in 1..Len(object) /\ job'[w].file \in File /\ mtime' = mtime
           /\ job'[w].stat = mtime[object[job'[w].idx].repo][job'[w].file]
  BY <1>1, <1>3 DEF Shape, Onward
<1>4. QED
  BY <1>1, <1>2, <1>3 DEF Shape, JobsFrom

-----------------------------------------------------------------------------
(* Rows keep up with labels *)

\* Versions of a file that the disk, the database, an index or a refresh has.
Seen(r, f, n) ==
    \/ n = mtime[r][f] \/ n = row[r][f]
    \/ \E i \in DOMAIN object : object[i].repo = r /\ n = object[i].mtimes[f]
    \/ \E w \in Refreshing(r, f) : n = job[w].stat

\* A file that is there has its newest version.
Newest ==
    \A r \in Repo, f \in File : mtime[r][f] # 0 =>
        \A n \in Nat : Seen(r, f, n) => n <= mtime[r][f]

\* A refresh of a settled file knows the newest version of it that is known.
Settled ==
    \A r \in Repo : \A f \in File \ unsettled[r] : \A w \in Refreshing(r, f) :
        \A n \in Nat : Seen(r, f, n) => n <= job[w].stat

RowsInv == Newest /\ Settled /\ RowsKeepUp

LEMMA SeenAre ==
    ASSUME Types, NEW r \in Repo, NEW f \in File, NEW n, Seen(r, f, n)
    PROVE  n \in 0..saves /\ saves \in Nat
<1>1. DiskOK /\ ObjectsOK /\ JobsOK /\ saves \in Nat
  BY ConstantsAssumption DEF Types, DiskOK
<1>2. mtime[r][f] \in 0..saves /\ row[r][f] \in 0..saves
  BY <1>1 DEF DiskOK
<1>3. \A i \in DOMAIN object : object[i].mtimes[f] \in 0..saves
  BY <1>1, ObjectFacts DEF Object
<1>4. \A w \in Refreshing(r, f) : job[w].stat \in 0..saves
  BY <1>1, JobFacts DEF Refreshing, JobOn
<1>5. QED
  BY <1>1, <1>2, <1>3, <1>4 DEF Seen

\* A file on the disk stays, goes, or is saved.
LEMMA DiskFrom ==
    ASSUME Types, [Next]_vars, NEW r \in Repo, NEW f \in File
    PROVE  \/ mtime'[r][f] \in {mtime[r][f], 0} /\ saves' \in {saves, saves + 1}
           \/ SaveFile(r, f) /\ mtime'[r][f] = saves + 1 /\ saves' = saves + 1
<1>1. mtime \in [Repo -> [File -> 0..saves]]
  BY DEF Types, DiskOK
<1>2. ASSUME NEW q \in Repo, NEW g \in File, SaveFile(q, g)
      PROVE  \/ mtime'[r][f] = mtime[r][f] /\ saves' = saves + 1
             \/ SaveFile(r, f) /\ mtime'[r][f] = saves + 1 /\ saves' = saves + 1
  <2>1. saves' = saves + 1 /\ mtime' = [mtime EXCEPT ![q] = [mtime[q] EXCEPT ![g] = saves + 1]]
    BY <1>2 DEF SaveFile
  <2>2. CASE q = r /\ g = f
    BY <1>1, <1>2, <2>1, <2>2
  <2>3. CASE ~(q = r /\ g = f)
    BY <1>1, <2>1, <2>3
  <2>4. QED
    BY <2>2, <2>3
<1>3. ASSUME NEW q \in Repo, NEW g \in File, DeleteFile(q, g)
      PROVE  mtime'[r][f] \in {mtime[r][f], 0} /\ saves' = saves
  <2>1. saves' = saves /\ mtime' = [mtime EXCEPT ![q] = [mtime[q] EXCEPT ![g] = 0]]
    BY <1>3 DEF DeleteFile
  <2>2. QED
    BY <1>1, <2>1
<1>4. CASE UNCHANGED disk
  BY <1>4 DEF disk
<1>5. ASSUME NEW t \in Thread, Step(t) PROVE UNCHANGED disk
  BY <1>5 DEF Step, AnswerWithoutIndex, LookUp, Refresh, RefreshFails, EndScan, EndRefresh,
     BuildStart, BuildFails, BuildEnd, Rank, RankFails, disk
<1>6. ASSUME NEW w \in Worker, Skip(w) \/ Reindex(w) \/ Label(w) \/ SaveRow(w)
      PROVE  UNCHANGED disk
  BY <1>6 DEF Skip, Reindex, Label, SaveRow, disk
<1>7. QED
  BY <1>2, <1>3, <1>4, <1>5, <1>6
  DEF Next, BeginRequest, HandleEvent, HandlerFails, Restart, vars, disk

\* What a step that saves no row leaves alone.
RowsStand ==
    /\ row' = row
    /\ \A r \in Repo : unsettled[r] \subseteq unsettled'[r]
    /\ \A w \in Worker : job[w].pc = "row" => job'[w] = job[w]

LEMMA RowsFrom ==
    ASSUME Types, [Next]_vars, ~Restart
    PROVE  RowsStand \/ \E w \in Worker : SaveRow(w)
<1>0. /\ DiskOK /\ ObjectsOK /\ TableOK /\ ReqOK /\ JobsOK
      /\ unsettled \in [Repo -> SUBSET File]
      /\ Thread \subseteq Worker /\ Repo \subseteq Worker
  BY DEF Types, JobsOK, Worker
<1>1. ASSUME UNCHANGED <<row, unsettled, job>> PROVE RowsStand
  BY <1>1 DEF RowsStand
<1>2. ASSUME NEW r \in Repo, NEW f \in File, SaveFile(r, f) PROVE RowsStand
  <2>1. PICK S \in {unsettled[r], unsettled[r] \union {f}} :
            unsettled' = [unsettled EXCEPT ![r] = S]
    BY <1>2 DEF SaveFile
  <2>2. row' = row /\ job' = job
    BY <1>2 DEF SaveFile
  <2>3. \A q \in Repo : unsettled[q] \subseteq unsettled'[q]
    BY <1>0, <2>1
  <2>4. QED
    BY <2>2, <2>3 DEF RowsStand
<1>3. ASSUME NEW w \in Worker, job[w].pc # "row", row' = row, unsettled' = unsettled,
             \A v \in Worker : v # w => job'[v] = job[v]
      PROVE  RowsStand
  BY <1>3 DEF RowsStand
<1>4. ASSUME NEW t \in Thread, NEW f \in File, Refresh(t, f) PROVE RowsStand
  <2>1. /\ req[t].pc \in Busy /\ Stat(t, req[t].idx, f) /\ job[t].pc = "none"
        /\ row' = row /\ unsettled' = unsettled
    BY <1>4 DEF Refresh, Busy, index, Free
  <2>2. req[t].idx \in 1..Len(object) /\ t \in Worker
    BY <1>0, <2>1, RequestFacts
  <2>3. \A v \in Worker : v # t => job'[v] = job[v]
    BY <1>0, <2>1, <2>2, StatIs
  <2>4. QED
    BY <2>1, <2>3 DEF RowsStand
<1>5. ASSUME NEW r \in Repo, NEW f \in File, HandleEvent(r, f) PROVE RowsStand
  <2>1. row' = row /\ unsettled' = unsettled /\ job[r].pc = "none" /\ r \in Worker
    BY <1>0, <1>5 DEF HandleEvent, index, Free
  <2>2. ASSUME NEW k \in DOMAIN table, Stat(r, table[k], f) PROVE RowsStand
    <3>1. table[k] \in 1..Len(object)
      BY <1>0 DEF TableOK
    <3>2. \A v \in Worker : v # r => job'[v] = job[v]
      BY <1>0, <2>1, <2>2, <3>1, StatIs
    <3>3. QED
      BY <2>1, <3>2 DEF RowsStand
  <2>3. CASE job' = job
    BY <1>1, <2>1, <2>3
  <2>4. QED
    BY <1>5, <2>2, <2>3 DEF HandleEvent, HandlerIndex, Places, At
<1>6. ASSUME NEW w \in Worker, job[w].pc \in {"compare", "label"}, row' = row,
             unsettled' = unsettled,
             job' \in {[job EXCEPT ![w] = NoJob], [job EXCEPT ![w].pc = "label"],
                       [job EXCEPT ![w].pc = "row"]}
      PROVE  RowsStand
  <2>1. \A v \in Worker : v # w => job'[v] = job[v]
    BY <1>0, <1>6, JobEnds, JobGoesOn
  <2>2. QED
    BY <1>3, <1>6, <2>1
<1>7. ASSUME NEW t \in Thread, Step(t) PROVE RowsStand
  <2>1. CASE AnswerWithoutIndex(t) \/ Rank(t) \/ BuildStart(t) \/ BuildEnd(t) \/ BuildFails(t)
             \/ RankFails(t) \/ LookUp(t) \/ EndScan(t) \/ EndRefresh(t)
    BY <1>1, <2>1 DEF AnswerWithoutIndex, Rank, BuildStart, BuildEnd, BuildFails, RankFails,
       LookUp, EndScan, EndRefresh, index
  <2>2. CASE RefreshFails(t)
    BY <1>0, <1>6, <2>2 DEF RefreshFails, MayRaise, index
  <2>3. QED
    BY <1>4, <1>7, <2>1, <2>2 DEF Step
<1>8. ASSUME NEW w \in Worker, Skip(w) \/ Reindex(w) \/ Label(w) PROVE RowsStand
  BY <1>6, <1>8 DEF Skip, Reindex, Label, index
<1>9. ASSUME NEW r \in Repo, HandlerFails(r) PROVE RowsStand
  BY <1>0, <1>6, <1>9 DEF HandlerFails, MayRaise, index
<1>10. ASSUME NEW r \in Repo, NEW f \in File, DeleteFile(r, f) PROVE RowsStand
  BY <1>1, <1>10 DEF DeleteFile, index
<1>11. ASSUME NEW t \in Thread, NEW r \in Repo, NEW f \in File \union {NoFile},
              BeginRequest(t, r, f)
       PROVE  RowsStand
  BY <1>1, <1>11 DEF BeginRequest, index
<1>12. ASSUME UNCHANGED vars PROVE RowsStand
  BY <1>1, <1>12 DEF vars, index
<1>13. QED
  BY <1>2, <1>5, <1>7, <1>8, <1>9, <1>10, <1>11, <1>12 DEF Next

\* The row that a refresh saves is its stat.
LEMMA RowIs ==
    ASSUME Types, NEW v \in Worker, SaveRow(v)
    PROVE  \E q \in Repo, g \in File :
               /\ q = object[job[v].idx].repo /\ g = job[v].file
               /\ v \in Refreshing(q, g) /\ job[v].stat \in 1..saves
               /\ object' = object /\ mtime' = mtime
               /\ \A u \in Worker : u # v => job'[u] = job[u]
               /\ job'[v].pc = "none"
               /\ \A r \in Repo, f \in File :
                      row'[r][f] = IF r = q /\ f = g THEN job[v].stat ELSE row[r][f]
               /\ \A r \in Repo, f \in File :
                      f \in unsettled[r] /\ f \notin unsettled'[r] =>
                          r = q /\ f = g /\ job[v].stat = mtime[q][g] /\ Refreshing(q, g) = {v}
<1> DEFINE q == object[job[v].idx].repo
           g == job[v].file
<1>1. DiskOK /\ ObjectsOK /\ JobsOK /\ unsettled \in [Repo -> SUBSET File]
  BY DEF Types, JobsOK
<1>2. /\ job[v].pc = "row" /\ job' = [job EXCEPT ![v] = NoJob]
      /\ row' = [row EXCEPT ![q][g] = job[v].stat]
      /\ unsettled' = IF job[v].stat = mtime[q][g] /\ Refreshing(q, g) = {v}
                      THEN [unsettled EXCEPT ![q] = @ \ {g}] ELSE unsettled
      /\ object' = object /\ mtime' = mtime
  BY DEF SaveRow, disk
<1>3. q \in Repo /\ g \in File /\ job[v].stat \in 1..saves /\ v \in Refreshing(q, g)
  BY <1>1, <1>2, JobFacts DEF Refreshing, JobOn
<1>4. /\ \A u \in Worker : u # v => job'[u] = job[u]
      /\ job'[v].pc = "none"
  BY <1>1, <1>2, JobEnds
<1>5. q = object[job[v].idx].repo /\ g = job[v].file
  OBVIOUS
<1> HIDE DEF q, g
<1>6. \A r \in Repo, f \in File :
          row'[r][f] = IF r = q /\ f = g THEN job[v].stat ELSE row[r][f]
  BY <1>1, <1>2, <1>3 DEF DiskOK
<1>7. ASSUME NEW r \in Repo, NEW f \in File, f \in unsettled[r], f \notin unsettled'[r]
      PROVE  r = q /\ f = g /\ job[v].stat = mtime[q][g] /\ Refreshing(q, g) = {v}
  <2>1. /\ job[v].stat = mtime[q][g] /\ Refreshing(q, g) = {v}
        /\ unsettled' = [unsettled EXCEPT ![q] = @ \ {g}]
    BY <1>2, <1>7
  <2>2. QED
    BY <1>1, <1>3, <1>7, <2>1
<1>8. QED
  BY <1>2, <1>3, <1>4, <1>5, <1>6, <1>7

\* No step brings a version that was not seen, but a save.
LEMMA SeenFrom ==
    ASSUME Types, [Next]_vars, ~Restart, NEW r \in Repo, NEW f \in File, NEW n,
           Seen(r, f, n)'
    PROVE  Seen(r, f, n) \/ n = 0 \/ (SaveFile(r, f) /\ n = saves + 1)
<1>0. Shape /\ DiskOK /\ ObjectsOK /\ ObjectsOK' /\ JobsOK /\ DOMAIN object = 1..Len(object)
  BY ShapeStep, TypesStep, ObjectFacts DEF Types
<1>1. CASE n = mtime'[r][f]
  BY <1>1, DiskFrom DEF Seen
<1>2. row'[r][f] = row[r][f] \/ \E w \in Refreshing(r, f) : row'[r][f] = job[w].stat
  <2>1. CASE row' = row
    BY <2>1
  <2>2. ASSUME NEW v \in Worker, SaveRow(v)
        PROVE  row'[r][f] = row[r][f] \/ \E w \in Refreshing(r, f) : row'[r][f] = job[w].stat
    <3>1. PICK q \in Repo, g \in File :
              /\ v \in Refreshing(q, g)
              /\ row'[r][f] = IF r = q /\ f = g THEN job[v].stat ELSE row[r][f]
      BY <2>2, RowIs
    <3>2. QED
      BY <3>1
  <2>3. QED
    BY <2>1, <2>2, RowsFrom DEF RowsStand
<1>3. CASE n = row'[r][f]
  BY <1>2, <1>3 DEF Seen
<1>4. ASSUME NEW i \in DOMAIN object', object'[i].repo = r, n = object'[i].mtimes[f]
      PROVE  Seen(r, f, n)
  <2>1. CASE /\ i \in 1..Len(object)
             /\ \/ object'[i].mtimes[f] = object[i].mtimes[f]
                \/ \E w \in Refreshing(object[i].repo, f) : object'[i].mtimes[f] = job[w].stat
    <3>1. object[i].repo = r
      BY <1>0, <1>4, <2>1 DEF Shape, Onward
    <3>2. QED
      BY <1>0, <1>4, <2>1, <3>1 DEF Seen
  <2>2. CASE object'[i].mtimes[f] = row[object'[i].repo][f]
    BY <1>4, <2>2 DEF Seen
  <2>3. QED
    BY <1>0, <2>1, <2>2 DEF Shape, LabelsFrom
<1>5. ASSUME NEW w \in Refreshing(r, f)', n = job'[w].stat PROVE Seen(r, f, n)
  BY <1>0, <1>5, RefreshingFrom DEF Seen
<1>6. QED
  BY <1>1, <1>3, <1>4, <1>5 DEF Seen

LEMMA NewestStep ==
    ASSUME Types, [Next]_vars, ~Restart, Newest
    PROVE  Newest'
<1>1. Types' /\ saves \in Nat
  BY TypesStep, ConstantsAssumption DEF Types, DiskOK
<1>2. SUFFICES ASSUME NEW r \in Repo, NEW f \in File, mtime'[r][f] # 0,
                      NEW n \in Nat, Seen(r, f, n)'
               PROVE  n <= mtime'[r][f]
  BY DEF Newest
<1>3. n <= saves + 1
  BY <1>1, <1>2, SeenAre, SeenFrom
<1>4. mtime'[r][f] \in Nat
  BY <1>1 DEF Types, DiskOK
<1>5. CASE mtime'[r][f] = saves + 1 /\ saves' = saves + 1
  BY <1>1, <1>3, <1>5
<1>6. CASE mtime'[r][f] = mtime[r][f] /\ ~SaveFile(r, f)
  <2>1. Seen(r, f, n) \/ n = 0
    BY <1>2, <1>6, SeenFrom
  <2>2. QED
    BY <1>2, <1>4, <1>6, <2>1 DEF Newest
<1>7. SaveFile(r, f) => mtime'[r][f] = saves + 1 /\ saves' = saves + 1
  BY DEF SaveFile, Types, DiskOK
<1>8. QED
  BY <1>2, <1>5, <1>6, <1>7, DiskFrom

LEMMA SettledStep ==
    ASSUME Types, [Next]_vars, ~Restart, Newest, Settled
    PROVE  Settled'
<1>1. /\ Types' /\ Newest' /\ Shape /\ JobsOK' /\ ObjectsOK' /\ DiskOK'
      /\ DiskOK /\ ObjectsOK /\ JobsOK
  BY TypesStep, NewestStep, ShapeStep DEF Types
<1>2. SUFFICES ASSUME NEW r \in Repo, NEW f \in File, f \notin unsettled'[r],
                      NEW w \in Refreshing(r, f)', NEW n \in Nat, Seen(r, f, n)'
               PROVE  n <= job'[w].stat
  BY DEF Settled
<1>3. w \in Worker /\ job'[w].pc # "none" /\ job'[w].file = f
  BY <1>2 DEF Refreshing, JobOn, Worker
<1>4. job'[w].stat \in 1..saves'
  BY <1>1, <1>3 DEF JobsOK, Worker
<1>5. CASE job'[w].stat = mtime[r][f] /\ mtime' = mtime
  <2>1. mtime'[r][f] # 0
    BY <1>4, <1>5
  <2>2. QED
    BY <1>1, <1>2, <1>5, <2>1 DEF Newest
<1>6. CASE w \in Refreshing(r, f) /\ job'[w].stat = job[w].stat
  <2>1. ~SaveFile(r, f)
    <3>1. SUFFICES ASSUME SaveFile(r, f) PROVE f \in unsettled'[r]
      BY <1>2
    <3>2. unsettled' = [unsettled EXCEPT ![r] = @ \union {f}]
      BY <1>6, <3>1 DEF SaveFile
    <3>3. QED
      BY <1>1, <3>2 DEF JobsOK
  <2>2. f \notin unsettled[r]
    <3>1. CASE RowsStand
      BY <1>2, <3>1 DEF RowsStand
    <3>2. ASSUME NEW v \in Worker, SaveRow(v), f \in unsettled[r] PROVE FALSE
      <4>1. PICK q \in Repo, g \in File :
                /\ r = q /\ f = g /\ Refreshing(q, g) = {v} /\ job'[v].pc = "none"
        BY <1>2, <3>2, RowIs
      <4>2. w = v
        BY <1>6, <4>1
      <4>3. QED
        BY <1>3, <4>1, <4>2
    <3>3. QED
      BY <3>1, <3>2, RowsFrom
  <2>3. Seen(r, f, n) \/ n = 0
    BY <1>2, <2>1, SeenFrom
  <2>4. QED
    BY <1>4, <1>6, <2>2, <2>3 DEF Settled
<1>7. QED
  BY <1>1, <1>2, <1>5, <1>6, RefreshingFrom

LEMMA RowsKeepUpStep ==
    ASSUME Types, [Next]_vars, ~Restart, Newest, Settled, RowsKeepUp
    PROVE  RowsKeepUp'
<1>1. /\ Types' /\ Shape /\ ObjectsOK' /\ DiskOK' /\ DiskOK /\ ObjectsOK /\ JobsOK
      /\ DOMAIN object = 1..Len(object)
  BY TypesStep, ShapeStep, ObjectFacts DEF Types
<1>2. SUFFICES ASSUME NEW i \in DOMAIN object', NEW f \in File, f \notin unsettled'[object'[i].repo]
               PROVE  RowKept(i, f)'
  BY DEF RowsKeepUp
<1>3. PICK r : r = object'[i].repo
  OBVIOUS
<1>4. r \in Repo /\ object'[i].mtimes[f] \in Nat
  <2>1. object'[i] \in Object' /\ saves' \in Nat
    BY <1>1, <1>2, ConstantsAssumption DEF ObjectsOK, DiskOK
  <2>2. QED
    BY <1>2, <1>3, <2>1 DEF Object
<1>5. row[r][f] \in Nat /\ row'[r][f] \in Nat
  BY <1>1, <1>4 DEF DiskOK
<1>6. CASE RowsStand
  <2>1. row' = row /\ f \notin unsettled[r]
    BY <1>2, <1>3, <1>4, <1>6 DEF RowsStand
  <2>2. CASE i \in 1..Len(object) /\ object'[i].mtimes[f] = object[i].mtimes[f]
    <3>1. object[i].repo = r
      BY <1>1, <1>3, <2>2 DEF Shape, Onward
    <3>2. RowKept(i, f)
      BY <1>1, <2>1, <2>2, <3>1 DEF RowsKeepUp
    <3>3. CASE row[r][f] >= object[i].mtimes[f]
      BY <1>3, <2>1, <2>2, <3>3 DEF RowKept
    <3>4. ASSUME NEW w \in Refreshing(r, f), job[w].pc = "row",
                 job[w].stat >= object[i].mtimes[f]
          PROVE  RowKept(i, f)'
      <4>1. job'[w] = job[w] /\ w \in Worker
        BY <1>6, <3>4 DEF RowsStand, Refreshing
      <4>2. object'[job[w].idx].repo = r /\ job[w].file = f /\ job[w].pc # "none"
        BY <1>1, <3>4, JobFacts DEF Refreshing, JobOn, Shape, Onward
      <4>3. w \in Refreshing(r, f)'
        BY <4>1, <4>2 DEF Refreshing, JobOn, Worker
      <4>4. QED
        BY <1>3, <2>2, <3>4, <4>1, <4>3 DEF RowKept
    <3>5. QED
      BY <3>1, <3>2, <3>3, <3>4 DEF RowKept
  <2>3. ASSUME NEW w \in Refreshing(object[i].repo, f), i \in 1..Len(object),
               job[w].pc = "label", job'[w].pc = "row", job'[w].idx = job[w].idx,
               job'[w].file = f, job'[w].stat = job[w].stat,
               object'[i].mtimes[f] = job[w].stat
        PROVE  RowKept(i, f)'
    <3>1. object[i].repo = r /\ w \in Worker
      BY <1>1, <1>3, <2>3 DEF Shape, Onward, Refreshing
    <3>2. object'[job[w].idx].repo = r
      BY <1>1, <2>3, <3>1, JobFacts DEF Refreshing, JobOn, Shape, Onward
    <3>3. w \in Refreshing(r, f)'
      BY <2>3, <3>1, <3>2 DEF Refreshing, JobOn, Worker
    <3>4. job'[w].stat >= object'[i].mtimes[f]
      BY <1>4, <2>3
    <3>5. QED
      BY <1>3, <2>3, <3>3, <3>4 DEF RowKept
  <2>4. CASE object'[i].mtimes[f] = row[object'[i].repo][f]
    BY <1>3, <1>5, <2>1, <2>4 DEF RowKept
  <2>5. QED
    BY <1>1, <1>2, <2>2, <2>3, <2>4 DEF Shape, LabelsFrom
<1>7. ASSUME NEW v \in Worker, SaveRow(v) PROVE RowKept(i, f)'
  <2>1. PICK q \in Repo, g \in File :
            /\ q = object[job[v].idx].repo /\ g = job[v].file
            /\ v \in Refreshing(q, g) /\ job[v].stat \in 1..saves
            /\ object' = object /\ mtime' = mtime
            /\ \A u \in Worker : u # v => job'[u] = job[u]
            /\ \A rr \in Repo, ff \in File :
                   row'[rr][ff] = IF rr = q /\ ff = g THEN job[v].stat ELSE row[rr][ff]
            /\ \A rr \in Repo, ff \in File :
                   ff \in unsettled[rr] /\ ff \notin unsettled'[rr] =>
                       rr = q /\ ff = g /\ job[v].stat = mtime[q][g] /\ Refreshing(q, g) = {v}
    BY <1>7, RowIs
  <2>2. object[i].repo = r /\ i \in DOMAIN object
    BY <1>2, <1>3, <2>1
  <2>3. PICK n : n = object[i].mtimes[f] /\ n \in Nat /\ Seen(r, f, n)
    BY <1>4, <2>1, <2>2 DEF Seen
  <2>4. CASE r = q /\ f = g
    <3>1. n <= job[v].stat
      <4>1. CASE f \in unsettled[r]
        BY <1>2, <1>3, <1>4, <2>1, <2>3, <2>4, <4>1 DEF Newest
      <4>2. CASE f \notin unsettled[r]
        BY <1>4, <2>1, <2>3, <2>4, <4>2 DEF Settled
      <4>3. QED
        BY <4>1, <4>2
    <3>2. row'[r][f] = job[v].stat
      BY <1>4, <2>1, <2>4
    <3>3. row'[r][f] >= n
      BY <1>5, <2>3, <3>1, <3>2
    <3>4. QED
      BY <1>3, <2>1, <2>3, <3>3 DEF RowKept
  <2>5. CASE ~(r = q /\ f = g)
    <3>1. f \notin unsettled[r] /\ row'[r][f] = row[r][f]
      BY <1>2, <1>3, <1>4, <2>1, <2>5
    <3>2. RowKept(i, f)
      BY <2>2, <3>1 DEF RowsKeepUp
    <3>3. CASE row[r][f] >= object[i].mtimes[f]
      BY <1>3, <2>1, <3>1, <3>3 DEF RowKept
    <3>4. ASSUME NEW w \in Refreshing(r, f), job[w].pc = "row",
                 job[w].stat >= object[i].mtimes[f]
          PROVE  RowKept(i, f)'
      <4>1. w # v /\ w \in Worker
        BY <2>1, <2>5, <3>4 DEF Refreshing, JobOn
      <4>2. job'[w] = job[w]
        BY <2>1, <4>1
      <4>3. w \in Refreshing(r, f)'
        BY <2>1, <3>4, <4>1, <4>2 DEF Refreshing, JobOn, Worker
      <4>4. QED
        BY <1>3, <2>1, <3>4, <4>2, <4>3 DEF RowKept
    <3>5. QED
      BY <2>2, <3>2, <3>3, <3>4 DEF RowKept
  <2>6. QED
    BY <2>4, <2>5
<1>8. QED
  BY <1>6, <1>7, RowsFrom

LEMMA RowsInit == Init => RowsInv
BY DEF Init, RowsInv, Newest, Settled, RowsKeepUp, Refreshing, JobOn, NoJob, Nothing

LEMMA RowsStep == Types /\ RowsInv /\ [Next]_vars => RowsInv'
<1> SUFFICES ASSUME Types, RowsInv, [Next]_vars PROVE RowsInv'
  OBVIOUS
<1>1. CASE ~Restart
  BY <1>1, NewestStep, SettledStep, RowsKeepUpStep DEF RowsInv
<1>2. CASE Restart
  <2>1. /\ mtime' = mtime /\ row' = row /\ object' = <<>> /\ job' = [w \in Worker |-> NoJob]
    BY <1>2 DEF Restart, disk
  <2>2. \A r \in Repo, f \in File : Refreshing(r, f)' = {}
    BY <2>1 DEF Refreshing, JobOn, NoJob, Worker
  <2>3. DOMAIN object' = {}
    BY <2>1
  <2>4. \A r \in Repo, f \in File, n \in Nat : Seen(r, f, n)' => Seen(r, f, n)
    BY <2>1, <2>2, <2>3 DEF Seen
  <2>5. Newest'
    BY <2>1, <2>4 DEF RowsInv, Newest
  <2>6. QED
    BY <2>2, <2>3, <2>5 DEF RowsInv, Settled, RowsKeepUp
<1>3. QED
  BY <1>1, <1>2

\* A restart takes an index back only between label and row, and of files saved
\* during a refresh of them: for every other file the rows of a repository are at
\* least as new as what any of its indexes knows, with refreshes side by side.
THEOREM RowsLead == Spec => []RowsKeepUp
<1>1. Init => Types /\ RowsInv
  BY TypesInit, RowsInit
<1>2. Types /\ RowsInv /\ [Next]_vars => (Types /\ RowsInv)'
  BY TypesStep, RowsStep
<1>3. RowsInv => RowsKeepUp
  BY DEF RowsInv
<1>4. QED
  BY <1>1, <1>2, <1>3, PTL DEF Spec
-----------------------------------------------------------------------------
(* No save is lost *)

\* The refresh of an observer's thread is of its repository; what was saved
\* since its stat is in its queue.
Own(r) ==
    job[r].pc # "none" =>
        /\ r \in running /\ object[job[r].idx].repo = r
        /\ mtime[r][job[r].file] \in {0, job[r].stat} \/ job[r].file \in queue[r]

OwnInv == \A r \in Repo : Own(r)

\* Steps of an observer's thread, and others.
LEMMA ObserverFrom ==
    ASSUME Types, [Next]_vars, ~Restart, NEW r \in Repo
    PROVE  \/ job'[r] = job[r] /\ queue[r] \subseteq queue'[r] /\ (r \in running => r \in running')
           \/ Skip(r) \/ Reindex(r) \/ Label(r) \/ SaveRow(r) \/ HandlerFails(r)
           \/ \E f \in File : HandleEvent(r, f)
<1> DEFINE Stands == job'[r] = job[r] /\ queue[r] \subseteq queue'[r]
                     /\ (r \in running => r \in running')
<1>0. /\ DiskOK /\ ObjectsOK /\ TableOK /\ WatchOK /\ ReqOK /\ JobsOK
      /\ queue \in [Repo -> SUBSET File]
      /\ Thread \subseteq Worker /\ Repo \subseteq Worker /\ r \notin Thread
  BY ConstantsAssumption DEF Types, WatchOK, Worker
<1>1. ASSUME job' = job, queue' = queue, running \subseteq running' PROVE Stands
  BY <1>1
<1>2. ASSUME NEW q \in Repo, NEW f \in File, SaveFile(q, f) PROVE Stands
  <2>1. PICK S \in {queue[q], queue[q] \union {f}} : queue' = [queue EXCEPT ![q] = S]
    BY <1>2 DEF SaveFile
  <2>2. queue[r] \subseteq queue'[r]
    BY <1>0, <2>1
  <2>3. QED
    BY <1>2, <2>2 DEF SaveFile
<1>3. ASSUME NEW w \in Worker, w # r, queue' = queue, running' = running,
             \A v \in Worker : v # w => job'[v] = job[v]
      PROVE  Stands
  BY <1>0, <1>3
<1>4. ASSUME NEW w \in Worker, w # r, Skip(w) \/ Reindex(w) \/ Label(w) \/ SaveRow(w)
      PROVE  Stands
  <2>1. /\ queue' = queue /\ running' = running
        /\ job' \in {[job EXCEPT ![w] = NoJob], [job EXCEPT ![w].pc = "label"],
                     [job EXCEPT ![w].pc = "row"]}
    BY <1>4 DEF Skip, Reindex, Label, SaveRow, watching
  <2>2. \A v \in Worker : v # w => job'[v] = job[v]
    BY <1>0, <2>1, JobEnds, JobGoesOn
  <2>3. QED
    BY <1>3, <1>4, <2>1, <2>2
<1>5. ASSUME NEW t \in Thread, NEW f \in File, Refresh(t, f) PROVE Stands
  <2>1. /\ req[t].pc \in Busy /\ Stat(t, req[t].idx, f)
        /\ queue' = queue /\ running' = running
    BY <1>5 DEF Refresh, Busy, watching
  <2>2. req[t].idx \in 1..Len(object) /\ t \in Worker /\ t # r
    BY <1>0, <2>1, RequestFacts
  <2>3. \A v \in Worker : v # t => job'[v] = job[v]
    BY <1>0, <2>1, <2>2, StatIs
  <2>4. QED
    BY <1>3, <2>1, <2>2, <2>3
<1>6. ASSUME NEW t \in Thread, RefreshFails(t) PROVE Stands
  <2>1. job' = [job EXCEPT ![t] = NoJob] /\ queue' = queue /\ running' = running
    BY <1>6 DEF RefreshFails, watching
  <2>2. t \in Worker /\ t # r
    BY <1>0
  <2>3. \A v \in Worker : v # t => job'[v] = job[v]
    BY <1>0, <2>1, <2>2, JobEnds
  <2>4. QED
    BY <1>3, <2>1, <2>2, <2>3
<1>7. ASSUME NEW t \in Thread, EndScan(t) \/ EndRefresh(t) PROVE Stands
  <2>1. job' = job /\ queue' = queue /\ running \subseteq running'
    BY <1>7 DEF EndScan, EndRefresh, StartWatching
  <2>2. QED
    BY <1>1, <2>1
<1>8. ASSUME NEW t \in Thread, Step(t) PROVE Stands
  <2>1. CASE AnswerWithoutIndex(t) \/ Rank(t) \/ BuildStart(t) \/ BuildEnd(t) \/ BuildFails(t)
             \/ RankFails(t) \/ LookUp(t)
    <3>1. job' = job /\ queue' = queue /\ running' = running
      BY <2>1 DEF AnswerWithoutIndex, Rank, BuildStart, BuildEnd, BuildFails, RankFails,
         LookUp, watching
    <3>2. QED
      BY <3>1
  <2>2. QED
    BY <1>5, <1>6, <1>7, <1>8, <2>1 DEF Step
<1>9. ASSUME NEW q \in Repo, q # r, NEW f \in File, HandleEvent(q, f) PROVE Stands
  <2>1. queue' = [queue EXCEPT ![q] = @ \ {f}] /\ running' = running /\ q \in Worker
    BY <1>0, <1>9 DEF HandleEvent
  <2>2. job'[r] = job[r]
    <3>1. ASSUME NEW k \in DOMAIN table, Stat(q, table[k], f) PROVE job'[r] = job[r]
      <4>1. table[k] \in 1..Len(object)
        BY <1>0 DEF TableOK
      <4>2. QED
        BY <1>0, <1>9, <2>1, <3>1, <4>1, StatIs
    <3>2. QED
      BY <1>9, <3>1 DEF HandleEvent, HandlerIndex, Places, At
  <2>3. QED
    BY <1>0, <1>9, <2>1, <2>2
<1>10. ASSUME NEW q \in Repo, q # r, HandlerFails(q) PROVE Stands
  <2>1. /\ queue' = [queue EXCEPT ![q] = {}] /\ running' = running \ {q}
        /\ job' = [job EXCEPT ![q] = NoJob] /\ q \in Worker
    BY <1>0, <1>10 DEF HandlerFails
  <2>2. job'[r] = job[r]
    BY <1>0, <1>10, <2>1, JobEnds
  <2>3. QED
    BY <1>0, <1>10, <2>1, <2>2
<1>11. ASSUME NEW q \in Repo, NEW f \in File, DeleteFile(q, f) PROVE Stands
  BY <1>11 DEF DeleteFile, watching
<1>12. ASSUME NEW t \in Thread, NEW q \in Repo, NEW f \in File \union {NoFile},
              BeginRequest(t, q, f)
       PROVE  Stands
  BY <1>12 DEF BeginRequest, watching
<1>13. ASSUME UNCHANGED vars PROVE Stands
  BY <1>13 DEF vars, watching
<1> HIDE DEF Stands
<1>14. \/ Stands
       \/ Skip(r) \/ Reindex(r) \/ Label(r) \/ SaveRow(r) \/ HandlerFails(r)
       \/ \E f \in File : HandleEvent(r, f)
  BY <1>2, <1>4, <1>8, <1>9, <1>10, <1>11, <1>12, <1>13 DEF Next
<1>15. QED
  BY <1>14 DEF Stands

LEMMA OwnStep ==
    ASSUME Types, [Next]_vars, ~Restart, OwnInv
    PROVE  OwnInv'
<1>0. /\ DiskOK /\ ObjectsOK /\ TableOK /\ JobsOK /\ Shape /\ queue \in [Repo -> SUBSET File]
      /\ Repo \subseteq Worker
  BY ShapeStep DEF Types, WatchOK, Worker
<1>1. SUFFICES ASSUME NEW r \in Repo, job'[r].pc # "none"
               PROVE  /\ r \in running' /\ object'[job'[r].idx].repo = r
                      /\ \/ mtime'[r][job'[r].file] \in {0, job'[r].stat}
                         \/ job'[r].file \in queue'[r]
  BY DEF OwnInv, Own
<1>2. ASSUME job[r].pc # "none", job'[r].idx = job[r].idx, job'[r].file = job[r].file,
             job'[r].stat = job[r].stat, queue[r] \subseteq queue'[r],
             r \in running => r \in running'
      PROVE  /\ r \in running' /\ object'[job'[r].idx].repo = r
             /\ \/ mtime'[r][job'[r].file] \in {0, job'[r].stat}
                \/ job'[r].file \in queue'[r]
  <2>1. /\ r \in running /\ object[job[r].idx].repo = r
        /\ mtime[r][job[r].file] \in {0, job[r].stat} \/ job[r].file \in queue[r]
    BY <1>2 DEF OwnInv, Own
  <2>2. job[r].idx \in 1..Len(object) /\ job[r].file \in File
    BY <1>0, <1>2, JobFacts
  <2>3. object'[job'[r].idx].repo = r
    BY <1>0, <1>2, <2>1, <2>2 DEF Shape, Onward
  <2>4. CASE mtime'[r][job[r].file] \in {mtime[r][job[r].file], 0}
    BY <1>2, <2>1, <2>3, <2>4
  <2>5. CASE SaveFile(r, job[r].file)
    <3>1. queue' = [queue EXCEPT ![r] = @ \union {job[r].file}]
      BY <2>1, <2>5 DEF SaveFile
    <3>2. QED
      BY <1>0, <1>2, <2>1, <2>3, <3>1
  <2>6. QED
    BY <2>2, <2>4, <2>5, DiskFrom
<1>3. CASE job'[r] = job[r] /\ queue[r] \subseteq queue'[r] /\ (r \in running => r \in running')
  BY <1>1, <1>2, <1>3
<1>4. CASE Reindex(r) \/ Label(r)
  <2>1. /\ job[r].pc # "none" /\ queue' = queue /\ running' = running
        /\ job' \in {[job EXCEPT ![r].pc = "label"], [job EXCEPT ![r].pc = "row"]}
    BY <1>4 DEF Reindex, Label, watching
  <2>2. job'[r].idx = job[r].idx /\ job'[r].file = job[r].file /\ job'[r].stat = job[r].stat
    BY <1>0, <2>1, JobGoesOn
  <2>3. QED
    BY <1>2, <2>1, <2>2
<1>5. CASE Skip(r) \/ SaveRow(r) \/ HandlerFails(r)
  <2>1. job' = [job EXCEPT ![r] = NoJob]
    BY <1>5 DEF Skip, SaveRow, HandlerFails
  <2>2. QED
    BY <1>0, <1>1, <2>1, JobEnds
<1>6. ASSUME NEW f \in File, HandleEvent(r, f)
      PROVE  /\ r \in running' /\ object'[job'[r].idx].repo = r
             /\ mtime'[r][job'[r].file] \in {0, job'[r].stat}
  <2>1. /\ r \in running' /\ object' = object /\ mtime' = mtime /\ job[r].pc = "none"
        /\ r \in Worker
    BY <1>0, <1>6 DEF HandleEvent, Free, disk, index
  <2>2. PICK k \in DOMAIN table : object[table[k]].repo = r /\ Stat(r, table[k], f)
    <3>1. job' # job
      BY <1>1, <2>1
    <3>2. QED
      BY <1>6, <3>1 DEF HandleEvent, HandlerIndex, Places, At
  <2>3. table[k] \in 1..Len(object)
    BY <1>0 DEF TableOK
  <2>4. /\ mtime[r][f] = 0 => job' = job
        /\ mtime[r][f] # 0 => /\ job'[r].idx = table[k] /\ job'[r].file = f
                              /\ job'[r].stat = mtime[r][f]
    BY <1>0, <2>1, <2>2, <2>3, StatIs
  <2>5. QED
    BY <1>1, <2>1, <2>2, <2>4
<1>7. QED
  BY <1>3, <1>4, <1>5, <1>6, ObserverFrom

\* The observer of a watched index knows of each of its stale files.
Safe(i) ==
    object[i].watched /\ object[i].repo \in running =>
        \A f \in Stale(i) : f \in Expected(i) \/ f \in object[i].late

LostInv == \A i \in DOMAIN object : (\E k \in DOMAIN table : table[k] = i) => Safe(i)

LEMMA LostMeans == Types /\ LostInv => NoSaveLost
<1> SUFFICES ASSUME Types, LostInv, NEW k \in DOMAIN table
             PROVE  object[table[k]].watched /\ object[table[k]].repo \in running =>
                        Stale(table[k]) \subseteq Expected(table[k]) \union object[table[k]].late
  BY DEF NoSaveLost, At
<1>1. table[k] \in DOMAIN object
  BY ObjectFacts DEF Types, TableOK
<1>2. QED
  BY <1>1 DEF LostInv, Safe

\* An index that stays as it is, where no file is saved.
LEMMA SafeStays ==
    ASSUME NEW i, NEW r, r = object[i].repo, Safe(i), object'[i] = object[i],
           \A f \in File : mtime'[r][f] \in {mtime[r][f], 0},
           r \in running' => r \in running, queue[r] \subseteq queue'[r], job'[r] = job[r]
    PROVE  Safe(i)'
<1>1. SUFFICES ASSUME object[i].watched, r \in running', NEW f \in Stale(i)'
               PROVE  f \in Expected(i)' \/ f \in object'[i].late
  BY DEF Safe
<1>2. f \in Stale(i) /\ mtime'[r][f] = mtime[r][f]
  BY <1>1 DEF Stale
<1>3. CASE f \in object[i].late
  BY <1>3
<1>4. CASE f \in Expected(i)
  BY <1>2, <1>4 DEF Expected
<1>5. QED
  BY <1>1, <1>2, <1>3, <1>4 DEF Safe

\* What changes indexes, the table, and who runs.
LEMMA IndexFrom ==
    ASSUME [Next]_vars, ~Restart
    PROVE  \/ object' = object /\ table' = table /\ running' \subseteq running
           \/ \E q \in Repo, f \in File : SaveFile(q, f)
           \/ \E t \in Thread : LookUp(t) \/ EndScan(t) \/ EndRefresh(t)
           \/ \E w \in Worker : Label(w)
<1>1. ASSUME NEW t \in Thread, Step(t), ~LookUp(t), ~EndScan(t), ~EndRefresh(t)
      PROVE  object' = object /\ table' = table /\ running' = running
  BY <1>1 DEF Step, AnswerWithoutIndex, Refresh, RefreshFails, BuildStart, BuildFails, BuildEnd,
     Rank, RankFails, index, watching
<1>2. ASSUME NEW w \in Worker, Skip(w) \/ Reindex(w) \/ SaveRow(w)
      PROVE  object' = object /\ table' = table /\ running' = running
  BY <1>2 DEF Skip, Reindex, SaveRow, index, watching
<1>3. ASSUME NEW r \in Repo, NEW f \in File, HandleEvent(r, f) \/ DeleteFile(r, f)
      PROVE  object' = object /\ table' = table /\ running' \subseteq running
  BY <1>3 DEF HandleEvent, HandlerFails, DeleteFile, index, watching
<1>4. ASSUME NEW r \in Repo, HandlerFails(r)
      PROVE  object' = object /\ table' = table /\ running' \subseteq running
  BY <1>4 DEF HandlerFails, index
<1>5. ASSUME NEW t \in Thread, NEW q \in Repo, NEW f \in File \union {NoFile},
             BeginRequest(t, q, f)
      PROVE  object' = object /\ table' = table /\ running' = running
  BY <1>5 DEF BeginRequest, index, watching
<1>6. ASSUME UNCHANGED vars PROVE object' = object /\ table' = table /\ running' = running
  BY <1>6 DEF vars, index, watching
<1>7. QED
  BY <1>1, <1>2, <1>3, <1>4, <1>5, <1>6 DEF Next

LEMMA LostStep ==
    ASSUME Types, [Next]_vars, ~Restart, OwnInv, LostInv
    PROVE  LostInv'
<1>0. /\ DiskOK /\ ObjectsOK /\ TableOK /\ WatchOK /\ ReqOK /\ JobsOK /\ Shape
      /\ queue \in [Repo -> SUBSET File]
      /\ Thread \subseteq Worker /\ Repo \subseteq Worker /\ Thread \intersect Repo = {}
      /\ DOMAIN object = 1..Len(object)
      /\ \A i \in 1..Len(object) : object[i] \in Object /\ object[i].repo \in Repo
      /\ \A i \in 1..Len(object) : object'[i].repo = object[i].repo
      /\ \A k \in DOMAIN table : table[k] \in 1..Len(object)
      /\ \A j, k \in DOMAIN table : object[table[j]].repo = object[table[k]].repo => j = k
  BY ShapeStep, ObjectFacts, ConstantsAssumption
  DEF Types, WatchOK, Worker, Object, Shape, Onward, TableOK, At
<1>a. ASSUME NEW k \in DOMAIN table PROVE table[k] \in DOMAIN object /\ Safe(table[k])
  BY <1>0 DEF LostInv
<1>1. SUFFICES ASSUME NEW i, NEW kk \in DOMAIN table', table'[kk] = i PROVE Safe(i)'
  BY DEF LostInv
\* An index that was in the table before.
<1> DEFINE r == object[i].repo
           Before == i \in 1..Len(object) /\ \E k \in DOMAIN table : table[k] = i
<1>b. ASSUME Before PROVE Safe(i) /\ r \in Repo /\ object'[i].repo = r
  BY <1>0, <1>b DEF LostInv
<1>2. ASSUME NEW q \in Repo, NEW f \in File, SaveFile(q, f) PROVE Safe(i)'
  <2>1. /\ table' = table /\ running' = running /\ job' = job
        /\ mtime' = [mtime EXCEPT ![q][f] = saves + 1]
        /\ queue' = [queue EXCEPT ![q] = IF q \in running THEN @ \union {f} ELSE @]
    BY <1>2 DEF SaveFile
  <2>2. Before /\ i \in 1..Len(object)
    BY <1>0, <1>1, <2>1
  <2>3. /\ object'[i].repo = r /\ object'[i].mtimes = object[i].mtimes
        /\ object'[i].watched = object[i].watched
        /\ object'[i].late = IF r = q THEN object[i].late \ {f} ELSE object[i].late
    <3>1. \A j \in 1..Len(object) :
              /\ object'[j].repo = object[j].repo
              /\ object'[j].mtimes = object[j].mtimes
              /\ object'[j].watched = object[j].watched
              /\ object'[j].late = IF object[j].repo = q THEN object[j].late \ {f}
                                                         ELSE object[j].late
      <4>1. DiskOK /\ ObjectsOK
        BY <1>0
      <4>2. QED
        BY <1>2, <4>1, Saved
    <3>2. QED
      BY <2>2, <3>1
  <2>4. Safe(i) /\ r \in Repo
    BY <1>b, <2>2
  <2> HIDE DEF Before
  <2>5. SUFFICES ASSUME object[i].watched, r \in running, NEW g \in Stale(i)'
                 PROVE  g \in Expected(i)' \/ g \in object'[i].late
    BY <2>1, <2>3 DEF Safe
  <2>6. g \in File /\ mtime'[r][g] \notin {0, object[i].mtimes[g]}
    BY <2>3, <2>5 DEF Stale
  <2>7. queue[r] \subseteq queue'[r] /\ (r = q => f \in queue'[r])
    BY <1>0, <2>1, <2>4, <2>5
  <2>8. CASE q = r /\ g = f
    BY <2>3, <2>7, <2>8 DEF Expected
  <2>9. CASE ~(q = r /\ g = f)
    <3>1. mtime'[r][g] = mtime[r][g]
      BY <1>0, <2>1, <2>4, <2>6, <2>9 DEF DiskOK
    <3>2. g \in Stale(i)
      BY <2>6, <3>1 DEF Stale
    <3>3. g \in Expected(i) \/ g \in object[i].late
      BY <2>4, <2>5, <3>2 DEF Safe
    <3>4. CASE g \in object[i].late
      BY <2>3, <2>9, <3>4
    <3>5. CASE g \in Expected(i)
      BY <2>1, <2>3, <2>6, <2>7, <3>1, <3>5 DEF Expected
    <3>6. QED
      BY <3>3, <3>4, <3>5
  <2>10. QED
    BY <2>8, <2>9
<1>3. ASSUME NEW t \in Thread, LookUp(t) PROVE Safe(i)'
  <2> DEFINE q == req[t].repo
  <2>1. UNCHANGED <<saves, mtime, row, running, queue, job>> /\ req[t].pc = "walkers"
    BY <1>3 DEF LookUp, disk, watching, IsAt
  <2>2. q \in Repo
    BY <1>0, <2>1, RequestFacts
  <2>3. PICK n \in 1..Len(object) + 1 : GetOrCreate(q, n)
    BY <1>3 DEF LookUp
  <2> HIDE DEF q
  <2>4. /\ \A j \in 1..Len(object) : object'[j] = object[j]
        /\ \A k \in DOMAIN table' : \/ \E j \in DOMAIN table : table'[k] = table[j]
                                    \/ table'[k] = n /\ n \notin 1..Len(object)
        /\ n \notin 1..Len(object) => object'[n] = New(q)
    BY <1>0, <2>1, <2>2, <2>3, LookedUp
  <2>5. CASE i = n /\ n \notin 1..Len(object)
    <3>1. ~object'[i].watched
      BY <2>4, <2>5 DEF New
    <3>2. QED
      BY <3>1 DEF Safe
  <2>6. CASE \E j \in DOMAIN table : i = table[j]
    <3>1. Before /\ object'[i] = object[i]
      BY <1>0, <2>4, <2>6
    <3>2. Safe(i) /\ r \in Repo
      BY <1>b, <3>1
    <3>3. QED
      BY <2>1, <3>1, <3>2, SafeStays
  <2>7. QED
    BY <1>1, <2>4, <2>5, <2>6
<1>4. ASSUME NEW t \in Thread, EndScan(t) \/ EndRefresh(t) PROVE Safe(i)'
  <2>1. StartWatching(req[t].idx) /\ req[t].pc \in Busy
        /\ UNCHANGED <<saves, mtime, row, table, built, job>>
    BY <1>4 DEF EndScan, EndRefresh, IsAt, Busy, disk
  <2>2. PICK n \in DOMAIN object : n = req[t].idx /\ StartWatching(n)
    BY <1>0, <2>1, RequestFacts
  <2>3. /\ \A j \in 1..Len(object) : /\ object'[j].repo = object[j].repo
                                     /\ object'[j].mtimes = object[j].mtimes
                                     /\ j # n => object'[j] = object[j]
        /\ object'[n].late = IF object[n].watched THEN object[n].late
                             ELSE Stale(n) \ Expected(n)
    BY <1>0, <2>1, <2>2, Watched
  <2>4. /\ queue' = queue
        /\ running' = IF object[n].repo \in observers THEN running
                      ELSE running \union {object[n].repo}
    BY <2>1, <2>2 DEF StartWatching
  <2>5. Before
    BY <1>0, <1>1, <2>1
  <2>6. Safe(i) /\ r \in Repo /\ i \in 1..Len(object) /\ (object[i].watched => r \in observers)
    BY <1>0, <1>b, <2>5 DEF WatchOK
  <2> HIDE DEF Before
  <2>7. object[i].watched /\ r \in running' => r \in running
    BY <2>4, <2>6
  <2>8. CASE i # n
    <3>1. object'[i] = object[i]
      BY <2>3, <2>6, <2>8
    <3>2. CASE object[i].watched
      BY <2>1, <2>4, <2>6, <2>7, <3>1, <3>2, SafeStays
    <3>3. CASE ~object[i].watched
      BY <3>1, <3>3 DEF Safe
    <3>4. QED
      BY <3>2, <3>3
  <2>9. CASE i = n
    <3>1. /\ object'[i].repo = r /\ object'[i].mtimes = object[i].mtimes
          /\ object'[i].late = IF object[i].watched THEN object[i].late
                               ELSE Stale(i) \ Expected(i)
      BY <2>3, <2>6, <2>9
    <3>2. Stale(i)' = Stale(i) /\ Expected(i)' = Expected(i)
      BY <2>1, <2>4, <3>1 DEF Stale, Expected
    <3>3. QED
      BY <2>6, <2>7, <3>1, <3>2 DEF Safe
  <2>10. QED
    BY <2>8, <2>9
<1>5. ASSUME NEW w \in Worker, Label(w) PROVE Safe(i)'
  <2> DEFINE n == job[w].idx
             f == job[w].file
             s == job[w].stat
  <2>1. /\ job[w].pc = "label" /\ job' = [job EXCEPT ![w].pc = "row"]
        /\ UNCHANGED <<saves, mtime, table, observers, running, queue>>
    BY <1>5 DEF Label, disk, watching
  <2>2. Before
    BY <1>0, <1>1, <2>1
  <2>3. Safe(i) /\ r \in Repo /\ object'[i].repo = r /\ i \in 1..Len(object)
    BY <1>b, <2>2
  <2> HIDE DEF Before
  <2>4. /\ n \in 1..Len(object) /\ f \in File /\ object'[i].watched = object[i].watched
        /\ object'[i].late = IF i = n THEN object[i].late \union TakenBack(w) ELSE object[i].late
        /\ \A g \in File :
               object'[i].mtimes[g] = IF i = n /\ g = f THEN s ELSE object[i].mtimes[g]
    BY <1>0, <1>5, <2>3, LabelIs
  <2>5. \A v \in Worker : v # w => job'[v] = job[v]
    BY <1>0, <2>1, JobGoesOn
  <2>6. SUFFICES ASSUME object[i].watched, r \in running, NEW g \in Stale(i)'
                 PROVE  g \in Expected(i)' \/ g \in object'[i].late
    BY <2>1, <2>3, <2>4 DEF Safe
  <2>7. g \in File /\ mtime[r][g] \notin {0, object'[i].mtimes[g]}
    BY <2>1, <2>3, <2>6 DEF Stale
  <2>8. CASE i = n /\ g = f
    <3>1. object[n].repo = r /\ mtime[r][f] \notin {0, s}
      BY <2>4, <2>7, <2>8
    <3>2. CASE w \in Thread
      <4>1. f \in TakenBack(w) \/ f \in Expected(i)
        BY <2>6, <2>8, <3>1, <3>2 DEF TakenBack
      <4>2. f \in Expected(i) => f \in Expected(i)'
        <5>1. job'[r] = job[r]
          BY <1>0, <2>3, <2>5, <3>2
        <5>2. QED
          BY <2>1, <2>3, <5>1 DEF Expected
      <4>3. QED
        BY <2>4, <2>8, <4>1, <4>2
    <3>3. CASE w \in Repo
      <4>1. w = r /\ f \in queue[r]
        BY <1>0, <2>1, <3>1, <3>3 DEF OwnInv, Own
      <4>2. QED
        BY <2>1, <2>3, <2>8, <4>1 DEF Expected
    <3>4. QED
      BY <3>2, <3>3 DEF Worker
  <2>9. CASE ~(i = n /\ g = f)
    <3>1. g \in Stale(i)
      BY <2>4, <2>7, <2>9 DEF Stale
    <3>2. g \in Expected(i) \/ g \in object[i].late
      BY <2>3, <2>6, <3>1 DEF Safe
    <3>3. CASE g \in object[i].late
      BY <2>4, <3>3
    <3>4. CASE g \in Expected(i)
      <4>1. CASE w = r
        BY <2>1, <2>3, <2>9, <3>4, <4>1 DEF Expected
      <4>2. CASE w # r
        <5>1. job'[r] = job[r]
          BY <1>0, <2>3, <2>5, <4>2
        <5>2. QED
          BY <2>1, <2>3, <3>4, <5>1 DEF Expected
      <4>3. QED
        BY <4>1, <4>2
    <3>5. QED
      BY <3>2, <3>3, <3>4
  <2>10. QED
    BY <2>8, <2>9
<1>6. ASSUME object' = object, table' = table, running' \subseteq running,
             \A q \in Repo, f \in File : ~SaveFile(q, f), \A w \in Worker : ~Label(w)
      PROVE  Safe(i)'
  <2>1. Safe(i) /\ r \in Repo /\ i \in 1..Len(object)
    <3>1. Before
      BY <1>0, <1>1, <1>6
    <3>2. QED
      BY <1>b, <3>1
  <2> HIDE DEF Before
  <2>2. \A f \in File : mtime'[r][f] \in {mtime[r][f], 0}
    BY <1>6, <2>1, DiskFrom
  <2>3. ASSUME queue[r] \subseteq queue'[r],
               \A f \in Expected(i) \ queue[r] : f \in Expected(i)' \/ f \notin Stale(i)'
        PROVE  Safe(i)'
    <3>1. SUFFICES ASSUME object[i].watched, r \in running', NEW f \in Stale(i)'
                   PROVE  f \in Expected(i)' \/ f \in object[i].late
      BY <1>6 DEF Safe
    <3>2. f \in Stale(i)
      BY <1>6, <2>2, <3>1 DEF Stale
    <3>3. f \in Expected(i) \/ f \in object[i].late
      BY <1>6, <2>1, <3>1, <3>2 DEF Safe
    <3>4. f \in queue[r] => f \in Expected(i)'
      BY <1>6, <2>3 DEF Expected
    <3>5. QED
      BY <2>3, <3>1, <3>3, <3>4
  <2>4. CASE job'[r] = job[r] /\ queue[r] \subseteq queue'[r]
    <3>1. i = i /\ r = object[i].repo /\ (r \in running' => r \in running) /\ object'[i] = object[i]
      BY <1>6
    <3> HIDE DEF r
    <3>2. QED
      BY <2>1, <2>2, <2>4, <3>1, SafeStays
  <2>5. CASE Skip(r)
    <3>1. /\ job[r].pc = "compare" /\ object[job[r].idx].mtimes[job[r].file] = job[r].stat
          /\ UNCHANGED <<mtime, queue>>
      BY <2>5 DEF Skip, disk, watching
    <3>2. \A f \in Expected(i) \ queue[r] : f \notin Stale(i)'
      BY <1>6, <3>1 DEF Expected, Stale
    <3>3. QED
      BY <2>3, <3>1, <3>2
  <2>6. CASE Reindex(r)
    <3>1. /\ job[r].pc = "compare" /\ job' = [job EXCEPT ![r].pc = "label"]
          /\ UNCHANGED <<mtime, queue>> /\ r \in Worker
      BY <1>0, <2>1, <2>6 DEF Reindex, disk, watching
    <3>2. /\ job'[r].pc = "label" /\ job'[r].idx = job[r].idx /\ job'[r].file = job[r].file
          /\ job'[r].stat = job[r].stat
      BY <1>0, <3>1, JobGoesOn
    <3>3. \A f \in Expected(i) : f \in Expected(i)'
      BY <1>6, <3>1, <3>2 DEF Expected
    <3>4. QED
      BY <2>3, <3>1, <3>3
  <2>7. CASE SaveRow(r)
    <3>1. job[r].pc = "row" /\ queue' = queue
      BY <2>7 DEF SaveRow, watching
    <3>2. \A f \in Expected(i) : f \in queue[r]
      BY <3>1 DEF Expected
    <3>3. QED
      BY <2>3, <3>1, <3>2
  <2>8. CASE HandlerFails(r)
    <3>1. r \notin running'
      BY <2>8 DEF HandlerFails
    <3>2. QED
      BY <1>6, <3>1 DEF Safe
  <2>9. ASSUME NEW f \in File, HandleEvent(r, f) PROVE Safe(i)'
    <3>1. /\ queue' = [queue EXCEPT ![r] = @ \ {f}] /\ job[r].pc = "none" /\ mtime' = mtime
          /\ r \in Worker
      BY <1>0, <2>1, <2>9 DEF HandleEvent, Free, disk
    <3>2. \A g \in Expected(i) : g = f \/ g \in queue'[r]
      BY <1>0, <2>1, <3>1 DEF Expected
    <3>3. PICK k \in DOMAIN table : table[k] = i
      BY <1>1, <1>6
    <3>4. k \in Places(r)
      BY <3>3 DEF Places, At
    <3>5. PICK j \in DOMAIN table : object[table[j]].repo = r /\ Stat(r, table[j], f)
      BY <2>9, <3>4 DEF HandleEvent, HandlerIndex, Places, At
    <3>6. table[j] = i
      BY <1>0, <3>3, <3>5
    <3>7. /\ mtime[r][f] # 0 => /\ job'[r].pc = "compare" /\ job'[r].idx = i
                                /\ job'[r].file = f /\ job'[r].stat = mtime[r][f]
      BY <1>0, <2>1, <3>1, <3>5, <3>6, StatIs
    <3>8. f \in Expected(i)' \/ f \notin Stale(i)'
      BY <1>6, <3>1, <3>7 DEF Expected, Stale
    <3>9. \A g \in queue'[r] : g \in Expected(i)'
      BY <1>6 DEF Expected
    <3>10. SUFFICES ASSUME object[i].watched, r \in running', NEW g \in Stale(i)'
                    PROVE  g \in Expected(i)' \/ g \in object[i].late
      BY <1>6 DEF Safe
    <3>11. g \in Stale(i)
      BY <1>6, <3>1, <3>10 DEF Stale
    <3>12. g \in Expected(i) \/ g \in object[i].late
      BY <1>6, <2>1, <3>10, <3>11 DEF Safe
    <3>13. QED
      BY <3>2, <3>8, <3>9, <3>10, <3>12
  <2>10. ~Label(r)
    BY <1>0, <1>6, <2>1
  <2>11. QED
    BY <2>1, <2>10, <2>4, <2>5, <2>6, <2>7, <2>8, <2>9, ObserverFrom
<1>7. QED
  BY <1>2, <1>3, <1>4, <1>5, <1>6, IndexFrom

\* Once a request has made sure of the observer, a save made while the observer's
\* thread runs is indexed, or its event is queued or being handled for the index in
\* the table, unless a request that had seen an older version labels it after that.
THEOREM SavesKept == Spec => []NoSaveLost
<1> DEFINE Inv == Types /\ OwnInv /\ LostInv
<1>1. Init => Inv
  <2>1. Init => OwnInv /\ LostInv
    BY DEF Init, OwnInv, Own, LostInv, NoJob, Worker
  <2>2. QED
    BY <2>1, TypesInit
<1>2. Inv /\ [Next]_vars => Inv'
  <2>1. SUFFICES ASSUME Inv, [Next]_vars PROVE Inv'
    OBVIOUS
  <2>2. Types'
    BY <2>1, TypesStep
  <2>3. CASE Restart
    <3>1. table' = <<>> /\ object' = <<>> /\ job' = [w \in Worker |-> NoJob]
      BY <2>3 DEF Restart
    <3>2. QED
      BY <2>2, <3>1 DEF OwnInv, Own, LostInv, NoJob, Worker
  <2>4. CASE ~Restart
    BY <2>1, <2>2, <2>4, OwnStep, LostStep
  <2>5. QED
    BY <2>3, <2>4
<1>3. Inv => NoSaveLost
  BY LostMeans
<1> HIDE DEF Inv
<1>4. QED
  BY <1>1, <1>2, <1>3, PTL DEF Spec
-----------------------------------------------------------------------------
(* Requests rank around fresh files *)

\* No version of the active file that is or may be put into an index is older than
\* the request asks for.
Asks(t) ==
    LET r == req[t].repo f == req[t].active IN
    req[t].pc # "idle" /\ f # NoFile =>
        /\ req[t].asked <= mtime[r][f]
        /\ \A w \in Refreshing(r, f) : req[t].asked <= job[w].stat

Good(t) ==
    LET label == object[req[t].idx].mtimes[req[t].active] IN
    label >= req[t].asked \/ (req[t].active \notin Scanned /\ label = 0)

\* The active file is still to be refreshed, is being refreshed, or is fresh.
Fresh(t) ==
    req[t].pc \in Busy =>
        \/ req[t].pc \in {"scan", "refresh"} /\ req[t].active \in req[t].todo
        \/ /\ req[t].pc \in {"scan", "refresh"} /\ job[t].pc \in {"compare", "label"}
           /\ job[t].file = req[t].active /\ job[t].idx = req[t].idx
        \/ Good(t)

FreshInv == \A t \in Thread : Asks(t) /\ Fresh(t)

LEMMA FreshMeans == Types /\ FreshInv => RankedFresh
BY DEF FreshInv, Fresh, Good, RankedFresh, IsAt, Busy

\* Steps of a request, and others.
LEMMA ThreadFrom ==
    ASSUME Types, [Next]_vars, ~Restart, NEW t \in Thread
    PROVE  \/ job'[t] = job[t] /\ req'[t] = req[t]
           \/ job' = job /\ \E r \in Repo, f \in File : DeleteFile(r, f)
           \/ \E r \in Repo, f \in File \union {NoFile} : BeginRequest(t, r, f)
           \/ Step(t)
           \/ Skip(t) \/ Reindex(t) \/ Label(t) \/ SaveRow(t)
<1> DEFINE Stands == job'[t] = job[t] /\ req'[t] = req[t]
<1>0. /\ DiskOK /\ ObjectsOK /\ TableOK /\ ReqOK /\ JobsOK /\ req \in [Thread -> Request]
      /\ Thread \subseteq Worker /\ Repo \subseteq Worker /\ t \notin Repo
  BY ConstantsAssumption DEF Types, ReqOK, Worker
<1>1. ASSUME NEW u \in Thread, u # t, NEW r \in Repo, NEW f \in File \union {NoFile},
             BeginRequest(u, r, f)
      PROVE  Stands
  BY <1>0, <1>1 DEF BeginRequest
<1>2. ASSUME NEW u \in Thread, u # t, Step(u) PROVE Stands
  <2>1. req'[t] = req[t]
    BY <1>0, <1>2 DEF Step, AnswerWithoutIndex, LookUp, Refresh, RefreshFails, EndScan, EndRefresh,
       BuildStart, BuildFails, BuildEnd, Rank, RankFails
  <2>2. ASSUME NEW f \in File, Refresh(u, f) PROVE job'[t] = job[t]
    <3>1. req[u].pc \in Busy /\ Stat(u, req[u].idx, f)
      BY <2>2 DEF Refresh, Busy
    <3>2. req[u].idx \in 1..Len(object) /\ u \in Worker /\ t \in Worker
      BY <1>0, <3>1, RequestFacts
    <3>3. QED
      BY <1>0, <1>2, <3>1, <3>2, StatIs
  <2>3. ASSUME RefreshFails(u) PROVE job'[t] = job[t]
    BY <1>0, <1>2, <2>3, JobEnds DEF RefreshFails
  <2>4. CASE job' = job
    BY <2>1, <2>4
  <2>5. QED
    BY <1>2, <2>1, <2>2, <2>3, <2>4 DEF Step, AnswerWithoutIndex, LookUp, EndScan, EndRefresh,
       BuildStart, BuildFails, BuildEnd, Rank, RankFails
<1>3. ASSUME NEW w \in Worker, w # t, Skip(w) \/ Reindex(w) \/ Label(w) \/ SaveRow(w)
      PROVE  Stands
  <2>1. /\ req' = req
        /\ job' \in {[job EXCEPT ![w] = NoJob], [job EXCEPT ![w].pc = "label"],
                     [job EXCEPT ![w].pc = "row"]}
    BY <1>3 DEF Skip, Reindex, Label, SaveRow
  <2>2. \A v \in Worker : v # w => job'[v] = job[v]
    BY <1>0, <2>1, JobEnds, JobGoesOn
  <2>3. QED
    BY <1>0, <1>3, <2>1, <2>2
<1>4. ASSUME NEW r \in Repo, NEW f \in File, HandleEvent(r, f) PROVE Stands
  <2>1. req' = req
    BY <1>4 DEF HandleEvent
  <2>2. ASSUME NEW k \in DOMAIN table, Stat(r, table[k], f) PROVE job'[t] = job[t]
    <3>1. table[k] \in 1..Len(object) /\ r \in Worker /\ t \in Worker /\ t # r
      BY <1>0 DEF TableOK
    <3>2. QED
      BY <1>0, <2>2, <3>1, StatIs
  <2>3. QED
    BY <1>4, <2>1, <2>2 DEF HandleEvent, HandlerIndex, Places, At
<1>5. ASSUME NEW r \in Repo, HandlerFails(r) PROVE Stands
  <2>1. req' = req /\ job' = [job EXCEPT ![r] = NoJob] /\ r \in Worker /\ t \in Worker /\ t # r
    BY <1>0, <1>5 DEF HandlerFails
  <2>2. QED
    BY <1>0, <2>1, JobEnds
<1>6. ASSUME NEW r \in Repo, NEW f \in File, SaveFile(r, f) PROVE Stands
  BY <1>6 DEF SaveFile
<1>7. ASSUME UNCHANGED vars PROVE Stands
  BY <1>7 DEF vars
<1>8. ASSUME NEW r \in Repo, NEW f \in File, DeleteFile(r, f) PROVE job' = job
  BY <1>8 DEF DeleteFile
<1> HIDE DEF Stands
<1>9. \/ Stands
      \/ job' = job /\ \E r \in Repo, f \in File : DeleteFile(r, f)
      \/ \E r \in Repo, f \in File \union {NoFile} : BeginRequest(t, r, f)
      \/ Step(t)
      \/ Skip(t) \/ Reindex(t) \/ Label(t) \/ SaveRow(t)
  BY <1>1, <1>2, <1>3, <1>4, <1>5, <1>6, <1>7, <1>8 DEF Next
<1>10. QED
  BY <1>9 DEF Stands

\* A request goes on with its repository and file.
GoesOn(t) ==
    /\ req[t].pc # "idle" /\ req'[t].pc # "idle"
    /\ req'[t].repo = req[t].repo /\ req'[t].active = req[t].active

\* What a request asks for stays, or its file is deleted.
AskedStands(t) ==
    LET r == req[t].repo f == req[t].active IN
    \/ req'[t].asked = 0
    \/ /\ req'[t].asked = req[t].asked
       /\ mtime'[r][f] = mtime[r][f] \/ SaveFile(r, f)

LEMMA StepGoesOn ==
    ASSUME Types, NEW t \in Thread, Step(t), req'[t].pc # "idle"
    PROVE  /\ GoesOn(t) /\ req'[t].asked = req[t].asked /\ mtime' = mtime
           /\ req[t].pc = "walkers" \/ req'[t].idx = req[t].idx
<1>1. req \in [Thread -> Request] /\ req[t] \in Request
  BY DEF Types, ReqOK
<1>2. mtime' = mtime /\ req[t].pc # "idle"
  <2>1. CASE AnswerWithoutIndex(t) \/ LookUp(t) \/ EndScan(t) \/ EndRefresh(t) \/ BuildStart(t)
             \/ BuildFails(t) \/ BuildEnd(t) \/ Rank(t) \/ RankFails(t)
    BY <2>1 DEF AnswerWithoutIndex, LookUp, EndScan, EndRefresh, BuildStart, BuildFails, BuildEnd,
       Rank, RankFails, IsAt, disk
  <2>2. CASE \E f \in File : Refresh(t, f)
    BY <2>2 DEF Refresh, disk
  <2>3. CASE RefreshFails(t)
    BY <1>1, <2>3, IdleIs DEF RefreshFails
  <2>4. QED
    BY <2>1, <2>2, <2>3 DEF Step
<1> DEFINE Kept == /\ req'[t].repo = req[t].repo /\ req'[t].active = req[t].active
                   /\ req'[t].asked = req[t].asked
<1>3. ASSUME NEW i, NEW S, NEW pc,
             req' = [req EXCEPT ![t].pc = pc, ![t].idx = i, ![t].todo = S]
      PROVE  Kept
  BY <1>1, <1>3 DEF Request
<1>4. ASSUME NEW S, NEW pc, req' = [req EXCEPT ![t].pc = pc, ![t].todo = S]
      PROVE  Kept /\ req'[t].idx = req[t].idx
  BY <1>1, <1>4 DEF Request
<1>5. ASSUME NEW pc, req' = [req EXCEPT ![t].pc = pc]
      PROVE  Kept /\ req'[t].idx = req[t].idx
  BY <1>1, <1>5 DEF Request
<1>6. ASSUME NEW S, req' = [req EXCEPT ![t].todo = S]
      PROVE  Kept /\ req'[t].idx = req[t].idx
  BY <1>1, <1>6 DEF Request
<1> HIDE DEF Kept
<1>7. ASSUME NEW f \in File, Refresh(t, f) PROVE Kept /\ req'[t].idx = req[t].idx
  BY <1>6, <1>7 DEF Refresh
<1>8. CASE AnswerWithoutIndex(t) \/ RefreshFails(t) \/ BuildFails(t) \/ Rank(t) \/ RankFails(t)
  BY <1>1, <1>8, IdleIs DEF AnswerWithoutIndex, RefreshFails, BuildFails, Rank, RankFails
<1>9. ASSUME LookUp(t) PROVE Kept /\ req[t].pc = "walkers"
  <2>1. PICK i : \/ req' = [req EXCEPT ![t].pc = "scan", ![t].idx = i, ![t].todo = Scanned]
                 \/ \E S \in Neighborhood(req[t].repo, req[t].active) :
                        req' = [req EXCEPT ![t].pc = "refresh", ![t].idx = i, ![t].todo = S]
    BY <1>9 DEF LookUp
  <2>2. Kept
    BY <1>3, <2>1
  <2>3. QED
    BY <1>9, <2>2 DEF LookUp, IsAt
<1>10. CASE EndScan(t) \/ EndRefresh(t)
  <2>1. Kept /\ req'[t].idx = req[t].idx
    BY <1>5, <1>10 DEF EndScan, EndRefresh
  <2>2. QED
    BY <1>2, <2>1 DEF GoesOn, Kept
<1>11. CASE BuildStart(t) \/ BuildEnd(t)
  <2>1. Kept /\ req'[t].idx = req[t].idx
    BY <1>4, <1>11 DEF BuildStart, BuildEnd
  <2>2. QED
    BY <1>2, <2>1 DEF GoesOn, Kept
<1>12. QED
  BY <1>2, <1>7, <1>8, <1>9, <1>10, <1>11 DEF Step, GoesOn, Kept

\* What a request asks for is set when it begins, and given up only when the file
\* is deleted.
LEMMA AskedFrom ==
    ASSUME Types, [Next]_vars, ~Restart, NEW t \in Thread, req'[t].pc # "idle"
    PROVE  \/ \E r \in Repo, f \in File \union {NoFile} : BeginRequest(t, r, f)
           \/ GoesOn(t) /\ (req[t].active # NoFile => AskedStands(t))
<1>0. /\ req \in [Thread -> Request] /\ req[t] \in Request
      /\ req[t].pc # "idle" => req[t].repo \in Repo
      /\ mtime \in [Repo -> [File -> 0..saves]]
  BY RequestFacts DEF Types, ReqOK, DiskOK
<1>1. CASE req'[t] = req[t] /\ \A r \in Repo, f \in File : ~DeleteFile(r, f)
  <2>1. GoesOn(t)
    BY <1>1 DEF GoesOn
  <2>2. ASSUME req[t].active # NoFile PROVE AskedStands(t)
    <3>1. PICK r \in Repo, f \in File : r = req[t].repo /\ f = req[t].active
      BY <1>0, <1>1, <2>2 DEF Request
    <3>2. mtime'[r][f] = mtime[r][f] \/ SaveFile(r, f)
      <4>1. ASSUME NEW q \in Repo, NEW g \in File, SaveFile(q, g), q # r \/ g # f
            PROVE  mtime'[r][f] = mtime[r][f]
        BY <1>0, <4>1 DEF SaveFile
      <4>2. ASSUME NEW u \in Thread, Step(u) PROVE mtime' = mtime
        BY <4>2 DEF Step, AnswerWithoutIndex, LookUp, Refresh, RefreshFails, EndScan, EndRefresh,
           BuildStart, BuildFails, BuildEnd, Rank, RankFails, disk
      <4>3. ASSUME NEW w \in Worker, Skip(w) \/ Reindex(w) \/ Label(w) \/ SaveRow(w)
            PROVE  mtime' = mtime
        BY <4>3 DEF Skip, Reindex, Label, SaveRow, disk
      <4>4. QED
        BY <1>1, <4>1, <4>2, <4>3 DEF Next, BeginRequest, HandleEvent, HandlerFails, vars, disk
    <3>3. QED
      BY <1>1, <3>1, <3>2 DEF AskedStands
  <2>3. QED
    BY <2>1, <2>2
<1>2. ASSUME NEW r \in Repo, NEW f \in File, DeleteFile(r, f)
      PROVE  GoesOn(t) /\ (req[t].active # NoFile => AskedStands(t))
  <2>1. /\ mtime' = [mtime EXCEPT ![r][f] = 0]
        /\ req'[t] = IF req[t].repo = r /\ req[t].active = f
                     THEN [req[t] EXCEPT !.asked = 0] ELSE req[t]
    BY <1>2 DEF DeleteFile
  <2>2. CASE req[t].repo = r /\ req[t].active = f
    <3>1. req'[t].asked = 0 /\ req'[t].pc = req[t].pc /\ req'[t].repo = req[t].repo
          /\ req'[t].active = req[t].active
      BY <1>0, <2>1, <2>2 DEF Request
    <3>2. QED
      BY <1>2, <3>1 DEF GoesOn, AskedStands
  <2>3. CASE ~(req[t].repo = r /\ req[t].active = f)
    <3>1. req'[t] = req[t]
      BY <2>1, <2>3
    <3>2. ASSUME req[t].active # NoFile
          PROVE  mtime'[req[t].repo][req[t].active] = mtime[req[t].repo][req[t].active]
      <4>1. req[t].repo \in Repo /\ req[t].active \in File
        BY <1>0, <3>1, <3>2 DEF Request
      <4>2. QED
        BY <1>0, <2>1, <2>3, <4>1
    <3>3. QED
      BY <3>1, <3>2 DEF GoesOn, AskedStands
  <2>4. QED
    BY <2>2, <2>3
<1>3. CASE Step(t)
  BY <1>3, StepGoesOn DEF AskedStands
<1>4. CASE Skip(t) \/ Reindex(t) \/ Label(t) \/ SaveRow(t)
  <2>1. req' = req /\ mtime' = mtime
    BY <1>4 DEF Skip, Reindex, Label, SaveRow, disk
  <2>2. QED
    BY <2>1 DEF GoesOn, AskedStands
<1>5. QED
  BY <1>1, <1>2, <1>3, <1>4, ThreadFrom

LEMMA AsksStep ==
    ASSUME Types, [Next]_vars, ~Restart, NEW t \in Thread, Asks(t)
    PROVE  Asks(t)'
<1>0. /\ DiskOK /\ ObjectsOK /\ JobsOK /\ Shape /\ DiskOK' /\ ReqOK' /\ saves \in Nat
      /\ req \in [Thread -> Request] /\ saves' \in Nat
  BY ShapeStep, TypesStep, ConstantsAssumption DEF Types, DiskOK, ReqOK
<1>1. SUFFICES ASSUME NEW r, NEW f, r = req'[t].repo, f = req'[t].active,
                      req'[t].pc # "idle", f # NoFile
               PROVE  /\ req'[t].asked <= mtime'[r][f]
                      /\ \A w \in Refreshing(r, f)' : req'[t].asked <= job'[w].stat
  BY DEF Asks, Refreshing, JobOn
<1>2. r \in Repo /\ f \in File /\ req'[t].asked \in Nat
  BY <1>0, <1>1 DEF ReqOK, Request
<1>3. mtime'[r][f] \in Nat /\ mtime[r][f] \in Nat
  BY <1>0, <1>2 DEF DiskOK
<1>4. ASSUME NEW q \in Repo, NEW g \in File \union {NoFile}, BeginRequest(t, q, g)
      PROVE  /\ req'[t].asked <= mtime'[r][f]
             /\ \A w \in Refreshing(r, f)' : req'[t].asked <= job'[w].stat
  <2>1. PICK v \in Versions(q, g) :
            /\ \A u \in Versions(q, g) : v <= u
            /\ req' = [req EXCEPT ![t] = [Idle EXCEPT !.pc = "walkers", !.repo = q,
                                                      !.active = g, !.asked = v]]
    BY <1>4 DEF BeginRequest
  <2>2. req'[t].repo = q /\ req'[t].active = g /\ req'[t].asked = v
    BY <1>0, <2>1 DEF Idle
  <2>3. /\ \A u \in Versions(r, f) : req'[t].asked <= u
        /\ Versions(r, f) = {mtime[r][f]} \union {job[w].stat : w \in Refreshing(r, f)}
    BY <1>1, <2>1, <2>2 DEF Versions
  <2>4. mtime' = mtime /\ job' = job /\ object' = object
    BY <1>4 DEF BeginRequest, disk, index
  <2>5. Refreshing(r, f)' = Refreshing(r, f)
    BY <2>4 DEF Refreshing, JobOn, Worker
  <2>6. QED
    BY <2>3, <2>4, <2>5
<1>5. CASE GoesOn(t) /\ AskedStands(t)
  <2>1. /\ req[t].pc # "idle" /\ r = req[t].repo /\ f = req[t].active
        /\ \/ req'[t].asked = 0
           \/ /\ req'[t].asked = req[t].asked
              /\ mtime'[r][f] = mtime[r][f] \/ SaveFile(r, f)
    BY <1>1, <1>5 DEF GoesOn, AskedStands
  <2>2. /\ req[t].asked <= mtime[r][f]
        /\ \A w \in Refreshing(r, f) : req[t].asked <= job[w].stat
    BY <1>1, <2>1 DEF Asks
  <2>3. req'[t].asked <= mtime[r][f]
    BY <1>2, <1>3, <2>1, <2>2
  <2>4. req'[t].asked <= mtime'[r][f]
    <3>1. CASE SaveFile(r, f)
      <4>1. mtime'[r][f] = saves + 1
        BY <1>0, <1>2, <3>1 DEF SaveFile, DiskOK
      <4>2. mtime[r][f] <= saves
        BY <1>0, <1>2 DEF DiskOK
      <4>3. QED
        BY <1>0, <1>2, <1>3, <2>3, <4>1, <4>2
    <3>2. CASE ~SaveFile(r, f)
      BY <1>2, <1>3, <2>1, <2>2, <3>2
    <3>3. QED
      BY <3>1, <3>2
  <2>5. ASSUME NEW w \in Refreshing(r, f)' PROVE req'[t].asked <= job'[w].stat
    <3>1. CASE w \in Refreshing(r, f) /\ job'[w].stat = job[w].stat
      <4>1. job[w].stat \in Nat
        BY <1>0, <3>1 DEF Refreshing, JobsOK, Job
      <4>2. QED
        BY <2>1, <2>2, <3>1, <4>1
    <3>2. CASE job'[w].stat = mtime[r][f]
      BY <2>3, <3>2
    <3>3. QED
      BY <1>0, <1>2, <3>1, <3>2, RefreshingFrom
  <2>6. QED
    BY <2>4, <2>5
<1>6. QED
  BY <1>1, <1>4, <1>5, AskedFrom DEF GoesOn

\* A fresh label stays fresh, whoever refreshes the file.
LEMMA GoodStays ==
    ASSUME Types, [Next]_vars, ~Restart, NEW t \in Thread, Asks(t), Good(t), GoesOn(t),
           req[t].pc \in Busy, req'[t].idx = req[t].idx, req'[t].asked \in {req[t].asked, 0}
    PROVE  Good(t)'
<1> DEFINE i == req[t].idx
           f == req[t].active
<1>0. /\ Shape /\ DiskOK /\ ObjectsOK /\ JobsOK /\ ObjectsOK' /\ DiskOK'
      /\ i \in 1..Len(object) /\ f \in File /\ object[i].repo = req[t].repo
      /\ req[t] \in Request /\ object[i] \in Object /\ saves \in Nat
  BY ShapeStep, TypesStep, ObjectFacts, RequestFacts, ConstantsAssumption DEF Types, DiskOK
<1>1. i \in DOMAIN object' /\ f # NoFile /\ req[t].pc # "idle"
  <2>1. DOMAIN object' = 1..Len(object') /\ Len(object') \in Nat /\ Len(object) \in Nat
    BY <1>0, ObjectFacts, LenProperties DEF ObjectsOK
  <2>2. QED
    BY <1>0, <2>1, ConstantsAssumption DEF Shape, Onward, Busy
<1>2. object[i].mtimes[f] \in Nat /\ req[t].asked \in Nat
  BY <1>0 DEF Object, Request
<1>3. SUFFICES \/ object'[i].mtimes[f] >= req'[t].asked
               \/ f \notin Scanned /\ object'[i].mtimes[f] = 0
  BY DEF Good, GoesOn
<1>4. CASE object'[i].mtimes[f] = object[i].mtimes[f]
  BY <1>2, <1>4 DEF Good
<1>5. ASSUME NEW w \in Refreshing(object[i].repo, f), object'[i].mtimes[f] = job[w].stat
      PROVE  object'[i].mtimes[f] >= req'[t].asked
  <2>1. req[t].asked <= job[w].stat
    BY <1>0, <1>1, <1>5 DEF Asks
  <2>2. job[w].stat \in Nat
    BY <1>0, <1>5 DEF Refreshing, JobsOK, Job
  <2>3. QED
    BY <1>2, <1>5, <2>1, <2>2
<1>6. QED
  BY <1>0, <1>1, <1>4, <1>5 DEF Shape, LabelsFrom

LEMMA FreshStep ==
    ASSUME Types, [Next]_vars, ~Restart, NEW t \in Thread, Asks(t), Fresh(t)
    PROVE  Fresh(t)'
<1> DEFINE r == req[t].repo
           f == req[t].active
           i == req[t].idx
           Waits == req[t].pc \in {"scan", "refresh"} /\ f \in req[t].todo
           Runs == /\ req[t].pc \in {"scan", "refresh"} /\ job[t].pc \in {"compare", "label"}
                   /\ job[t].file = f /\ job[t].idx = i
<1>0. /\ DiskOK /\ ObjectsOK /\ TableOK /\ ReqOK /\ JobsOK /\ t \in Worker
      /\ req \in [Thread -> Request] /\ req[t] \in Request /\ saves \in Nat
      /\ DOMAIN object = 1..Len(object)
  BY ObjectFacts, ConstantsAssumption DEF Types, ReqOK, Worker, DiskOK
<1>1. SUFFICES ASSUME req'[t].pc \in Busy PROVE Fresh(t)'
  BY DEF Fresh
<1>2. req[t].pc \in Busy => /\ i \in 1..Len(object) /\ f \in File /\ object[i].repo = r
                            /\ r \in Repo /\ f # NoFile /\ req[t].pc # "idle"
                            /\ req[t].asked \in Nat /\ mtime[r][f] \in Nat
                            /\ object[i].mtimes[f] \in Nat
  <2>1. SUFFICES ASSUME req[t].pc \in Busy
                 PROVE  /\ i \in 1..Len(object) /\ f \in File /\ object[i].repo = r
                        /\ r \in Repo /\ f # NoFile /\ req[t].pc # "idle"
                        /\ req[t].asked \in Nat /\ mtime[r][f] \in Nat
                        /\ object[i].mtimes[f] \in Nat
    OBVIOUS
  <2>2. i \in 1..Len(object) /\ f \in File /\ object[i].repo = r /\ req[t].pc # "idle"
    BY <1>0, <2>1, RequestFacts DEF Busy
  <2>3. r \in Repo /\ object[i] \in Object
    BY <1>0, <2>2, RequestFacts, ObjectFacts
  <2>4. QED
    BY <1>0, <2>2, <2>3, ConstantsAssumption DEF Object, DiskOK, Request
<1>3. req[t].pc \in Busy => Waits \/ Runs \/ Good(t)
  BY DEF Fresh
\* The file is seen with a version that is new enough.
<1>4. req[t].pc \in Busy /\ Runs => req[t].asked <= job[t].stat /\ job[t].stat \in Nat
  <2>1. SUFFICES ASSUME req[t].pc \in Busy, Runs
                 PROVE  req[t].asked <= job[t].stat /\ job[t].stat \in Nat
    OBVIOUS
  <2>2. t \in Refreshing(r, f)
    BY <1>0, <1>2, <2>1 DEF Refreshing, JobOn
  <2>3. QED
    BY <1>0, <1>2, <2>1, <2>2 DEF Asks, JobsOK, Job
<1>5. ASSUME req[t].pc \in Busy, GoesOn(t), req'[t].idx = i, req'[t].asked \in {req[t].asked, 0},
             job'[t] = job[t], req'[t].pc = req[t].pc, req'[t].todo = req[t].todo
      PROVE  Fresh(t)'
  <2>1. CASE Waits \/ Runs
    BY <1>5, <2>1 DEF Fresh, GoesOn
  <2>2. CASE Good(t)
    BY <1>5, <2>2, GoodStays DEF Fresh
  <2>3. QED
    BY <1>3, <1>5, <2>1, <2>2
<1>6. CASE job'[t] = job[t] /\ req'[t] = req[t]
  BY <1>1, <1>2, <1>5, <1>6 DEF GoesOn
<1>7. ASSUME job' = job, NEW q \in Repo, NEW g \in File, DeleteFile(q, g) PROVE Fresh(t)'
  <2>1. req'[t] = req[t] \/ req'[t] = [req[t] EXCEPT !.asked = 0]
    BY <1>7 DEF DeleteFile
  <2>2. /\ req'[t].asked \in {req[t].asked, 0} /\ req'[t].idx = i /\ req'[t].pc = req[t].pc
        /\ req'[t].todo = req[t].todo /\ req'[t].repo = r /\ req'[t].active = f
    BY <1>0, <2>1 DEF Request
  <2>3. QED
    BY <1>1, <1>2, <1>5, <1>7, <2>2 DEF GoesOn
<1>8. ASSUME NEW q \in Repo, NEW g \in File \union {NoFile}, BeginRequest(t, q, g) PROVE FALSE
  <2>1. req'[t].pc = "walkers"
    BY <1>0, <1>8 DEF BeginRequest, Idle
  <2>2. QED
    BY <1>1, <2>1 DEF Busy
\* Where the refresh of another file of the request goes on, or this one's ends.
<1>9. ASSUME req' = req, job[t].pc # "none", ~Runs PROVE Fresh(t)'
  <2>1. req[t].pc \in Busy /\ GoesOn(t)
    BY <1>1, <1>2, <1>9 DEF GoesOn
  <2>2. CASE Waits
    BY <1>9, <2>1, <2>2 DEF Fresh
  <2>3. CASE Good(t)
    BY <1>9, <2>1, <2>3, GoodStays DEF Fresh
  <2>4. QED
    BY <1>3, <1>9, <2>1, <2>2, <2>3
<1>10. CASE Skip(t)
  <2>1. /\ req' = req /\ object' = object /\ job[t].pc = "compare"
        /\ object[job[t].idx].mtimes[job[t].file] = job[t].stat
    BY <1>10 DEF Skip, index
  <2>2. CASE Runs
    <3>1. req[t].pc \in Busy
      BY <1>1, <2>1
    <3>2. object[i].mtimes[f] >= req[t].asked
      BY <1>2, <1>4, <2>1, <2>2, <3>1
    <3>3. QED
      BY <2>1, <3>2 DEF Fresh, Good
  <2>3. CASE ~Runs
    BY <1>9, <2>1, <2>3
  <2>4. QED
    BY <2>2, <2>3
<1>11. CASE Reindex(t)
  <2>1. req' = req /\ job[t].pc = "compare" /\ job' = [job EXCEPT ![t].pc = "label"]
    BY <1>11 DEF Reindex
  <2>2. job'[t].pc = "label" /\ job'[t].file = job[t].file /\ job'[t].idx = job[t].idx
    BY <1>0, <2>1, JobGoesOn
  <2>3. CASE Runs
    BY <2>1, <2>2, <2>3 DEF Fresh
  <2>4. CASE ~Runs
    BY <1>9, <2>1, <2>4
  <2>5. QED
    BY <2>3, <2>4
<1>12. CASE Label(t)
  <2>1. req' = req /\ job[t].pc = "label"
    BY <1>12 DEF Label
  <2>2. CASE Runs
    <3>1. req[t].pc \in Busy
      BY <1>1, <2>1
    <3>2. object'[i].mtimes[f] = job[t].stat
      <4>1. \A j \in 1..Len(object), g \in File :
                object'[j].mtimes[g] = IF j = job[t].idx /\ g = job[t].file
                                       THEN job[t].stat ELSE object[j].mtimes[g]
        BY <1>0, <1>12, LabelIs
      <4>2. QED
        BY <1>2, <2>2, <3>1, <4>1
    <3>3. object'[i].mtimes[f] >= req[t].asked
      BY <1>2, <1>4, <2>2, <3>1, <3>2
    <3>4. QED
      BY <2>1, <3>3 DEF Fresh, Good
  <2>3. CASE ~Runs
    BY <1>9, <2>1, <2>3
  <2>4. QED
    BY <2>2, <2>3
<1>13. CASE SaveRow(t)
  BY <1>9, <1>13 DEF SaveRow
<1>14. CASE LookUp(t)
  <2>1. /\ req[t].pc = "walkers" /\ f # NoFile
        /\ UNCHANGED <<saves, mtime, row>>
    BY <1>14 DEF LookUp, IsAt, disk
  <2>2. r \in Repo /\ f \in File
    BY <1>0, <2>1, RequestFacts DEF Request
  <2>3. PICK n \in 1..Len(object) + 1 :
            \/ /\ object'[n].mtimes = Nothing
               /\ req' = [req EXCEPT ![t].pc = "scan", ![t].idx = n, ![t].todo = Scanned]
            \/ \E S \in Neighborhood(r, f) :
                   req' = [req EXCEPT ![t].pc = "refresh", ![t].idx = n, ![t].todo = S]
    BY <1>14 DEF LookUp
  <2>4. ASSUME object'[n].mtimes = Nothing,
               req' = [req EXCEPT ![t].pc = "scan", ![t].idx = n, ![t].todo = Scanned]
        PROVE  Fresh(t)'
    <3>1. /\ req'[t].pc = "scan" /\ req'[t].idx = n /\ req'[t].todo = Scanned
          /\ req'[t].active = f
      BY <1>0, <2>4 DEF Request
    <3>2. CASE f \in Scanned
      BY <3>1, <3>2 DEF Fresh
    <3>3. CASE f \notin Scanned
      <4>1. object'[n].mtimes[f] = 0
        BY <2>2, <2>4 DEF Nothing
      <4>2. QED
        BY <3>1, <3>3, <4>1 DEF Fresh, Good
    <3>4. QED
      BY <3>2, <3>3
  <2>5. ASSUME NEW S \in Neighborhood(r, f),
               req' = [req EXCEPT ![t].pc = "refresh", ![t].idx = n, ![t].todo = S]
        PROVE  Fresh(t)'
    <3>1. req'[t].pc = "refresh" /\ req'[t].todo = S /\ req'[t].active = f
      BY <1>0, <2>5 DEF Request
    <3>2. QED
      BY <3>1 DEF Fresh, Neighborhood
  <2>6. QED
    BY <2>3, <2>4, <2>5
<1>15. ASSUME NEW g \in File, Refresh(t, g) PROVE Fresh(t)'
  <2>1. /\ req[t].pc \in {"scan", "refresh"} /\ job[t].pc = "none" /\ Stat(t, i, g)
        /\ req' = [req EXCEPT ![t].todo = req[t].todo \ {g}]
        /\ mtime' = mtime /\ object' = object
    BY <1>15 DEF Refresh, Free, disk, index
  <2>2. req[t].pc \in Busy /\ ~Runs
    BY <2>1 DEF Busy
  <2>3. /\ req'[t].pc = req[t].pc /\ req'[t].todo = req[t].todo \ {g} /\ req'[t].active = f
        /\ req'[t].idx = i /\ req'[t].asked = req[t].asked /\ req'[t].repo = r
    BY <1>0, <2>1 DEF Request
  <2>4. GoesOn(t)
    BY <1>2, <2>2, <2>3 DEF GoesOn
  <2>5. CASE Good(t)
    BY <2>2, <2>3, <2>4, <2>5, GoodStays DEF Fresh
  <2>6. CASE Waits /\ g # f
    BY <2>1, <2>3, <2>6 DEF Fresh
  <2>7. CASE g = f
    <3>1. i \in 1..Len(object) /\ f \in File /\ object[i].repo = r
      BY <1>2, <2>2
    <3>2. mtime[r][f] # 0 => job'[t].pc = "compare" /\ job'[t].idx = i /\ job'[t].file = f
      BY <1>0, <2>1, <2>7, <3>1, StatIs
    <3>3. CASE mtime[r][f] # 0
      BY <2>1, <2>3, <3>2, <3>3 DEF Fresh
    <3>4. CASE mtime[r][f] = 0
      <4>1. object[i].mtimes[f] >= req[t].asked
        <5>1. req[t].asked <= mtime[r][f]
          BY <1>2, <2>2 DEF Asks
        <5>2. QED
          BY <1>2, <2>2, <3>4, <5>1
      <4>2. QED
        BY <2>1, <2>3, <4>1 DEF Fresh, Good
    <3>5. QED
      BY <3>3, <3>4
  <2>8. QED
    BY <1>3, <2>2, <2>5, <2>6, <2>7
<1>16. ASSUME Good(t), Step(t), req[t].pc # "walkers", req[t].pc \in Busy PROVE Fresh(t)'
  <2>1. GoesOn(t) /\ req'[t].asked = req[t].asked /\ req'[t].idx = i
    BY <1>1, <1>16, StepGoesOn DEF Busy
  <2>2. QED
    BY <1>16, <2>1, GoodStays DEF Fresh
<1>17. CASE EndScan(t) \/ EndRefresh(t)
  <2>1. req[t].pc \in {"scan", "refresh"} /\ req[t].todo = {} /\ job[t].pc = "none" /\ Step(t)
    BY <1>17 DEF EndScan, EndRefresh, IsAt, Free, Step
  <2>2. ~Waits /\ ~Runs /\ req[t].pc \in Busy /\ req[t].pc # "walkers"
    BY <2>1 DEF Busy
  <2>3. QED
    BY <1>3, <1>16, <2>1, <2>2
<1>18. CASE BuildStart(t) \/ BuildEnd(t)
  <2>1. req[t].pc \in {"build", "docs"} /\ Step(t)
    BY <1>18 DEF BuildStart, BuildEnd, IsAt, Step
  <2>2. ~Waits /\ ~Runs /\ req[t].pc \in Busy /\ req[t].pc # "walkers"
    BY <2>1 DEF Busy
  <2>3. QED
    BY <1>3, <1>16, <2>1, <2>2
<1>19. ASSUME AnswerWithoutIndex(t) \/ RefreshFails(t) \/ BuildFails(t) \/ Rank(t) \/ RankFails(t)
       PROVE  FALSE
  <2>1. req'[t].pc = "idle"
    BY <1>0, <1>19, IdleIs DEF AnswerWithoutIndex, RefreshFails, BuildFails, Rank, RankFails
  <2>2. QED
    BY <1>1, <2>1 DEF Busy
<1> HIDE DEF r, f, i, Waits, Runs
<1>20. QED
  BY <1>6, <1>7, <1>8, <1>10, <1>11, <1>12, <1>13, <1>14, <1>15, <1>17, <1>18, <1>19, ThreadFrom
  DEF Step

\* A pack is ranked around the active file as the developer had it when asking, or as
\* the oldest refresh then under way had seen it, or a newer one, whatever the watchers,
\* other requests, evictions and restarts do meanwhile.
THEOREM RankedFreshly == Spec => []RankedFresh
<1> DEFINE Inv == Types /\ FreshInv
<1>1. Init => Inv
  <2>1. Init => FreshInv
    BY DEF Init, FreshInv, Asks, Fresh, Idle, Busy
  <2>2. QED
    BY <2>1, TypesInit
<1>2. Inv /\ [Next]_vars => Inv'
  <2>1. SUFFICES ASSUME Inv, [Next]_vars PROVE Inv'
    OBVIOUS
  <2>2. Types'
    BY <2>1, TypesStep
  <2>3. CASE Restart
    <3>1. req' = [t \in Thread |-> Idle]
      BY <2>3 DEF Restart
    <3>2. QED
      BY <2>2, <3>1 DEF FreshInv, Asks, Fresh, Idle, Busy
  <2>4. CASE ~Restart
    <3>1. \A t \in Thread : Asks(t)' /\ Fresh(t)'
      BY <2>1, <2>4, AsksStep, FreshStep DEF FreshInv
    <3>2. QED
      BY <2>2, <3>1 DEF FreshInv
  <2>5. QED
    BY <2>3, <2>4
<1>3. Inv => RankedFresh
  BY FreshMeans
<1> HIDE DEF Inv
<1>4. QED
  BY <1>1, <1>2, <1>3, PTL DEF Spec
=============================================================================
