------------------------- MODULE SessionDedupProofs -------------------------
(***************************************************************************)
(* Proofs about SessionDedup, for any paths, agents, files, length of an   *)
(* hour and bounds.                                                        *)
(***************************************************************************)
EXTENDS SessionDedup, TLAPS

(* Hours *)

LEMMA DivIs ==
    ASSUME NEW x \in Nat, NEW h \in Nat \ {0}
    PROVE  x \div h \in Nat /\ h * (x \div h) <= x /\ x < h * (x \div h) + h
OBVIOUS

LEMMA HourMonotone ==
    ASSUME NEW x \in Nat, NEW y \in Nat, x <= y
    PROVE  x \div Hour \in Nat /\ y \div Hour \in Nat /\ x \div Hour <= y \div Hour
<1>0. Hour \in Nat \ {0} /\ x \div Hour \in Nat /\ y \div Hour \in Nat
  BY ConstantsAssumption, DivIs
<1>1. ASSUME x \div Hour > y \div Hour PROVE FALSE
  <2>1. Hour * (x \div Hour) >= Hour * (y \div Hour + 1)
    BY <1>0, <1>1
  <2>2. Hour * (x \div Hour) <= x /\ y < Hour * (y \div Hour) + Hour
    BY <1>0, DivIs
  <2>3. QED
    BY <1>0, <2>1, <2>2
<1>2. QED
  BY <1>0, <1>1

\* What was stamped in the present hour has not expired.
LEMMA SameHour ==
    ASSUME NEW x \in Nat, NEW y \in Nat, x <= y, x \div Hour = y \div Hour
    PROVE  ~(y - x > Hour)
BY ConstantsAssumption, DivIs

-----------------------------------------------------------------------------
(* Types *)

ClockOK == now \in 0..MaxTime /\ saves \in 0..MaxSaves /\ mtime \in [File -> 0..saves]

\* The entries d of session s, after n saves and at time t.
Stamped(n, t, s, d) ==
    /\ DOMAIN d \subseteq File
    /\ \A f \in DOMAIN d : /\ d[f] \in [mtime : 1..n, ts : 0..t]
                           /\ d[f].ts \div Hour = s.hour

TablesOK ==
    /\ registered = live
    /\ \A s \in live : s \in Sid /\ Stamped(saves, now, s, sessions[s])

ToolsOK == toolReads \subseteq File /\ window \in [Agent -> SUBSET File]

Held == File \X {"tool", "session"}

\* Slices and packs of files saved n times.
Slices(n) == [file : File, sid : Sid, stat : 0..n, version : 0..n]

Packs(n) ==
    [pc : {"idle", "loop", "check", "read"}, repo : Path,
     active : File \union {NoFile}, todo : [File -> 0..2],
     cur : File \union {NoFile}, sid : Sid, stat : 0..n,
     slices : SUBSET Slices(n), deduped : SUBSET Held]

\* A pack is built one file at a time.
LoopOK(n, q) ==
    /\ q \in Packs(n)
    /\ q.pc = "idle" => q.slices = {}
    /\ q.pc \in {"check", "read"} => q.cur \in File

Alone == \A a, b \in Agent : pack[a].pc # "idle" /\ pack[b].pc # "idle" => a = b

PackOK ==
    /\ DOMAIN pack = Agent /\ pack = [a \in Agent |-> pack[a]]
    /\ \A a \in Agent : LoopOK(saves, pack[a])
    /\ Alone

BuiltOK == built \subseteq Slices(saves) /\ \A b \in built : b.stat # 0

Types == ClockOK /\ TablesOK /\ ToolsOK /\ PackOK /\ BuiltOK

LEMMA TypesMean == Types => TypeOK
<1> SUFFICES ASSUME Types PROVE TypeOK
  OBVIOUS
<1>1. pack \in [Agent -> Packs(saves)]
  BY DEF Types, PackOK, LoopOK
<1>2. registered \subseteq Sid
  BY DEF Types, TablesOK
<1>3. \A s \in live : /\ s \in Sid /\ DOMAIN sessions[s] \subseteq File
                      /\ \A f \in DOMAIN sessions[s] :
                             /\ sessions[s][f] \in [mtime : 1..saves, ts : 0..now]
                             /\ sessions[s][f].ts \div Hour = s.hour
  BY DEF Types, TablesOK, Stamped
<1>4. QED
  BY <1>1, <1>2, <1>3 DEF Types, TypeOK, ClockOK, ToolsOK, BuiltOK, Packs, Slices, Slice, Held

LEMMA SidNow ==
    ASSUME ClockOK, NEW p \in Path, NEW a \in Agent
    PROVE  SessionId(p, a) \in Sid /\ SessionId(p, a).hour = now \div Hour
<1>1. now \in Nat /\ now <= MaxTime /\ MaxTime \in Nat
  BY ConstantsAssumption DEF ClockOK
<1>2. now \div Hour \in Nat /\ MaxTime \div Hour \in Nat /\ now \div Hour <= MaxTime \div Hour
  BY <1>1, HourMonotone
<1>3. now \div Hour \in 0..(MaxTime \div Hour)
  BY <1>2
<1>4. QED
  BY <1>3 DEF SessionId, Sid

LEMMA SomeSid == \E s : s \in Sid
<1>1. MaxTime \div Hour \in Nat
  BY ConstantsAssumption, DivIs
<1>2. PICK p : p \in Path
  BY ConstantsAssumption
<1>3. [repo |-> p, agent |-> Main, hour |-> 0] \in Sid
  BY <1>1, <1>2, ConstantsAssumption DEF Sid
<1>4. QED
  BY <1>3

LEMMA NoPackIs ==
    ASSUME NEW n \in Nat
    PROVE  /\ NoPack \in Packs(n) /\ LoopOK(n, NoPack)
           /\ NoPack.pc = "idle" /\ NoPack.slices = {} /\ NoPack.stat = 0
<1> DEFINE p0 == CHOOSE p \in Path : TRUE
           s0 == CHOOSE s \in Sid : TRUE
<1>1. p0 \in Path
  BY ConstantsAssumption
<1>2. s0 \in Sid
  BY SomeSid
<1> HIDE DEF p0, s0
<1>3. NoPack = [pc |-> "idle", repo |-> p0, active |-> NoFile,
                todo |-> [f \in File |-> 0], cur |-> NoFile, sid |-> s0,
                stat |-> 0, slices |-> {}, deduped |-> {}]
  BY DEF NoPack, p0, s0
<1>4. NoPack \in Packs(n)
  BY <1>1, <1>2, <1>3 DEF Packs
<1>5. QED
  BY <1>3, <1>4 DEF LoopOK

\* One fewer of f is left to do.
LEMMA OneLess ==
    ASSUME NEW n, NEW q \in Packs(n), NEW f \in File, q.todo[f] > 0
    PROVE  [q.todo EXCEPT ![f] = @ - 1] \in [File -> 0..2]
<1>1. q.todo \in [File -> 0..2]
  BY DEF Packs
<1>2. q.todo[f] - 1 \in 0..2
  BY <1>1
<1>3. QED
  BY <1>1, <1>2

LEMMA TypesInit == Init => Types
<1> SUFFICES ASSUME Init PROVE Types
  OBVIOUS
<1>1. ClockOK
  BY ConstantsAssumption DEF Init, ClockOK
<1>2. live = {}
  BY DEF Init, live
<1>3. TablesOK /\ BuiltOK
  BY <1>2 DEF Init, TablesOK, BuiltOK
<1>4. ToolsOK
  BY <1>1 DEF Init, ToolsOK, ClockOK
<1>5. PackOK
  BY NoPackIs DEF Init, PackOK, Alone
<1>6. QED
  BY <1>1, <1>3, <1>4, <1>5 DEF Types

-----------------------------------------------------------------------------
(* The tables *)

LEMMA OpenedIs ==
    ASSUME NEW s
    PROVE  /\ DOMAIN Opened(s) = live \union {s}
           /\ \A x \in live : Opened(s)[x] = sessions[x]
           /\ s \notin live => Opened(s)[s] = <<>>
<1>1. CASE s \in live
  BY <1>1 DEF Opened, live
<1>2. CASE s \notin live
  BY <1>2 DEF Opened, live, Put
<1>3. QED
  BY <1>1, <1>2

\* After recording its file in its session, and collecting.
RecordedAs(s, f, e) ==
    /\ registered' = live' /\ s \in live'
    /\ f \in DOMAIN sessions'[s] /\ sessions'[s][f] = e
    /\ \A g \in DOMAIN sessions'[s] : g # f =>
           s \in live /\ g \in DOMAIN sessions[s] /\ sessions'[s][g] = sessions[s][g]
    /\ s \in live => \A g \in DOMAIN sessions[s] : g # f =>
           g \in DOMAIN sessions'[s] /\ sessions'[s][g] = sessions[s][g]
    /\ \A x \in live' : x # s => x \in live /\ sessions'[x] = sessions[x]
    /\ \A x \in live : x # s /\ x \notin live' => x \in Expired(sessions)

LEMMA RecordedIs ==
    ASSUME TablesOK, ClockOK, NEW a, RecordNew(a)
    PROVE  RecordedAs(SessionId(pack[a].repo, a), pack[a].cur,
                      [mtime |-> mtime[pack[a].cur], ts |-> now])
<1> DEFINE f == pack[a].cur
           s == SessionId(pack[a].repo, a)
           e == [mtime |-> mtime[f], ts |-> now]
           old == Opened(s)[s]
           new == Put(old, f, e)
           ss == Put(sessions, s, new)
<1>0. /\ sessions' = Restrict(ss, DOMAIN ss \ Expired(ss))
      /\ registered' = (registered \union {s}) \ Expired(ss)
      /\ e.ts = now
  BY DEF RecordNew
<1> HIDE DEF f, s, e
<1>1. /\ DOMAIN ss = live \union {s} /\ ss[s] = new
      /\ \A x \in live : x # s => ss[x] = sessions[x]
  <2> HIDE DEF new
  <2>1. QED
    BY DEF live, Put
<1>2. /\ DOMAIN new = DOMAIN old \union {f} /\ new[f] = e
      /\ \A g \in DOMAIN old : g # f => new[g] = old[g]
  <2> HIDE DEF old
  <2>1. QED
    BY DEF Put
<1>3. /\ s \in live => old = sessions[s]
      /\ s \notin live => old = <<>>
  BY OpenedIs
<1>4. s \notin live => DOMAIN old = {}
  BY <1>3
<1> HIDE DEF old, new, ss
<1>5. s \notin Expired(ss)
  <2>1. now \in Nat /\ Hour \in Nat
    BY ConstantsAssumption DEF ClockOK
  <2>2. ~(now - new[f].ts > Hour)
    BY <1>0, <1>2, <2>1
  <2>3. QED
    BY <1>1, <1>2, <2>2 DEF Expired
<1>6. \A x \in live : x # s => (x \in Expired(ss) <=> x \in Expired(sessions))
  BY <1>1 DEF Expired, live
<1>7. /\ live' = (live \union {s}) \ Expired(ss)
      /\ \A x \in live' : sessions'[x] = ss[x]
  BY <1>0, <1>1 DEF live, Restrict
<1>8. registered' = live'
  BY <1>0, <1>7 DEF TablesOK
<1>9. s \in live' /\ sessions'[s] = new
  BY <1>1, <1>5, <1>7
<1>10. /\ sessions'[s][f] = e /\ f \in DOMAIN sessions'[s]
       /\ \A g \in DOMAIN sessions'[s] : g # f =>
              s \in live /\ g \in DOMAIN sessions[s] /\ sessions'[s][g] = sessions[s][g]
       /\ s \in live => \A g \in DOMAIN sessions[s] : g # f =>
              g \in DOMAIN sessions'[s] /\ sessions'[s][g] = sessions[s][g]
  <2>1. CASE s \in live
    BY <1>2, <1>3, <1>9, <2>1
  <2>2. CASE s \notin live
    BY <1>2, <1>4, <1>9, <2>2
  <2>3. QED
    BY <2>1, <2>2
<1>11. \A x \in live' : x # s => x \in live /\ sessions'[x] = sessions[x]
  BY <1>1, <1>7
<1>12. \A x \in live : x # s /\ x \notin live' => x \in Expired(sessions)
  BY <1>6, <1>7
<1>13. QED
  BY <1>8, <1>9, <1>10, <1>11, <1>12 DEF RecordedAs, s, f, e

-----------------------------------------------------------------------------
(* Types, step by step *)

LEMMA Grown ==
    ASSUME ClockOK, ClockOK', saves <= saves', now <= now'
    PROVE  /\ Slices(saves) \subseteq Slices(saves')
           /\ \A q : LoopOK(saves, q) => LoopOK(saves', q)
           /\ \A s, d : Stamped(saves, now, s, d) => Stamped(saves', now', s, d)
           /\ [File -> 0..saves] \subseteq [File -> 0..saves']
<1>1. 0..saves \subseteq 0..saves' /\ 1..saves \subseteq 1..saves' /\ 0..now \subseteq 0..now'
  BY ConstantsAssumption DEF ClockOK
<1>2. Slices(saves) \subseteq Slices(saves')
  BY <1>1 DEF Slices
<1>3. Packs(saves) \subseteq Packs(saves')
  BY <1>1, <1>2 DEF Packs
<1>4. \A q : LoopOK(saves, q) => LoopOK(saves', q)
  BY <1>3 DEF LoopOK
<1>5. ASSUME NEW s, NEW d, Stamped(saves, now, s, d) PROVE Stamped(saves', now', s, d)
  <2>1. [mtime : 1..saves, ts : 0..now] \subseteq [mtime : 1..saves', ts : 0..now']
    BY <1>1
  <2>2. QED
    BY <1>5, <2>1 DEF Stamped
<1>6. QED
  BY <1>1, <1>2, <1>4, <1>5

\* Steps of the developer, the clock and the hook.
LEMMA TypesOutside ==
    ASSUME Types, ClockOK', saves <= saves', now <= now', ToolsOK',
           UNCHANGED <<tables, pack>>, built' \subseteq built
    PROVE  Types'
<1>1. TablesOK'
  BY Grown DEF Types, TablesOK, tables, live
<1>2. PackOK'
  BY Grown DEF Types, PackOK, Alone
<1>3. BuiltOK'
  BY Grown DEF Types, BuiltOK
<1>4. QED
  BY <1>1, <1>2, <1>3 DEF Types

\* Steps that change the pack of one agent.
LEMMA TypesOfPack ==
    ASSUME Types, UNCHANGED <<now, files, tools>>, TablesOK', BuiltOK',
           NEW a \in Agent, NEW q, LoopOK(saves, q), pack' = [pack EXCEPT ![a] = q],
           pack[a].pc # "idle" \/ NoneAssembling
    PROVE  Types'
<1>1. ClockOK' /\ ToolsOK'
  BY DEF Types, ClockOK, ToolsOK, files, tools
<1>2. saves' = saves
  BY DEF files
<1>3. PackOK'
  <2>2. /\ DOMAIN pack' = Agent /\ pack'[a] = q
        /\ \A c \in Agent : c # a => pack'[c] = pack[c]
        /\ pack' = [c \in Agent |-> pack'[c]]
    BY DEF Types, PackOK
  <2>3. \A c \in Agent : LoopOK(saves', pack'[c])
    BY <1>2, <2>2 DEF Types, PackOK
  <2>4. \A c \in Agent : c # a => pack'[c].pc = "idle"
    BY <2>2 DEF Types, PackOK, Alone, NoneAssembling
  <2>5. Alone'
    BY <2>4 DEF Alone
  <2>6. QED
    BY <2>2, <2>3, <2>5 DEF PackOK
<1>4. QED
  BY <1>1, <1>3 DEF Types

LEMMA SameTables == ASSUME Types, UNCHANGED <<now, files, tables>> PROVE TablesOK'
BY DEF Types, TablesOK, tables, files, live, Stamped

LEMMA SameBuilt == ASSUME Types, UNCHANGED <<files, built>> PROVE BuiltOK'
BY DEF Types, BuiltOK, files

LEMMA SliceIs ==
    ASSUME Types, NEW a \in Agent, pack[a].pc = "read", NEW v \in 0..saves
    PROVE  /\ SliceOf(a, v) \in Slices(saves)
           /\ SliceOf(a, v).file = pack[a].cur /\ SliceOf(a, v).sid = pack[a].sid
           /\ SliceOf(a, v).stat = pack[a].stat /\ SliceOf(a, v).version = v
<1>1. pack[a].cur \in File /\ pack[a] \in Packs(saves)
  BY DEF Types, PackOK, LoopOK
<1>2. pack[a].sid \in Sid /\ pack[a].stat \in 0..saves
  BY <1>1 DEF Packs
<1>3. QED
  BY <1>1, <1>2 DEF SliceOf, Slices

\* What enters the history when the request of a ends.
LEMMA EndedIs ==
    ASSUME Types, NEW a \in Agent, ReadFails(a) \/ Reply(a)
    PROVE  \E S \in SUBSET Slices(saves) :
               /\ Ended(a, S) /\ UNCHANGED <<now, files, tables, tools>>
               /\ pack[a].slices \subseteq S
               /\ pack[a].pc = "read" => SliceOf(a, 0) \in S
               /\ \A b \in S : b \in pack[a].slices \/ (pack[a].pc = "read" /\ b = SliceOf(a, 0))
<1>1. pack[a].slices \subseteq Slices(saves)
  BY DEF Types, PackOK, LoopOK, Packs
<1>2. CASE ReadFails(a)
  <2>1. 0 \in 0..saves
    BY ConstantsAssumption DEF Types, ClockOK
  <2>2. SliceOf(a, 0) \in Slices(saves)
    BY <1>2, <2>1, SliceIs DEF ReadFails
  <2>3. pack[a].slices \union {SliceOf(a, 0)} \in SUBSET Slices(saves)
    BY <1>1, <2>2
  <2>4. QED
    BY <1>2, <2>3 DEF ReadFails
<1>3. CASE Reply(a)
  <2>1. pack[a].slices \in SUBSET Slices(saves)
    BY <1>1
  <2>2. QED
    BY <1>3, <2>1 DEF Reply
<1>4. QED
  BY <1>2, <1>3

LEMMA TypesStep == Types /\ [Next]_vars => Types'
<1> SUFFICES ASSUME Types, [Next]_vars PROVE Types'
  OBVIOUS
<1>0. ClockOK /\ TablesOK /\ ToolsOK /\ PackOK /\ BuiltOK
      /\ saves \in Nat /\ now \in Nat /\ \A f \in File : mtime[f] \in 0..saves
  BY ConstantsAssumption DEF Types, ClockOK
<1>a. ASSUME NEW a \in Agent
      PROVE  /\ LoopOK(saves, pack[a]) /\ pack[a] \in Packs(saves)
             /\ pack' = [pack EXCEPT ![a] = NoPack] /\ UNCHANGED <<now, files, tools, tables>>
                   /\ BuiltOK' /\ pack[a].pc # "idle" => Types'
  <2>1. LoopOK(saves, pack[a]) /\ pack[a] \in Packs(saves)
    BY <1>0 DEF PackOK, LoopOK
  <2>2. LoopOK(saves, NoPack)
    BY <1>0, NoPackIs
  <2>3. QED
    BY <2>1, <2>2, SameTables, TypesOfPack
<1>b. ASSUME NEW a \in Agent, NEW f \in File, pack[a].todo[f] > 0
      PROVE  [pack[a].todo EXCEPT ![f] = @ - 1] \in [File -> 0..2]
  BY <1>a, <1>b, OneLess
<1>1. CASE Tick
  <2>1. ClockOK' /\ saves' = saves /\ now' = now + 1
    BY <1>0, <1>1, ConstantsAssumption DEF Tick, ClockOK, files
  <2>2. ToolsOK'
    BY <1>0, <1>1, <2>1 DEF Tick, ToolsOK, tools
  <2>3. built' \subseteq built /\ UNCHANGED <<tables, pack>>
    BY <1>1 DEF Tick
  <2>4. QED
    BY <1>0, <2>1, <2>2, <2>3, TypesOutside
<1>2. ASSUME NEW f \in File, SaveFile(f) \/ DeleteFile(f) PROVE Types'
  <2>1. ClockOK' /\ saves <= saves' /\ now' = now
    BY <1>0, <1>2, ConstantsAssumption DEF SaveFile, DeleteFile, ClockOK
  <2>2. UNCHANGED <<tables, pack, toolReads>> /\ built' \subseteq built
        /\ window' = [a \in Agent |-> window[a] \ {f}]
    BY <1>2 DEF SaveFile, DeleteFile
  <2>3. ToolsOK'
    BY <1>0, <2>2 DEF ToolsOK
  <2>4. QED
    BY <1>0, <2>1, <2>2, <2>3, TypesOutside
<1>3. ASSUME NEW a \in Readers, NEW f \in File, ToolRead(a, f) PROVE Types'
  <2>1. UNCHANGED <<now, files, tables, pack, built>> /\ saves' = saves
    BY <1>3 DEF ToolRead, files
  <2>2. ClockOK'
    BY <1>0, <2>1 DEF ClockOK, files
  <2>3. ToolsOK'
    BY <1>0, <1>3, <2>1, ConstantsAssumption DEF ToolRead, ToolsOK
  <2>4. QED
    BY <1>0, <2>1, <2>2, <2>3, TypesOutside
<1>4. CASE NewTurn
  <2>1. UNCHANGED <<now, files, tables, pack, built>> /\ saves' = saves
    BY <1>4 DEF NewTurn, files
  <2>2. ClockOK' /\ ToolsOK'
    BY <1>0, <1>4, <2>1 DEF ClockOK, ToolsOK, NewTurn, files
  <2>3. QED
    BY <1>0, <2>1, <2>2, TypesOutside
<1>5. ASSUME NEW a \in Agent, NEW p \in Path, NEW W \in [File -> 0..2],
             NEW f \in File \union {NoFile}, BeginRequest(a, p, W, f)
      PROVE  Types'
  <2> DEFINE q == [NoPack EXCEPT !.pc = "loop", !.repo = Mount[p], !.todo = W, !.active = f]
  <2>1. q \in Packs(saves) /\ q.pc = "loop" /\ q.slices = {}
    BY <1>0, NoPackIs, ConstantsAssumption DEF Packs
  <2>2. pack' = [pack EXCEPT ![a] = q] /\ NoneAssembling
        /\ UNCHANGED <<now, files, tables, tools, built>>
    BY <1>5 DEF BeginRequest
  <2> HIDE DEF q
  <2>3. LoopOK(saves, q)
    BY <2>1 DEF LoopOK
  <2>4. QED
    BY <2>2, <2>3, SameTables, SameBuilt, TypesOfPack
<1>6. ASSUME NEW a \in Agent, NEW q, LoopOK(saves, q), pack' = [pack EXCEPT ![a] = q],
             pack[a].pc # "idle", UNCHANGED <<now, files, tables, tools, built>>
      PROVE  Types'
  BY <1>6, SameTables, SameBuilt, TypesOfPack
<1>7. ASSUME NEW a \in Agent, NEW f \in File, SkipAbsent(a, f) PROVE Types'
  <2> DEFINE q == [pack[a] EXCEPT !.todo[f] = @ - 1]
  <2>1. q \in Packs(saves) /\ q.pc = "loop" /\ q.slices = pack[a].slices
    BY <1>7, <1>a, <1>b DEF Packs, SkipAbsent
  <2>2. pack' = [pack EXCEPT ![a] = q]
    BY <1>7 DEF SkipAbsent
  <2> HIDE DEF q
  <2>3. LoopOK(saves, q)
    BY <1>a, <2>1 DEF LoopOK
  <2>4. QED
    BY <1>6, <1>7, <2>2, <2>3 DEF SkipAbsent
<1>8. ASSUME NEW a \in Agent, NEW f \in File, TakeActive(a, f) PROVE Types'
  <2>0. pack[a].pc = "loop" /\ 0 \in 0..saves /\ pack[a].todo[f] > 0
    BY <1>0, <1>8 DEF TakeActive
  <2> DEFINE q == [pack[a] EXCEPT !.pc = "read", !.todo[f] = @ - 1, !.cur = f, !.stat = 0]
  <2>1. q \in Packs(saves) /\ q.pc = "read" /\ q.slices = pack[a].slices
        /\ q.cur = f
    BY <2>0, <1>a, <1>b DEF Packs
  <2>2. pack' = [pack EXCEPT ![a] = q]
    BY <1>8 DEF TakeActive
  <2> HIDE DEF q
  <2>3. LoopOK(saves, q)
    BY <1>8, <1>a, <2>1 DEF LoopOK, TakeActive
  <2>4. QED
    BY <1>6, <1>8, <2>2, <2>3 DEF TakeActive
<1>9. ASSUME NEW a \in Agent, NEW f \in File, DedupByTool(a, f) PROVE Types'
  <2> DEFINE q == [pack[a] EXCEPT !.todo[f] = @ - 1, !.deduped = @ \union {<<f, "tool">>}]
  <2>0. pack[a].pc = "loop" /\ <<f, "tool">> \in Held /\ pack[a].todo[f] > 0
    BY <1>9 DEF DedupByTool, Held
  <2>1. q \in Packs(saves) /\ q.pc = "loop" /\ q.slices = pack[a].slices
    BY <2>0, <1>a, <1>b DEF Packs
  <2>2. pack' = [pack EXCEPT ![a] = q]
    BY <1>9 DEF DedupByTool
  <2> HIDE DEF q
  <2>3. LoopOK(saves, q)
    BY <1>a, <2>1 DEF LoopOK
  <2>4. QED
    BY <1>6, <1>9, <2>2, <2>3 DEF DedupByTool
<1>10. ASSUME NEW a \in Agent, NEW f \in File, AskSession(a, f) PROVE Types'
  <2> DEFINE q == [pack[a] EXCEPT !.pc = "check", !.todo[f] = @ - 1, !.cur = f]
  <2>1. q \in Packs(saves) /\ q.pc = "check" /\ q.slices = pack[a].slices
        /\ q.cur = f
    BY <1>10, <1>a, <1>b DEF Packs, AskSession
  <2>2. pack' = [pack EXCEPT ![a] = q]
    BY <1>10 DEF AskSession
  <2> HIDE DEF q
  <2>3. LoopOK(saves, q)
    BY <1>10, <1>a, <2>1 DEF LoopOK, AskSession
  <2>4. QED
    BY <1>6, <1>10, <2>2, <2>3 DEF AskSession
<1>11. ASSUME NEW a \in Agent, CheckGone(a) PROVE Types'
  <2> DEFINE q == [pack[a] EXCEPT !.pc = "read", !.stat = 0]
             s == SessionId(pack[a].repo, a)
  <2>0. pack[a].pc = "check" /\ 0 \in 0..saves
    BY <1>0, <1>11 DEF CheckGone
  <2>1. q \in Packs(saves) /\ q.pc = "read" /\ q.slices = pack[a].slices
        /\ q.cur = pack[a].cur
    BY <2>0, <1>a DEF Packs
  <2>2. pack' = [pack EXCEPT ![a] = q] /\ registered' = registered \union {s}
        /\ sessions' = Opened(s) /\ UNCHANGED <<now, files, tools, built>>
        /\ pack[a].pc = "check"
    BY <1>11 DEF CheckGone
  <2>3. s \in Sid
    BY <1>0, <1>a, SidNow DEF Packs
  <2> HIDE DEF q, s
  <2>4. LoopOK(saves, q)
    BY <1>a, <2>1, <2>2 DEF LoopOK
  <2>5. TablesOK'
    <3>1. live' = live \union {s} /\ registered' = live'
      BY <1>0, <2>2, OpenedIs DEF live, TablesOK
    <3>2. UNCHANGED <<now, saves>>
      BY <2>2 DEF files
    <3>3. ASSUME NEW x \in live' PROVE x \in Sid /\ Stamped(saves', now', x, sessions'[x])
      <4>1. CASE x \in live
        <5>1. sessions'[x] = sessions[x]
          BY <2>2, <4>1, OpenedIs
        <5>2. QED
          BY <1>0, <3>2, <4>1, <5>1 DEF TablesOK
      <4>2. CASE x \notin live
        <5>1. x = s /\ sessions'[x] = <<>>
          BY <2>2, <3>1, <4>2, OpenedIs
        <5>2. DOMAIN sessions'[x] = {}
          BY <5>1
        <5>3. QED
          BY <2>3, <5>1, <5>2 DEF Stamped
      <4>3. QED
        BY <4>1, <4>2
    <3>4. QED
      BY <3>1, <3>3 DEF TablesOK
  <2>6. QED
    BY <2>2, <2>4, <2>5, SameBuilt, TypesOfPack
<1>12. ASSUME NEW a \in Agent, DedupBySession(a) PROVE Types'
  <2> DEFINE q == [pack[a] EXCEPT !.pc = "loop",
                                  !.deduped = @ \union {<<pack[a].cur, "session">>}]
             s == SessionId(pack[a].repo, a)
  <2>0. pack[a].pc = "check"
    BY <1>12 DEF DedupBySession
  <2>1. pack[a].pc = "check" /\ pack[a].cur \in File /\ <<pack[a].cur, "session">> \in Held
    BY <2>0, <1>a DEF LoopOK, Held
  <2>2. q \in Packs(saves) /\ q.pc = "loop" /\ q.slices = pack[a].slices
    BY <1>a, <2>1 DEF Packs
  <2>3. pack' = [pack EXCEPT ![a] = q] /\ registered' = registered \union {s}
        /\ sessions' = sessions /\ UNCHANGED <<now, files, tools, built>>
    BY <1>12 DEF DedupBySession
  <2>4. s \in live
    <3>1. pack[a].cur \in DOMAIN Opened(s)[s]
      BY <1>12 DEF DedupBySession, Recorded
    <3> HIDE DEF s
    <3>2. ASSUME s \notin live PROVE FALSE
      <4>1. Opened(s)[s] = <<>>
        BY <3>2, OpenedIs
      <4>2. DOMAIN Opened(s)[s] = {}
        BY <4>1
      <4>3. QED
        BY <3>1, <4>2
    <3>3. QED
      BY <3>2
  <2> HIDE DEF q, s
  <2>5. LoopOK(saves, q)
    BY <1>a, <2>2 DEF LoopOK
  <2>6. UNCHANGED tables
    BY <1>0, <2>3, <2>4 DEF tables, TablesOK
  <2>7. QED
    BY <1>6, <2>1, <2>3, <2>5, <2>6
<1>13. ASSUME NEW a \in Agent, RecordNew(a) PROVE Types'
  <2> DEFINE f == pack[a].cur
             s == SessionId(pack[a].repo, a)
             e == [mtime |-> mtime[f], ts |-> now]
             q == [pack[a] EXCEPT !.pc = "read", !.sid = s, !.stat = mtime[f]]
  <2>1. /\ pack[a].pc = "check" /\ mtime[f] # 0
        /\ pack' = [pack EXCEPT ![a] = q]
        /\ UNCHANGED <<now, files, tools, built>>
    BY <1>13 DEF RecordNew
  <2>2. f \in File /\ mtime[f] \in 1..saves
    <3>1. f \in File
      BY <1>a, <2>1 DEF LoopOK
    <3> HIDE DEF f
    <3>2. mtime[f] \in 0..saves /\ mtime[f] # 0
      BY <1>0, <2>1, <3>1
    <3>3. QED
      BY <1>0, <3>1, <3>2
  <2>3. s \in Sid /\ s.hour = now \div Hour
    BY <1>0, <1>a, SidNow DEF Packs
  <2>a. e.mtime = mtime[f] /\ e.ts = now /\ (mtime[f] \in 1..saves => e \in [mtime : 1..saves, ts : 0..now])
    BY <1>0
  <2> HIDE DEF s, f, e
  <2>4. q \in Packs(saves) /\ q.pc = "read" /\ q.slices = pack[a].slices
        /\ q.cur = pack[a].cur
    BY <1>0, <1>a, <2>2, <2>3 DEF Packs
  <2> HIDE DEF q
  <2>5. LoopOK(saves, q)
    BY <1>a, <2>1, <2>4 DEF LoopOK
  <2>6. RecordedAs(s, f, e)
    BY <1>0, <1>13, RecordedIs DEF s, f, e
  <2>7. UNCHANGED <<now, saves>>
    BY <2>1 DEF files
  <2>8. Stamped(saves', now', s, sessions'[s])
    <3>1. ASSUME NEW g \in DOMAIN sessions'[s]
          PROVE  /\ g \in File /\ sessions'[s][g] \in [mtime : 1..saves, ts : 0..now]
                 /\ sessions'[s][g].ts \div Hour = s.hour
      <4>1. CASE g = f
        BY <2>2, <2>3, <2>6, <2>a, <4>1 DEF RecordedAs
      <4>2. CASE g # f
        BY <1>0, <2>6, <4>2 DEF TablesOK, Stamped, RecordedAs
      <4>3. QED
        BY <4>1, <4>2
    <3>2. QED
      BY <2>7, <3>1 DEF Stamped
  <2>9. \A x \in live' : x \in Sid /\ Stamped(saves', now', x, sessions'[x])
    BY <1>0, <2>3, <2>6, <2>7, <2>8 DEF TablesOK, RecordedAs
  <2>10. TablesOK'
    BY <2>6, <2>9 DEF TablesOK, RecordedAs
  <2>11. QED
    BY <2>1, <2>5, <2>10, SameBuilt, TypesOfPack
<1>14. ASSUME NEW a \in Agent, ReadSlice(a) PROVE Types'
  <2> DEFINE b == SliceOf(a, mtime[pack[a].cur])
             q == [pack[a] EXCEPT !.pc = "loop", !.slices = @ \union {b}]
  <2>1. pack[a].pc = "read" /\ pack[a].cur \in File
    BY <1>14, <1>a DEF ReadSlice, LoopOK
  <2>2. b \in Slices(saves)
    BY <1>0, <1>a, <2>1, SliceIs
  <2>3. pack' = [pack EXCEPT ![a] = q] /\ UNCHANGED <<now, files, tables, tools, built>>
    BY <1>14 DEF ReadSlice
  <2> HIDE DEF b
  <2>4. q \in Packs(saves) /\ q.pc = "loop" /\ q.slices = pack[a].slices \union {b}
    BY <1>a, <2>2 DEF Packs
  <2> HIDE DEF q
  <2>5. LoopOK(saves, q)
    BY <1>a, <2>1, <2>2, <2>4 DEF LoopOK
  <2>6. QED
    BY <1>6, <2>1, <2>3, <2>5
<1>15. ASSUME NEW a \in Agent, ReadFails(a) \/ Reply(a) PROVE Types'
  <2>1. pack[a].pc # "idle"
    BY <1>15 DEF ReadFails, Reply
  <2>2. PICK S \in SUBSET Slices(saves) :
            Ended(a, S) /\ UNCHANGED <<now, files, tables, tools>>
    BY <1>15, EndedIs
  <2>3. BuiltOK'
    BY <1>0, <2>2 DEF Ended, BuiltOK, files
  <2>4. QED
    BY <1>a, <2>1, <2>2, <2>3 DEF Ended
<1>16. CASE GcLoop
  <2>1. /\ live' = live \ Expired(sessions) /\ \A x \in live' : sessions'[x] = sessions[x]
        /\ registered' = registered \ Expired(sessions)
        /\ UNCHANGED <<now, files, tools, pack, built>> /\ saves' = saves
    BY <1>16 DEF GcLoop, Restrict, live, files
  <2>2. TablesOK'
    BY <1>0, <2>1 DEF TablesOK, Stamped
  <2>3. QED
    BY <1>0, <2>1, <2>2 DEF Types, ClockOK, ToolsOK, PackOK, Alone, BuiltOK, files, tools
<1>17. ASSUME NEW p \in Path, Reset(p) PROVE Types'
  <2>1. /\ live' = live /\ registered' = registered
        /\ \A x \in live' : sessions'[x] = sessions[x] \/ sessions'[x] = <<>>
        /\ UNCHANGED <<now, files, tools, pack>> /\ saves' = saves
        /\ built' \subseteq built
    BY <1>17 DEF Reset, live, files
  <2>2. ASSUME NEW x \in live' PROVE x \in Sid /\ Stamped(saves', now', x, sessions'[x])
    <3>1. CASE sessions'[x] = sessions[x]
      BY <1>0, <2>1, <3>1 DEF TablesOK, Stamped
    <3>2. CASE sessions'[x] = <<>>
      <4>1. DOMAIN sessions'[x] = {}
        BY <3>2
      <4>2. QED
        BY <1>0, <2>1, <4>1 DEF TablesOK, Stamped
    <3>3. QED
      BY <2>1, <3>1, <3>2
  <2>3. TablesOK'
    BY <1>0, <2>1, <2>2 DEF TablesOK
  <2>4. QED
    BY <1>0, <2>1, <2>3 DEF Types, ClockOK, ToolsOK, PackOK, Alone, BuiltOK, files, tools
<1>18. CASE ResetAll \/ Restart
  <2>1. /\ sessions' = <<>> /\ registered' = {} /\ built' = {}
        /\ UNCHANGED <<now, files, tools>> /\ saves' = saves
    BY <1>18 DEF ResetAll, Restart, files
  <2>2. live' = {}
    BY <2>1 DEF live
  <2>3. TablesOK' /\ BuiltOK'
    BY <2>1, <2>2 DEF TablesOK, BuiltOK
  <2>4. PackOK'
    <3>1. CASE ResetAll
      BY <1>0, <2>1, <3>1 DEF ResetAll, PackOK, Alone
    <3>2. CASE Restart
      BY <1>0, <2>1, <3>2, NoPackIs DEF Restart, PackOK, Alone
    <3>3. QED
      BY <1>18, <3>1, <3>2
  <2>5. QED
    BY <1>0, <2>1, <2>3, <2>4 DEF Types, ClockOK, ToolsOK, files, tools
<1>19. CASE UNCHANGED vars
  BY <1>0, <1>19 DEF vars, files, tools, tables, live, Types, ClockOK, TablesOK, Stamped,
                     ToolsOK, PackOK, Alone, BuiltOK
<1>20. ASSUME NEW a \in Agent, SliceLoop(a) PROVE Types'
  BY <1>20, <1>7, <1>8, <1>9, <1>10, <1>11, <1>12, <1>13, <1>14, <1>15 DEF SliceLoop
<1>21. QED
  BY <1>1, <1>2, <1>3, <1>4, <1>5, <1>16, <1>17, <1>18, <1>19, <1>20 DEF Next

\* All components keep to their types; no stamp is ahead of the clock and none is
\* from another hour than the session it is in, whatever collects and resets.
THEOREM TypeCorrect == Spec => []TypeOK
BY TypesInit, TypesStep, TypesMean, PTL DEF Spec

\* What the collection loop, the collection inside already_seen, resets and new
\* sessions do to _sessions they do to _session_repos.
THEOREM RegistryExact == Spec => []RegistryMatchesSessions
<1>1. Types => RegistryMatchesSessions
  BY DEF Types, TablesOK, RegistryMatchesSessions
<1>2. QED
  BY <1>1, TypesInit, TypesStep, PTL DEF Spec

-----------------------------------------------------------------------------
(* What the sessions say and what was put in packs *)

\* Each repository is named by the path it is mounted as; with other spellings
\* a reset forgets nothing (main.py:261), and both properties speak of resets.
SameMount == \A p \in Path : Mount[p] = p

Has(s, f, v) == s \in live /\ f \in DOMAIN sessions[s] /\ sessions[s][f].mtime = v

HasAfter(s, f, v) == s \in live' /\ f \in DOMAIN sessions'[s] /\ sessions'[s][f].mtime = v

\* On account of session s, version v of f was read into a pack or its read failed.
Accounts(b, s, f, v) ==
    b.sid = s /\ b.file = f /\ (b.version = v \/ (b.version = 0 /\ b.stat = v))

Tried(s, f, v) ==
    \/ \E b \in built : Accounts(b, s, f, v)
    \/ \E a \in Agent : \E b \in pack[a].slices : b.stat # 0 /\ Accounts(b, s, f, v)

TriedAfter(s, f, v) ==
    \/ \E b \in built' : Accounts(b, s, f, v)
    \/ \E a \in Agent : \E b \in pack'[a].slices : b.stat # 0 /\ Accounts(b, s, f, v)

\* A request is about to read the version it has just recorded.
Reading(q, s, f, v) == q.pc = "read" /\ q.stat = v /\ v # 0 /\ q.sid = s /\ q.cur = f

\* What a session says of a file as it is now was tried, or is about to be.
Covered ==
    \A s \in live : \A f \in DOMAIN sessions[s] :
        s.hour = now \div Hour /\ sessions[s][f].mtime = mtime[f] =>
            Tried(s, f, mtime[f]) \/ \E a \in Agent : Reading(pack[a], s, f, mtime[f])

CoveredAfter ==
    \A s \in live' : \A f \in DOMAIN sessions'[s] :
        s.hour = now' \div Hour /\ sessions'[s][f].mtime = mtime'[f] =>
            TriedAfter(s, f, mtime'[f]) \/ \E a \in Agent : Reading(pack'[a], s, f, mtime'[f])

LEMMA CoveredThen == CoveredAfter => Covered'
BY DEF Covered, CoveredAfter, Tried, TriedAfter, Reading, live

\* Session s was told of version v of f; while that is the file and this the
\* hour, s still says so.
Noted(s, f, v) ==
    /\ v # 0 /\ s.hour <= now \div Hour
    /\ s.hour = now \div Hour /\ v = mtime[f] => Has(s, f, v)

NotedAfter(s, f, v) ==
    /\ v # 0 /\ s.hour <= now' \div Hour
    /\ s.hour = now' \div Hour /\ v = mtime'[f] => HasAfter(s, f, v)

Remembered ==
    /\ \A b \in built : Noted(b.sid, b.file, b.stat)
    /\ \A a \in Agent :
           /\ \A b \in pack[a].slices : b.stat # 0 => Noted(b.sid, b.file, b.stat)
           /\ pack[a].pc = "read" /\ pack[a].stat # 0 =>
                  Noted(pack[a].sid, pack[a].cur, pack[a].stat)

RememberedAfter ==
    /\ \A b \in built' : NotedAfter(b.sid, b.file, b.stat)
    /\ \A a \in Agent :
           /\ \A b \in pack'[a].slices : b.stat # 0 => NotedAfter(b.sid, b.file, b.stat)
           /\ pack'[a].pc = "read" /\ pack'[a].stat # 0 =>
                  NotedAfter(pack'[a].sid, pack'[a].cur, pack'[a].stat)

LEMMA RememberedThen == RememberedAfter => Remembered'
BY DEF Remembered, RememberedAfter, Noted, NotedAfter, Has, HasAfter, live

History == Types /\ Covered /\ Remembered

LEMMA HistoryInit == Init => History
<1> SUFFICES ASSUME Init PROVE Covered /\ Remembered
  BY TypesInit DEF History
<1>1. live = {} /\ built = {}
  BY DEF Init, live
<1>2. \A a \in Agent : pack[a].pc = "idle" /\ pack[a].slices = {}
  BY TypesInit, NoPackIs, ConstantsAssumption DEF Init
<1>3. QED
  BY <1>1, <1>2 DEF Covered, Remembered

\* Time passes, files are saved and deleted.
Onward ==
    /\ now \in Nat /\ now' \in Nat /\ now <= now' /\ saves \in Nat
    /\ \A f \in File : mtime[f] \in 0..saves
                       /\ (mtime'[f] = mtime[f] \/ mtime'[f] = 0 \/ mtime'[f] > saves)

LEMMA StandStill == ASSUME Types, UNCHANGED <<now, files>> PROVE Onward
BY ConstantsAssumption DEF Types, ClockOK, Onward, files

LEMMA NotedKept ==
    ASSUME Onward, NEW s \in Sid, NEW f \in File, NEW v \in 0..saves, Noted(s, f, v),
           Has(s, f, v) /\ s.hour = now \div Hour /\ v = mtime[f] => HasAfter(s, f, v)
    PROVE  NotedAfter(s, f, v)
<1>1. /\ now \div Hour <= now' \div Hour /\ now \div Hour \in Nat /\ now' \div Hour \in Nat
  BY HourMonotone DEF Onward
<1>2. s.hour \in Nat
  <2>1. MaxTime \div Hour \in Nat
    BY ConstantsAssumption, DivIs
  <2>2. QED
    BY <2>1 DEF Sid
<1>3. v # 0 /\ s.hour <= now' \div Hour
  BY <1>1, <1>2 DEF Noted
<1>4. ASSUME s.hour = now' \div Hour, v = mtime'[f] PROVE HasAfter(s, f, v)
  <2>1. s.hour = now \div Hour
    BY <1>1, <1>2, <1>4 DEF Noted
  <2>2. v = mtime[f]
    BY <1>3, <1>4 DEF Onward
  <2>3. QED
    BY <2>1, <2>2 DEF Noted
<1>5. QED
  BY <1>3, <1>4 DEF NotedAfter

LEMMA CoveredStill ==
    ASSUME Types, Covered, Onward, NEW s \in live, NEW f \in DOMAIN sessions[s],
           s.hour = now' \div Hour, sessions[s][f].mtime = mtime'[f]
    PROVE  /\ mtime'[f] = mtime[f]
           /\ Tried(s, f, mtime[f]) \/ \E a \in Agent : Reading(pack[a], s, f, mtime[f])
<1>1. /\ f \in File /\ sessions[s][f].mtime \in 1..saves
      /\ sessions[s][f].ts \in 0..now /\ sessions[s][f].ts \div Hour = s.hour
  BY DEF Types, TablesOK, Stamped
<1>2. mtime'[f] = mtime[f]
  BY <1>1 DEF Onward
<1>3. s.hour = now \div Hour
  <2> DEFINE t == sessions[s][f].ts
  <2>1. t \in Nat /\ t <= now /\ now \in Nat /\ now' \in Nat /\ now <= now'
    BY <1>1 DEF Onward
  <2> HIDE DEF t
  <2>2. t \div Hour <= now \div Hour /\ now \div Hour <= now' \div Hour
        /\ t \div Hour \in Nat /\ now \div Hour \in Nat /\ now' \div Hour \in Nat
    BY <2>1, HourMonotone
  <2>3. QED
    BY <1>1, <2>2 DEF t
<1>4. QED
  BY <1>2, <1>3 DEF Covered

LEMMA Facts ==
    ASSUME Types
    PROVE  /\ \A b \in built : b.sid \in Sid /\ b.file \in File /\ b.stat \in 0..saves
           /\ \A a \in Agent :
                  /\ \A b \in pack[a].slices :
                         b.sid \in Sid /\ b.file \in File /\ b.stat \in 0..saves
                  /\ pack[a].sid \in Sid /\ pack[a].stat \in 0..saves /\ pack[a].repo \in Path
                  /\ pack[a].pc = "idle" => pack[a].slices = {}
                  /\ pack[a].pc \in {"check", "read"} => pack[a].cur \in File
                  /\ pack[a].pc \in {"idle", "loop", "check", "read"}
           /\ DOMAIN pack = Agent
           /\ \A s \in live : s \in Sid /\ DOMAIN sessions[s] \subseteq File
<1> SUFFICES ASSUME Types PROVE
        /\ \A b \in Slices(saves) : b.sid \in Sid /\ b.file \in File /\ b.stat \in 0..saves
        /\ \A a \in Agent : LoopOK(saves, pack[a]) /\ pack[a] \in Packs(saves)
  BY DEF Types, BuiltOK, PackOK, LoopOK, Packs, TablesOK, Stamped
<1>1. \A a \in Agent : LoopOK(saves, pack[a]) /\ pack[a] \in Packs(saves)
  BY DEF Types, PackOK, LoopOK
<1>2. QED
  BY <1>1 DEF Slices

\* Steps between packs: no pack changes, and sessions forget only what the
\* history forgets with them.
LEMMA HistoryStands ==
    ASSUME History, Onward, pack' = pack, built' \subseteq built,
           \A s \in live' : s \in live /\ \A f \in DOMAIN sessions'[s] :
               f \in DOMAIN sessions[s] /\ sessions'[s][f] = sessions[s][f],
           \A s \in live', b \in built :
               /\ b.sid = s /\ s.hour = now' \div Hour /\ DOMAIN sessions'[s] # {}
               /\ mtime'[b.file] = mtime[b.file]
               => b \in built',
           \A s \in Sid, f \in File, v \in 0..saves :
               /\ Has(s, f, v) /\ s.hour = now \div Hour
               /\ (\E b \in built' : b.sid = s) \/ ~NoneAssembling
               => HasAfter(s, f, v)
    PROVE  CoveredAfter /\ RememberedAfter
<1>1. CoveredAfter
  <2> SUFFICES ASSUME NEW s \in live', NEW f \in DOMAIN sessions'[s],
                      s.hour = now' \div Hour, sessions'[s][f].mtime = mtime'[f]
               PROVE  TriedAfter(s, f, mtime'[f]) \/ \E a \in Agent : Reading(pack'[a], s, f, mtime'[f])
    BY DEF CoveredAfter
  <2>1. s \in live /\ f \in DOMAIN sessions[s] /\ sessions[s][f].mtime = mtime'[f]
    OBVIOUS
  <2>2. mtime'[f] = mtime[f] /\ (Tried(s, f, mtime[f]) \/ \E a \in Agent : Reading(pack[a], s, f, mtime[f]))
    BY <2>1, CoveredStill DEF History
  <2>3. \A b \in built : b.sid = s /\ b.file = f => b \in built'
    BY <2>2
  <2>4. Tried(s, f, mtime[f]) => TriedAfter(s, f, mtime'[f])
    BY <2>2, <2>3 DEF Tried, TriedAfter, Accounts
  <2>5. QED
    BY <2>2, <2>4
<1>2. ASSUME NEW b \in built' PROVE NotedAfter(b.sid, b.file, b.stat)
  <2>1. b.sid \in Sid /\ b.file \in File /\ b.stat \in 0..saves
        /\ Noted(b.sid, b.file, b.stat)
    BY Facts DEF History, Remembered
  <2>2. QED
    BY <2>1, NotedKept
<1>3. ASSUME NEW a \in Agent, pack[a].pc # "idle", NEW s \in Sid, NEW f \in File, NEW v \in 0..saves,
             Noted(s, f, v)
      PROVE  NotedAfter(s, f, v)
  BY <1>3, NotedKept DEF NoneAssembling
<1>4. ASSUME NEW a \in Agent
      PROVE  /\ \A b \in pack[a].slices : b.stat # 0 => NotedAfter(b.sid, b.file, b.stat)
             /\ pack[a].pc = "read" /\ pack[a].stat # 0 =>
                    NotedAfter(pack[a].sid, pack[a].cur, pack[a].stat)
  <2>1. \A b \in pack[a].slices : b.stat # 0 => NotedAfter(b.sid, b.file, b.stat)
    BY <1>3, Facts DEF History, Remembered
  <2>2. pack[a].pc = "read" /\ pack[a].stat # 0 =>
            NotedAfter(pack[a].sid, pack[a].cur, pack[a].stat)
    BY <1>3, Facts DEF History, Remembered
  <2>3. QED
    BY <2>1, <2>2
<1>5. QED
  BY <1>1, <1>2, <1>4 DEF RememberedAfter

\* Steps of a pack that record and read nothing.
LEMMA HistoryPasses ==
    ASSUME History, UNCHANGED <<now, files, built>>,
           NEW a \in Agent, NEW q, pack' = [pack EXCEPT ![a] = q],
           q.slices = pack[a].slices, pack[a].pc # "read", q.pc # "read" \/ q.stat = 0,
           \A s \in live' : \A f \in DOMAIN sessions'[s] :
               s \in live /\ f \in DOMAIN sessions[s] /\ sessions'[s][f] = sessions[s][f],
           \A s \in live : s \in live' /\ sessions'[s] = sessions[s]
    PROVE  CoveredAfter /\ RememberedAfter
<1>1. Onward /\ now' = now /\ mtime' = mtime /\ built' = built
  BY StandStill DEF History, files
<1>2. /\ pack'[a] = q /\ \A c \in Agent : c # a => pack'[c] = pack[c]
      /\ \A c \in Agent : pack'[c].slices = pack[c].slices
  BY Facts DEF History
<1>3. CoveredAfter
  <2> SUFFICES ASSUME NEW s \in live', NEW f \in DOMAIN sessions'[s],
                      s.hour = now' \div Hour, sessions'[s][f].mtime = mtime'[f]
               PROVE  TriedAfter(s, f, mtime'[f]) \/ \E c \in Agent : Reading(pack'[c], s, f, mtime'[f])
    BY DEF CoveredAfter
  <2>1. s \in live /\ f \in DOMAIN sessions[s] /\ sessions[s][f].mtime = mtime'[f]
    OBVIOUS
  <2>2. mtime'[f] = mtime[f] /\ (Tried(s, f, mtime[f]) \/ \E c \in Agent : Reading(pack[c], s, f, mtime[f]))
    BY <1>1, <2>1, CoveredStill DEF History
  <2>3. Tried(s, f, mtime[f]) => TriedAfter(s, f, mtime'[f])
    BY <1>1, <1>2 DEF Tried, TriedAfter
  <2>4. \A c \in Agent : Reading(pack[c], s, f, mtime[f]) => Reading(pack'[c], s, f, mtime'[f])
    BY <1>1, <1>2 DEF Reading
  <2>5. QED
    BY <2>2, <2>3, <2>4
<1>4. ASSUME NEW s \in Sid, NEW f \in File, NEW v \in 0..saves, Noted(s, f, v)
      PROVE  NotedAfter(s, f, v)
  <2>1. Has(s, f, v) => HasAfter(s, f, v)
    BY DEF Has, HasAfter
  <2>2. QED
    BY <1>1, <1>4, <2>1, NotedKept
<1>5. \A b \in built' : NotedAfter(b.sid, b.file, b.stat)
  BY <1>1, <1>4, Facts DEF History, Remembered
<1>6. ASSUME NEW c \in Agent
      PROVE  /\ \A b \in pack'[c].slices : b.stat # 0 => NotedAfter(b.sid, b.file, b.stat)
             /\ pack'[c].pc = "read" /\ pack'[c].stat # 0 =>
                    NotedAfter(pack'[c].sid, pack'[c].cur, pack'[c].stat)
  <2>1. \A b \in pack'[c].slices : b.stat # 0 => NotedAfter(b.sid, b.file, b.stat)
    BY <1>2, <1>4, Facts DEF History, Remembered
  <2>2. ASSUME pack'[c].pc = "read", pack'[c].stat # 0
        PROVE  NotedAfter(pack'[c].sid, pack'[c].cur, pack'[c].stat)
    <3>1. c # a /\ pack'[c] = pack[c]
      BY <1>2, <2>2
    <3>2. QED
      BY <1>4, <2>2, <3>1, Facts DEF History, Remembered
  <2>3. QED
    BY <2>1, <2>2
<1>7. QED
  BY <1>3, <1>5, <1>6 DEF RememberedAfter

\* A session with an entry of the present hour is not collected.
LEMMA InUse ==
    ASSUME Types, NEW s \in live, NEW f \in DOMAIN sessions[s], s.hour = now \div Hour
    PROVE  s \notin Expired(sessions)
<1>1. /\ sessions[s][f].ts \in 0..now /\ sessions[s][f].ts \div Hour = now \div Hour
      /\ now \in Nat
  BY ConstantsAssumption DEF Types, TablesOK, Stamped, ClockOK
<1>2. ~(now - sessions[s][f].ts > Hour)
  <2> DEFINE t == sessions[s][f].ts
  <2>1. t \in Nat /\ t <= now /\ t \div Hour = now \div Hour
    BY <1>1
  <2> HIDE DEF t
  <2>2. ~(now - t > Hour)
    BY <1>1, <2>1, SameHour
  <2>3. QED
    BY <2>2 DEF t
<1>3. QED
  BY <1>2 DEF Expired

LEMMA HistoryRecords ==
    ASSUME History, NEW a \in Agent, RecordNew(a)
    PROVE  CoveredAfter /\ RememberedAfter
<1> DEFINE f == pack[a].cur
           s == SessionId(pack[a].repo, a)
           e == [mtime |-> mtime[f], ts |-> now]
           q == [pack[a] EXCEPT !.pc = "read", !.sid = s, !.stat = mtime[f]]
<1>1. /\ pack[a].pc = "check" /\ mtime[f] # 0 /\ pack' = [pack EXCEPT ![a] = q]
      /\ UNCHANGED <<now, files, built>>
  BY DEF RecordNew
<1>2. RecordedAs(s, f, e)
  BY RecordedIs DEF History, Types
<1>3. s \in Sid /\ s.hour = now \div Hour
  BY Facts, SidNow DEF History, Types
<1>4. e.mtime = mtime[f]
  OBVIOUS
<1>5. q.pc = "read" /\ q.sid = s /\ q.stat = mtime[f] /\ q.cur = f /\ q.slices = pack[a].slices
  <2>1. pack[a] \in Packs(saves)
    BY DEF History, Types, PackOK, LoopOK
  <2>2. QED
    BY <2>1 DEF Packs
<1> HIDE DEF f, s, e, q
<1>6. Onward /\ now' = now /\ mtime' = mtime /\ built' = built /\ f \in File /\ mtime[f] \in 0..saves
  BY <1>1, StandStill, Facts DEF History, files, f, Onward
<1>7. /\ pack'[a] = q /\ \A c \in Agent : c # a => pack'[c] = pack[c]
      /\ \A c \in Agent : pack'[c].slices = pack[c].slices
  BY <1>1, <1>5, Facts DEF History
<1>8. CoveredAfter
  <2> SUFFICES ASSUME NEW x \in live', NEW g \in DOMAIN sessions'[x],
                      x.hour = now' \div Hour, sessions'[x][g].mtime = mtime'[g]
               PROVE  TriedAfter(x, g, mtime'[g]) \/ \E c \in Agent : Reading(pack'[c], x, g, mtime'[g])
    BY DEF CoveredAfter
  <2>1. CASE x = s /\ g = f
    BY <1>1, <1>5, <1>6, <1>7, <2>1 DEF Reading
  <2>2. CASE ~(x = s /\ g = f)
    <3>1. x \in live /\ g \in DOMAIN sessions[x] /\ sessions[x][g].mtime = mtime'[g]
      BY <1>2, <2>2 DEF RecordedAs
    <3>2. mtime'[g] = mtime[g] /\ (Tried(x, g, mtime[g]) \/ \E c \in Agent : Reading(pack[c], x, g, mtime[g]))
      BY <1>6, <3>1, CoveredStill DEF History
    <3>3. Tried(x, g, mtime[g]) => TriedAfter(x, g, mtime'[g])
      BY <1>6, <1>7 DEF Tried, TriedAfter
    <3>4. \A c \in Agent : Reading(pack[c], x, g, mtime[g]) => Reading(pack'[c], x, g, mtime'[g])
      BY <1>1, <1>6, <1>7 DEF Reading
    <3>5. QED
      BY <3>2, <3>3, <3>4
  <2>3. QED
    BY <2>1, <2>2
<1>9. ASSUME NEW x \in Sid, NEW g \in File, NEW v \in 0..saves, Noted(x, g, v)
      PROVE  NotedAfter(x, g, v)
  <2>1. ASSUME Has(x, g, v), x.hour = now \div Hour, v = mtime[g] PROVE HasAfter(x, g, v)
    <3>0. x \in live /\ g \in DOMAIN sessions[x] /\ sessions[x][g].mtime = v
      BY <2>1 DEF Has
    <3>1. CASE x = s /\ g = f
      BY <1>2, <1>4, <2>1, <3>1 DEF RecordedAs, HasAfter
    <3>2. CASE x = s /\ g # f
      BY <1>2, <3>0, <3>2 DEF RecordedAs, HasAfter
    <3>3. CASE x # s
      <4>1. x \notin Expired(sessions)
        BY <2>1, <3>0, InUse DEF History
      <4>2. x \in live' /\ sessions'[x] = sessions[x]
        BY <1>2, <3>0, <3>3, <4>1 DEF RecordedAs
      <4>3. QED
        BY <3>0, <4>2 DEF HasAfter
    <3>4. QED
      BY <3>1, <3>2, <3>3
  <2>2. QED
    BY <1>6, <1>9, <2>1, NotedKept
<1>10. NotedAfter(s, f, mtime[f])
  BY <1>1, <1>2, <1>3, <1>4, <1>6 DEF RecordedAs, NotedAfter, HasAfter, Sid
<1>11. \A b \in built' : NotedAfter(b.sid, b.file, b.stat)
  BY <1>6, <1>9, Facts DEF History, Remembered
<1>12. ASSUME NEW c \in Agent
       PROVE  /\ \A b \in pack'[c].slices : b.stat # 0 => NotedAfter(b.sid, b.file, b.stat)
              /\ pack'[c].pc = "read" /\ pack'[c].stat # 0 =>
                     NotedAfter(pack'[c].sid, pack'[c].cur, pack'[c].stat)
  <2>1. \A b \in pack'[c].slices : b.stat # 0 => NotedAfter(b.sid, b.file, b.stat)
    BY <1>7, <1>9, Facts DEF History, Remembered
  <2>2. CASE c = a
    BY <1>5, <1>7, <1>10, <2>1, <2>2
  <2>3. CASE c # a
    BY <1>7, <1>9, <2>1, <2>3, Facts DEF History, Remembered
  <2>4. QED
    BY <2>2, <2>3
<1>13. QED
  BY <1>8, <1>11, <1>12 DEF RememberedAfter

LEMMA HistoryReads ==
    ASSUME History, NEW a \in Agent, ReadSlice(a)
    PROVE  CoveredAfter /\ RememberedAfter
<1> DEFINE f == pack[a].cur
           b0 == SliceOf(a, mtime[f])
           q == [pack[a] EXCEPT !.pc = "loop", !.slices = @ \union {b0}]
<1>1. /\ pack[a].pc = "read" /\ pack' = [pack EXCEPT ![a] = q]
      /\ UNCHANGED <<now, files, sessions, built>>
  BY DEF ReadSlice, tables
<1>2. b0.file = f /\ b0.sid = pack[a].sid /\ b0.stat = pack[a].stat /\ b0.version = mtime[f]
  BY DEF SliceOf
<1> HIDE DEF b0
<1>3. q.pc = "loop" /\ q.slices = pack[a].slices \union {b0}
  <2>1. pack[a] \in Packs(saves)
    BY DEF History, Types, PackOK, LoopOK
  <2>2. QED
    BY <2>1 DEF Packs
<1> HIDE DEF q
<1>4. Onward /\ now' = now /\ mtime' = mtime /\ built' = built /\ sessions' = sessions
  BY <1>1, StandStill DEF History, files
<1>5. pack'[a] = q /\ \A c \in Agent : c # a => pack'[c] = pack[c]
  BY <1>1, Facts DEF History
<1>6. CoveredAfter
  <2> SUFFICES ASSUME NEW s \in live', NEW g \in DOMAIN sessions'[s],
                      s.hour = now' \div Hour, sessions'[s][g].mtime = mtime'[g]
               PROVE  TriedAfter(s, g, mtime'[g]) \/ \E c \in Agent : Reading(pack'[c], s, g, mtime'[g])
    BY DEF CoveredAfter
  <2>1. s \in live /\ g \in DOMAIN sessions[s] /\ sessions[s][g].mtime = mtime'[g]
    BY <1>4 DEF live
  <2>2. mtime'[g] = mtime[g] /\ (Tried(s, g, mtime[g]) \/ \E c \in Agent : Reading(pack[c], s, g, mtime[g]))
    BY <1>4, <2>1, CoveredStill DEF History
  <2>3. Tried(s, g, mtime[g]) => TriedAfter(s, g, mtime'[g])
    BY <1>3, <1>4, <1>5 DEF Tried, TriedAfter
  <2>4. Reading(pack[a], s, g, mtime[g]) => TriedAfter(s, g, mtime'[g])
    <3>1. ASSUME Reading(pack[a], s, g, mtime[g])
          PROVE  b0 \in pack'[a].slices /\ b0.stat # 0 /\ Accounts(b0, s, g, mtime'[g])
      BY <1>2, <1>3, <1>4, <1>5, <3>1 DEF Reading, Accounts, f
    <3>2. QED
      BY <3>1 DEF TriedAfter
  <2>5. \A c \in Agent : c # a /\ Reading(pack[c], s, g, mtime[g]) => Reading(pack'[c], s, g, mtime'[g])
    BY <1>4, <1>5
  <2>6. QED
    BY <2>2, <2>3, <2>4, <2>5
<1>7. ASSUME NEW s \in Sid, NEW g \in File, NEW v \in 0..saves, Noted(s, g, v)
      PROVE  NotedAfter(s, g, v)
  <2>1. Has(s, g, v) => HasAfter(s, g, v)
    BY <1>4 DEF Has, HasAfter, live
  <2>2. QED
    BY <1>4, <1>7, <2>1, NotedKept
<1>8. \A b \in built' : NotedAfter(b.sid, b.file, b.stat)
  BY <1>4, <1>7, Facts DEF History, Remembered
<1>9. ASSUME NEW c \in Agent
      PROVE  /\ \A b \in pack[c].slices : b.stat # 0 => NotedAfter(b.sid, b.file, b.stat)
             /\ pack[c].pc = "read" /\ pack[c].stat # 0 =>
                    NotedAfter(pack[c].sid, pack[c].cur, pack[c].stat)
  BY <1>7, Facts DEF History, Remembered
<1>10. b0.stat # 0 => NotedAfter(b0.sid, b0.file, b0.stat)
  BY <1>1, <1>2, <1>9 DEF f
<1>11. ASSUME NEW c \in Agent
       PROVE  /\ \A b \in pack'[c].slices : b.stat # 0 => NotedAfter(b.sid, b.file, b.stat)
              /\ pack'[c].pc = "read" /\ pack'[c].stat # 0 =>
                     NotedAfter(pack'[c].sid, pack'[c].cur, pack'[c].stat)
  <2>1. CASE c = a
    BY <1>3, <1>5, <1>9, <1>10, <2>1
  <2>2. CASE c # a
    BY <1>5, <1>9, <2>2
  <2>3. QED
    BY <2>1, <2>2
<1>12. QED
  BY <1>6, <1>8, <1>11 DEF RememberedAfter

LEMMA HistoryEnds ==
    ASSUME History, NEW a \in Agent, ReadFails(a) \/ Reply(a)
    PROVE  CoveredAfter /\ RememberedAfter
<1>0. PICK S \in SUBSET Slices(saves) :
          /\ Ended(a, S) /\ UNCHANGED <<now, files, tables, tools>>
          /\ pack[a].slices \subseteq S
          /\ pack[a].pc = "read" => SliceOf(a, 0) \in S
          /\ \A b \in S : b \in pack[a].slices \/ (pack[a].pc = "read" /\ b = SliceOf(a, 0))
  BY EndedIs DEF History
<1>1. Onward /\ now' = now /\ mtime' = mtime /\ sessions' = sessions
  BY <1>0, StandStill DEF History, files, tables
<1>2. /\ pack'[a] = NoPack /\ \A c \in Agent : c # a => pack'[c] = pack[c]
      /\ built' = built \union {b \in S : b.stat # 0}
      /\ NoPack.pc = "idle" /\ NoPack.slices = {}
  BY <1>0, <1>1, Facts, NoPackIs DEF History, Ended, Onward
<1>3. CoveredAfter
  <2> SUFFICES ASSUME NEW s \in live', NEW g \in DOMAIN sessions'[s],
                      s.hour = now' \div Hour, sessions'[s][g].mtime = mtime'[g]
               PROVE  TriedAfter(s, g, mtime'[g]) \/ \E c \in Agent : Reading(pack'[c], s, g, mtime'[g])
    BY DEF CoveredAfter
  <2>1. s \in live /\ g \in DOMAIN sessions[s] /\ sessions[s][g].mtime = mtime'[g]
    BY <1>1 DEF live
  <2>2. mtime'[g] = mtime[g] /\ (Tried(s, g, mtime[g]) \/ \E c \in Agent : Reading(pack[c], s, g, mtime[g]))
    BY <1>1, <2>1, CoveredStill DEF History
  <2>3. Tried(s, g, mtime[g]) => TriedAfter(s, g, mtime'[g])
    BY <1>0, <1>1, <1>2 DEF Tried, TriedAfter
  <2>4. Reading(pack[a], s, g, mtime[g]) => TriedAfter(s, g, mtime'[g])
    <3>1. ASSUME Reading(pack[a], s, g, mtime[g])
          PROVE  SliceOf(a, 0) \in built' /\ Accounts(SliceOf(a, 0), s, g, mtime'[g])
      <4>1. SliceOf(a, 0).stat = mtime[g] /\ mtime[g] # 0 /\ SliceOf(a, 0).sid = s
            /\ SliceOf(a, 0).file = g /\ SliceOf(a, 0).version = 0
        BY <3>1 DEF Reading, SliceOf
      <4>2. SliceOf(a, 0) \in S
        BY <1>0, <3>1 DEF Reading
      <4>3. QED
        BY <1>1, <1>2, <4>1, <4>2 DEF Accounts
    <3>2. QED
      BY <3>1 DEF TriedAfter
  <2>5. \A c \in Agent : c # a /\ Reading(pack[c], s, g, mtime[g]) => Reading(pack'[c], s, g, mtime'[g])
    BY <1>1, <1>2
  <2>6. QED
    BY <2>2, <2>3, <2>4, <2>5
<1>4. ASSUME NEW s \in Sid, NEW g \in File, NEW v \in 0..saves, Noted(s, g, v)
      PROVE  NotedAfter(s, g, v)
  <2>1. Has(s, g, v) => HasAfter(s, g, v)
    BY <1>1 DEF Has, HasAfter, live
  <2>2. QED
    BY <1>1, <1>4, <2>1, NotedKept
<1>5. ASSUME NEW b \in built' PROVE NotedAfter(b.sid, b.file, b.stat)
  <2>1. CASE b \in built
    BY <1>4, <2>1, Facts DEF History, Remembered
  <2>2. CASE b \in pack[a].slices /\ b.stat # 0
    BY <1>4, <2>2, Facts DEF History, Remembered
  <2>3. CASE pack[a].pc = "read" /\ b = SliceOf(a, 0) /\ b.stat # 0
    <3>1. b.sid = pack[a].sid /\ b.file = pack[a].cur /\ b.stat = pack[a].stat
      BY <2>3 DEF SliceOf
    <3>2. QED
      BY <1>4, <2>3, <3>1, Facts DEF History, Remembered
  <2>4. QED
    BY <1>0, <1>2, <2>1, <2>2, <2>3
<1>6. ASSUME NEW c \in Agent
      PROVE  /\ \A b \in pack'[c].slices : b.stat # 0 => NotedAfter(b.sid, b.file, b.stat)
             /\ pack'[c].pc = "read" /\ pack'[c].stat # 0 =>
                    NotedAfter(pack'[c].sid, pack'[c].cur, pack'[c].stat)
  BY <1>2, <1>4, Facts DEF History, Remembered
<1>7. QED
  BY <1>3, <1>5, <1>6 DEF RememberedAfter

LEMMA RecordedLive == ASSUME Types, NEW a \in Agent, Recorded(a)
                      PROVE  SessionId(pack[a].repo, a) \in live
                             /\ Has(SessionId(pack[a].repo, a), pack[a].cur, mtime[pack[a].cur])
<1> DEFINE s == SessionId(pack[a].repo, a)
<1>1. pack[a].cur \in DOMAIN Opened(s)[s] /\ Opened(s)[s][pack[a].cur].mtime = mtime[pack[a].cur]
  BY DEF Recorded
<1> HIDE DEF s
<1>2. s \in live
  <2>1. ASSUME s \notin live PROVE FALSE
    <3>1. Opened(s)[s] = <<>>
      BY <2>1, OpenedIs
    <3>2. DOMAIN Opened(s)[s] = {}
      BY <3>1
    <3>3. QED
      BY <1>1, <3>2
  <2>2. QED
    BY <2>1
<1>3. Opened(s)[s] = sessions[s]
  BY <1>2, OpenedIs
<1>4. Has(s, pack[a].cur, mtime[pack[a].cur])
  BY <1>1, <1>2, <1>3 DEF Has
<1>5. QED
  BY <1>2, <1>4 DEF s

LEMMA HistoryStep == ASSUME SameMount PROVE History /\ [Next]_vars => History'
<1> SUFFICES ASSUME SameMount, History, [Next]_vars PROVE CoveredAfter /\ RememberedAfter
  BY TypesStep, CoveredThen, RememberedThen DEF History
<1>0. /\ now \in Nat /\ saves \in Nat /\ \A f \in File : mtime[f] \in 0..saves
      /\ \A a \in Agent : pack[a] \in Packs(saves)
  BY ConstantsAssumption DEF History, Types, ClockOK, PackOK, LoopOK
<1>1. ASSUME Onward, pack' = pack, built' = built, sessions' = sessions
      PROVE  CoveredAfter /\ RememberedAfter
  <2>1. \A s, f, v : Has(s, f, v) => HasAfter(s, f, v)
    BY <1>1 DEF Has, HasAfter, live
  <2>2. QED
    BY <1>1, <2>1, HistoryStands DEF live
<1>2. CASE Tick
  <2>1. /\ Onward /\ pack' = pack /\ sessions' = sessions
        /\ built' = {b \in built : b.sid.hour = now' \div Hour}
    BY <1>0, <1>2 DEF Tick, Onward, files, tables
  <2>2. \A s, f, v : Has(s, f, v) => HasAfter(s, f, v)
    BY <2>1 DEF Has, HasAfter, live
  <2>3. \A s \in live', b \in built : b.sid = s /\ s.hour = now' \div Hour => b \in built'
    BY <2>1
  <2>4. QED
    BY <2>1, <2>2, <2>3, HistoryStands DEF live
<1>3. ASSUME NEW f \in File, SaveFile(f) \/ DeleteFile(f)
      PROVE  CoveredAfter /\ RememberedAfter
  <2>1. pack' = pack /\ sessions' = sessions /\ now' = now
        /\ built' = {b \in built : b.file # f} /\ mtime'[f] # mtime[f]
    BY <1>0, <1>3 DEF SaveFile, DeleteFile, tables, History, Types, ClockOK
  <2>2. \A g \in File : mtime'[g] = mtime[g] \/ mtime'[g] = 0 \/ mtime'[g] > saves
    BY <1>0, <1>3 DEF SaveFile, DeleteFile, History, Types, ClockOK
  <2>3. Onward
    BY <1>0, <2>1, <2>2 DEF Onward
  <2>4. \A s, g, v : Has(s, g, v) => HasAfter(s, g, v)
    BY <2>1 DEF Has, HasAfter, live
  <2>5. \A b \in built : mtime'[b.file] = mtime[b.file] => b \in built'
    BY <2>1
  <2>6. QED
    BY <2>1, <2>3, <2>4, <2>5, HistoryStands DEF live
<1>4. ASSUME UNCHANGED <<now, files, tables, pack, built>>
      PROVE  CoveredAfter /\ RememberedAfter
  BY <1>1, <1>4, StandStill DEF tables, History
<1>5. ASSUME NEW a \in Agent, NEW q, pack' = [pack EXCEPT ![a] = q], q.slices = pack[a].slices,
             pack[a].pc # "read", q.pc # "read" \/ q.stat = 0, sessions' = sessions,
             UNCHANGED <<now, files, built>>
      PROVE  CoveredAfter /\ RememberedAfter
  BY <1>5, HistoryPasses DEF live
<1>6. ASSUME NEW a \in Agent, NEW p \in Path, NEW W \in [File -> 0..2],
             NEW f \in File \union {NoFile}, BeginRequest(a, p, W, f)
      PROVE  CoveredAfter /\ RememberedAfter
  <2> DEFINE q == [NoPack EXCEPT !.pc = "loop", !.repo = Mount[p], !.todo = W, !.active = f]
  <2>1. q.pc = "loop" /\ q.slices = {}
    BY <1>0, NoPackIs DEF Packs
  <2>2. pack' = [pack EXCEPT ![a] = q] /\ NoneAssembling
        /\ UNCHANGED <<now, files, built>> /\ sessions' = sessions
    BY <1>6 DEF BeginRequest, tables
  <2> HIDE DEF q
  <2>3. pack[a].pc = "idle" /\ pack[a].slices = {}
    BY <2>2, Facts DEF NoneAssembling, History
  <2>4. QED
    BY <1>5, <2>1, <2>2, <2>3
<1>7. ASSUME NEW a \in Agent, NEW f \in File, SkipAbsent(a, f)
      PROVE  CoveredAfter /\ RememberedAfter
  <2> DEFINE q == [pack[a] EXCEPT !.todo[f] = @ - 1]
  <2>1. pack[a].pc = "loop" /\ pack' = [pack EXCEPT ![a] = q]
        /\ UNCHANGED <<now, files, built>> /\ sessions' = sessions
    BY <1>7 DEF SkipAbsent, tables
  <2>2. q.pc = pack[a].pc /\ q.slices = pack[a].slices
    BY <1>0 DEF Packs
  <2> HIDE DEF q
  <2>3. QED
    BY <1>5, <2>1, <2>2
<1>8. ASSUME NEW a \in Agent, NEW f \in File, TakeActive(a, f)
      PROVE  CoveredAfter /\ RememberedAfter
  <2> DEFINE q == [pack[a] EXCEPT !.pc = "read", !.todo[f] = @ - 1, !.cur = f, !.stat = 0]
  <2>1. pack[a].pc = "loop" /\ pack' = [pack EXCEPT ![a] = q]
        /\ UNCHANGED <<now, files, built>> /\ sessions' = sessions
    BY <1>8 DEF TakeActive, tables
  <2>2. q.stat = 0 /\ q.slices = pack[a].slices
    BY <1>0 DEF Packs
  <2> HIDE DEF q
  <2>3. QED
    BY <1>5, <2>1, <2>2
<1>9. ASSUME NEW a \in Agent, NEW f \in File, DedupByTool(a, f)
      PROVE  CoveredAfter /\ RememberedAfter
  <2> DEFINE q == [pack[a] EXCEPT !.todo[f] = @ - 1, !.deduped = @ \union {<<f, "tool">>}]
  <2>1. pack[a].pc = "loop" /\ pack' = [pack EXCEPT ![a] = q]
        /\ UNCHANGED <<now, files, built>> /\ sessions' = sessions
    BY <1>9 DEF DedupByTool, tables
  <2>2. q.pc = pack[a].pc /\ q.slices = pack[a].slices
    BY <1>0 DEF Packs
  <2> HIDE DEF q
  <2>3. QED
    BY <1>5, <2>1, <2>2
<1>10. ASSUME NEW a \in Agent, NEW f \in File, AskSession(a, f)
       PROVE  CoveredAfter /\ RememberedAfter
  <2> DEFINE q == [pack[a] EXCEPT !.pc = "check", !.todo[f] = @ - 1, !.cur = f]
  <2>1. pack[a].pc = "loop" /\ pack' = [pack EXCEPT ![a] = q]
        /\ UNCHANGED <<now, files, built>> /\ sessions' = sessions
    BY <1>10 DEF AskSession, tables
  <2>2. q.pc = "check" /\ q.slices = pack[a].slices
    BY <1>0 DEF Packs
  <2> HIDE DEF q
  <2>3. QED
    BY <1>5, <2>1, <2>2
<1>11. ASSUME NEW a \in Agent, CheckGone(a) PROVE CoveredAfter /\ RememberedAfter
  <2> DEFINE q == [pack[a] EXCEPT !.pc = "read", !.stat = 0]
             s == SessionId(pack[a].repo, a)
  <2>1. pack[a].pc = "check" /\ pack' = [pack EXCEPT ![a] = q]
        /\ UNCHANGED <<now, files, built>> /\ sessions' = Opened(s)
    BY <1>11 DEF CheckGone
  <2>2. q.stat = 0 /\ q.slices = pack[a].slices
    BY <1>0 DEF Packs
  <2> HIDE DEF q, s
  <2>3. live' = live \union {s} /\ \A x \in live : sessions'[x] = sessions[x]
    BY <2>1, OpenedIs DEF live
  <2>4. s \notin live => DOMAIN sessions'[s] = {}
    <3>1. s \notin live => sessions'[s] = <<>>
      BY <2>1, OpenedIs
    <3>2. QED
      BY <3>1
  <2>5. \A x \in live' : \A f \in DOMAIN sessions'[x] :
            x \in live /\ f \in DOMAIN sessions[x] /\ sessions'[x][f] = sessions[x][f]
    BY <2>3, <2>4
  <2>6. QED
    BY <2>1, <2>2, <2>3, <2>5, HistoryPasses
<1>12. ASSUME NEW a \in Agent, DedupBySession(a) PROVE CoveredAfter /\ RememberedAfter
  <2> DEFINE q == [pack[a] EXCEPT !.pc = "loop",
                                  !.deduped = @ \union {<<pack[a].cur, "session">>}]
  <2>1. pack[a].pc = "check" /\ pack' = [pack EXCEPT ![a] = q]
        /\ UNCHANGED <<now, files, built>> /\ sessions' = sessions
    BY <1>12 DEF DedupBySession
  <2>2. q.pc = "loop" /\ q.slices = pack[a].slices
    BY <1>0 DEF Packs
  <2> HIDE DEF q
  <2>3. QED
    BY <1>5, <2>1, <2>2
<1>13. ASSUME NEW a \in Agent, ReadFails(a) \/ Reply(a) PROVE CoveredAfter /\ RememberedAfter
  BY <1>13, HistoryEnds
<1>14. ASSUME NEW a \in Agent, SliceLoop(a) PROVE CoveredAfter /\ RememberedAfter
  BY <1>14, <1>7, <1>8, <1>9, <1>10, <1>11, <1>12, <1>13, HistoryRecords, HistoryReads
     DEF SliceLoop
<1>15. CASE GcLoop
  <2>1. /\ live' = live \ Expired(sessions) /\ \A x \in live' : sessions'[x] = sessions[x]
        /\ UNCHANGED <<now, files, pack, built>> /\ Onward
    BY <1>15, StandStill DEF GcLoop, Restrict, live, History
  <2>2. \A s \in Sid, f \in File, v \in 0..saves : Has(s, f, v) /\ s.hour = now \div Hour => HasAfter(s, f, v)
    BY <2>1, InUse DEF Has, HasAfter, History
  <2>3. QED
    BY <2>1, <2>2, HistoryStands
<1>16. ASSUME NEW p \in Path, Reset(p) PROVE CoveredAfter /\ RememberedAfter
  <2>1. /\ live' = live /\ registered = live
        /\ \A x \in live : sessions'[x] = IF x.repo = p THEN <<>> ELSE sessions[x]
        /\ built' = {b \in built : b.sid.repo # p}
        /\ UNCHANGED <<now, files, pack>> /\ Onward /\ NoneAssembling
    BY <1>16, StandStill DEF Reset, SidsForRepo, live, History, Types, TablesOK, SameMount
  <2>2. ASSUME NEW x \in live', NEW f \in DOMAIN sessions'[x]
        PROVE  x \in live /\ x.repo # p /\ sessions'[x] = sessions[x]
    <3>1. ASSUME x.repo = p PROVE FALSE
      <4>1. sessions'[x] = <<>>
        BY <2>1, <3>1
      <4>2. DOMAIN sessions'[x] = {}
        BY <4>1
      <4>3. QED
        BY <2>2, <4>2
    <3>2. QED
      BY <2>1, <3>1
  <2>3. \A s \in live', b \in built :
            b.sid = s /\ s.hour = now' \div Hour /\ DOMAIN sessions'[s] # {} => b \in built'
    BY <2>1, <2>2
  <2>4. ASSUME NEW s \in Sid, NEW f \in File, NEW v \in 0..saves, Has(s, f, v),
               (\E b \in built' : b.sid = s) \/ ~NoneAssembling
        PROVE  HasAfter(s, f, v)
    BY <2>1, <2>4 DEF Has, HasAfter
  <2>5. QED
    BY <2>1, <2>2, <2>3, <2>4, HistoryStands
<1>17. CASE ResetAll \/ Restart
  <2>1. sessions' = <<>> /\ built' = {}
    BY <1>17 DEF ResetAll, Restart
  <2>2. live' = {}
    BY <2>1 DEF live
  <2>3. \A a \in Agent : pack'[a].slices = {} /\ pack'[a].pc = "idle"
    BY <1>0, <1>17, Facts, NoPackIs DEF ResetAll, Restart, NoneAssembling, History
  <2>4. QED
    BY <2>1, <2>2, <2>3 DEF CoveredAfter, RememberedAfter
<1>18. QED
  BY <1>2, <1>3, <1>4, <1>6, <1>14, <1>15, <1>16, <1>17 DEF Next, vars, ToolRead, NewTurn

-----------------------------------------------------------------------------
(* The two properties of a step *)

\* A session answers that a file was seen only where it compared a label.
LEMMA OnlySessionAnswers ==
    ASSUME Types, [Next]_vars, NEW a \in Agent, NEW f \in File, AnswersSeen(a, f)
    PROVE  DedupBySession(a) /\ f = pack[a].cur
<1>0. pack[a] \in Packs(saves) /\ DOMAIN pack = Agent /\ saves \in Nat
  BY ConstantsAssumption DEF Types, PackOK, LoopOK, ClockOK
<1>1. pack' # pack
  BY DEF AnswersSeen
<1>2. NoPack.deduped = {}
  BY DEF NoPack
<1>3. ASSUME NEW c \in Agent, pack' = [pack EXCEPT ![c] = NoPack] PROVE FALSE
  BY <1>0, <1>2, <1>3 DEF AnswersSeen
<1>4. ASSUME NEW c \in Agent, NEW p, NEW W, NEW g, BeginRequest(c, p, W, g) PROVE FALSE
  <2> DEFINE q == [NoPack EXCEPT !.pc = "loop", !.repo = Mount[p], !.todo = W, !.active = g]
  <2>1. q.deduped = {}
    BY DEF NoPack
  <2>2. pack' = [pack EXCEPT ![c] = q]
    BY <1>4 DEF BeginRequest
  <2> HIDE DEF q
  <2>3. QED
    BY <1>0, <2>1, <2>2 DEF AnswersSeen
<1>5. ASSUME NEW c \in Agent, NEW q, pack' = [pack EXCEPT ![c] = q],
             q.deduped \subseteq pack[c].deduped \union {<<g, "tool">> : g \in File}
      PROVE  FALSE
  BY <1>0, <1>5 DEF AnswersSeen
<1>6. ASSUME NEW c \in Agent, pack[c] \in Packs(saves), SliceLoop(c), ~DedupBySession(c)
      PROVE  FALSE
  <2>1. CASE \E g \in File : SkipAbsent(c, g)
    <3>1. PICK g \in File : SkipAbsent(c, g)
      BY <2>1
    <3> DEFINE q == [pack[c] EXCEPT !.todo[g] = @ - 1]
    <3>2. q.deduped = pack[c].deduped /\ pack' = [pack EXCEPT ![c] = q]
      BY <1>6, <3>1 DEF SkipAbsent, Packs
    <3> HIDE DEF q
    <3>3. QED
      BY <1>5, <3>2
  <2>2. CASE \E g \in File : TakeActive(c, g)
    <3>1. PICK g \in File : TakeActive(c, g)
      BY <2>2
    <3> DEFINE q == [pack[c] EXCEPT !.pc = "read", !.todo[g] = @ - 1, !.cur = g, !.stat = 0]
    <3>2. q.deduped = pack[c].deduped /\ pack' = [pack EXCEPT ![c] = q]
      BY <1>6, <3>1 DEF TakeActive, Packs
    <3> HIDE DEF q
    <3>3. QED
      BY <1>5, <3>2
  <2>3. CASE \E g \in File : DedupByTool(c, g)
    <3>1. PICK g \in File : DedupByTool(c, g)
      BY <2>3
    <3> DEFINE q == [pack[c] EXCEPT !.todo[g] = @ - 1, !.deduped = @ \union {<<g, "tool">>}]
    <3>2. q.deduped = pack[c].deduped \union {<<g, "tool">>} /\ pack' = [pack EXCEPT ![c] = q]
      BY <1>6, <3>1 DEF DedupByTool, Packs
    <3> HIDE DEF q
    <3>3. QED
      BY <1>5, <3>2
  <2>4. CASE \E g \in File : AskSession(c, g)
    <3>1. PICK g \in File : AskSession(c, g)
      BY <2>4
    <3> DEFINE q == [pack[c] EXCEPT !.pc = "check", !.todo[g] = @ - 1, !.cur = g]
    <3>2. q.deduped = pack[c].deduped /\ pack' = [pack EXCEPT ![c] = q]
      BY <1>6, <3>1 DEF AskSession, Packs
    <3> HIDE DEF q
    <3>3. QED
      BY <1>5, <3>2
  <2>5. CASE CheckGone(c)
    <3> DEFINE q == [pack[c] EXCEPT !.pc = "read", !.stat = 0]
    <3>1. q.deduped = pack[c].deduped /\ pack' = [pack EXCEPT ![c] = q]
      BY <1>6, <2>5 DEF CheckGone, Packs
    <3> HIDE DEF q
    <3>2. QED
      BY <1>5, <3>1
  <2>6. CASE RecordNew(c)
    <3> DEFINE q == [pack[c] EXCEPT !.pc = "read", !.sid = SessionId(pack[c].repo, c),
                                    !.stat = mtime[pack[c].cur]]
    <3>1. q.deduped = pack[c].deduped /\ pack' = [pack EXCEPT ![c] = q]
      BY <1>6, <2>6 DEF RecordNew, Packs
    <3> HIDE DEF q
    <3>2. QED
      BY <1>5, <3>1
  <2>7. CASE ReadSlice(c)
    <3> DEFINE S == pack[c].slices \union {SliceOf(c, mtime[pack[c].cur])}
               q == [pack[c] EXCEPT !.pc = "loop", !.slices = S]
    <3>1. q.deduped = pack[c].deduped /\ pack' = [pack EXCEPT ![c] = q]
      BY <1>6, <2>7 DEF ReadSlice, Packs
    <3> HIDE DEF q
    <3>2. QED
      BY <1>5, <3>1
  <2>8. CASE ReadFails(c) \/ Reply(c)
    BY <1>3, <2>8 DEF ReadFails, Reply, Ended
  <2>9. QED
    BY <1>6, <2>1, <2>2, <2>3, <2>4, <2>5, <2>6, <2>7, <2>8 DEF SliceLoop
<1>7. ASSUME Restart PROVE FALSE
  BY <1>2, <1>7 DEF Restart, AnswersSeen
<1>8. PICK c \in Agent : SliceLoop(c)
  BY <1>1, <1>4, <1>7 DEF Next, vars, Tick, SaveFile, DeleteFile, ToolRead, NewTurn, GcLoop, Reset, ResetAll
<1>9. pack[c] \in Packs(saves)
  BY DEF Types, PackOK, LoopOK
<1>10. DedupBySession(c)
  BY <1>6, <1>8, <1>9
<1> DEFINE q == [pack[c] EXCEPT !.pc = "loop",
                                !.deduped = @ \union {<<pack[c].cur, "session">>}]
<1>11. q.deduped = pack[c].deduped \union {<<pack[c].cur, "session">>}
       /\ pack' = [pack EXCEPT ![c] = q]
  BY <1>9, <1>10 DEF DedupBySession, Packs
<1> HIDE DEF q
<1>12. c = a /\ f = pack[c].cur
  BY <1>0, <1>11 DEF AnswersSeen
<1>13. QED
  BY <1>10, <1>12

LEMMA AnswerBacked ==
    ASSUME History, [Next]_vars, NEW a \in Agent, NEW f \in File, AnswersSeen(a, f)
    PROVE  \E b \in Carried(a, f) : b.version = mtime[f] \/ (b.version = 0 /\ b.stat = mtime[f])
<1> DEFINE s == SessionId(pack[a].repo, a)
<1>1. DedupBySession(a) /\ f = pack[a].cur
  BY OnlySessionAnswers DEF History
<1>2. pack[a].pc = "check" /\ Recorded(a)
  BY <1>1 DEF DedupBySession
<1>3. s.hour = now \div Hour /\ s = [repo |-> pack[a].repo, agent |-> a, hour |-> now \div Hour]
  BY DEF SessionId
<1>4. Has(s, f, mtime[f])
  BY <1>1, <1>2, RecordedLive DEF History
<1> HIDE DEF s
<1>5. Tried(s, f, mtime[f]) \/ \E c \in Agent : Reading(pack[c], s, f, mtime[f])
  BY <1>3, <1>4 DEF History, Covered, Has
<1>6. \A c \in Agent : pack[c].pc # "idle" => c = a
  BY <1>2 DEF History, Types, PackOK, Alone
<1>7. ~ \E c \in Agent : Reading(pack[c], s, f, mtime[f])
  BY <1>2, <1>6 DEF Reading
<1>8. \A c \in Agent : c # a => pack[c].slices = {}
  BY <1>6, Facts DEF History
<1>9. \E b \in built \union {t \in pack[a].slices : t.stat # 0} : Accounts(b, s, f, mtime[f])
  BY <1>5, <1>7, <1>8 DEF Tried
<1>10. QED
  BY <1>3, <1>9 DEF Carried, Accounts

LEMMA OnlyRecordNewReads ==
    ASSUME Types, [Next]_vars, NEW a \in Agent,
           pack[a].pc = "check", pack'[a].pc = "read", pack'[a].stat # 0
    PROVE  RecordNew(a)
<1>0. /\ DOMAIN pack = Agent
      /\ \A c \in Agent : pack[c] \in Packs(saves)
      /\ NoPack.pc = "idle"
  BY ConstantsAssumption, NoPackIs DEF Types, PackOK, LoopOK, ClockOK
<1>1. pack' # pack /\ ~NoneAssembling
  BY DEF NoneAssembling
<1>2. ~Restart
  BY <1>0 DEF Restart
<1>3. PICK c \in Agent : SliceLoop(c)
  BY <1>1, <1>2 DEF Next, vars, Tick, SaveFile, DeleteFile, ToolRead, NewTurn, BeginRequest,
                    GcLoop, Reset, ResetAll
<1>4. ASSUME NEW q, pack' = [pack EXCEPT ![c] = q] PROVE c = a /\ pack'[a] = q
  BY <1>0, <1>4
<1>5. c = a
  BY <1>0, <1>3 DEF SliceLoop, SkipAbsent, TakeActive, DedupByTool, AskSession, CheckGone,
                    DedupBySession, RecordNew, ReadSlice, ReadFails, Reply, Ended
<1>6. ~CheckGone(a)
  <2> DEFINE q == [pack[a] EXCEPT !.pc = "read", !.stat = 0]
  <2>1. ASSUME CheckGone(a) PROVE FALSE
    <3>1. q.stat = 0 /\ pack' = [pack EXCEPT ![a] = q]
      BY <1>0, <2>1 DEF CheckGone, Packs
    <3> HIDE DEF q
    <3>2. QED
      BY <1>0, <3>1
  <2>2. QED
    BY <2>1
<1>7. ~DedupBySession(a)
  <2> DEFINE q == [pack[a] EXCEPT !.pc = "loop",
                                  !.deduped = @ \union {<<pack[a].cur, "session">>}]
  <2>1. ASSUME DedupBySession(a) PROVE FALSE
    <3>1. q.pc = "loop" /\ pack' = [pack EXCEPT ![a] = q]
      BY <1>0, <2>1 DEF DedupBySession, Packs
    <3> HIDE DEF q
    <3>2. QED
      BY <1>0, <3>1
  <2>2. QED
    BY <2>1
<1>8. QED
  BY <1>3, <1>5, <1>6, <1>7 DEF SliceLoop, SkipAbsent, TakeActive, DedupByTool, AskSession,
                                ReadSlice, ReadFails, Reply

LEMMA NotTwice ==
    ASSUME History, [Next]_vars, NEW a \in Agent,
           pack[a].pc = "check", pack'[a].pc = "read", pack'[a].stat # 0,
           NEW b \in Carried(a, pack[a].cur)
    PROVE  b.stat # mtime[pack[a].cur]
<1> DEFINE s == SessionId(pack[a].repo, a)
           f == pack[a].cur
<1>1. ~Recorded(a)
  BY OnlyRecordNewReads DEF History, RecordNew
<1>2. /\ b \in built \/ (b \in pack[a].slices /\ b.stat # 0)
      /\ b.sid = s /\ b.file = f /\ s.hour = now \div Hour
  BY DEF Carried, SessionId
<1>3. Recorded(a) <=> f \in DOMAIN Opened(s)[s] /\ Opened(s)[s][f].mtime = mtime[f]
  BY DEF Recorded
<1> HIDE DEF s, f
<1>4. ASSUME b.stat = mtime[f] PROVE FALSE
  <2>1. Has(s, f, mtime[f])
    BY <1>2, <1>4 DEF History, Remembered, Noted
  <2>2. Opened(s)[s] = sessions[s]
    BY <2>1, OpenedIs DEF Has
  <2>3. QED
    BY <1>1, <1>3, <2>1, <2>2 DEF Has
<1>5. QED
  BY <1>4 DEF f

\* A file is held back from a pack only if a request of the same agent, repository
\* and hour, since the last reset and restart, read its present version into a pack or
\* failed at it; whatever is saved, deleted, collected or cut off in between.
THEOREM DedupSound == ASSUME SameMount PROVE Spec => DedupedWasTried
<1>1. History /\ [Next]_vars =>
          [\A a \in Agent, f \in File : AnswersSeen(a, f) =>
               \E b \in Carried(a, f) :
                   \/ b.version = mtime[f]
                   \/ b.version = 0 /\ b.stat = mtime[f]]_vars
  BY AnswerBacked
<1>2. History /\ [Next]_vars => History'
  BY HistoryStep
<1>3. QED
  BY <1>1, <1>2, HistoryInit, PTL DEF Spec, DedupedWasTried

\* A file recorded for an agent and unchanged since is not read for a pack again
\* within the hour: no collection and no step of another session forgets it.
THEOREM DedupComplete == ASSUME SameMount PROVE Spec => UnchangedBuiltOncePerHour
<1>1. History /\ [Next]_vars =>
          [\A a \in Agent :
               pack[a].pc = "check" /\ pack'[a].pc = "read" /\ pack'[a].stat # 0 =>
                   \A b \in Carried(a, pack[a].cur) : b.stat # mtime[pack[a].cur]]_vars
  BY NotTwice
<1>2. History /\ [Next]_vars => History'
  BY HistoryStep
<1>3. QED
  BY <1>1, <1>2, HistoryInit, PTL DEF Spec, UnchangedBuiltOncePerHour
=============================================================================
