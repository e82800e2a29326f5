-------------------------- MODULE WalkerCacheProofs --------------------------
(***************************************************************************)
(* Proofs about WalkerCache, for any files, callers, sizes and bounds.     *)
(*                                                                         *)
(* Types hold together with an order: what a call has read and what a      *)
(* label says is no later than the last save.  That an answer from the     *)
(* cache is current needs more: every entry is labelled with the version   *)
(* it was computed from, or was raced by a save in the gap set leaves      *)
(* open.  For that to stay so, what a finished walker has read must be the *)
(* present text when set takes the label, or the file must be gone, or     *)
(* have been saved since the walker read it.                               *)
(***************************************************************************)
EXTENDS WalkerCache, SequenceTheorems, FiniteSetTheorems, TLAPS

Entry == [file : File, data : 0..saves, mtime : 1..saves, late : BOOLEAN]

Pc == {"idle", "hit", "started", "walked", "fresh", "error"}

Call == [pc : Pc, file : File, data : 0..saves, late : BOOLEAN]

\* A walker that is waited for or was given up was started.
Accounted ==
    /\ IsFiniteSet(Walking)
    /\ orphans + Cardinality(Walking) <= walks

-----------------------------------------------------------------------------
(* The cache as a sequence *)

\* The sequence without its k-th element.
LEMMA Removed ==
    ASSUME NEW S, NEW s \in Seq(S), NEW k \in DOMAIN s
    PROVE  /\ RemoveAt(s, k) \in Seq(S) /\ Len(RemoveAt(s, k)) = Len(s) - 1
           /\ \A j \in 1..Len(s) - 1 :
                  RemoveAt(s, k)[j] = IF j < k THEN s[j] ELSE s[j + 1]
<1> DEFINE a == SubSeq(s, 1, k - 1)
           b == SubSeq(s, k + 1, Len(s))
<1>1. Len(s) \in Nat /\ DOMAIN s = 1..Len(s) /\ k \in 1..Len(s)
      /\ \A j \in 1..Len(s) : s[j] \in S
  BY LenProperties, ElementOfSeq
<1>2. a \in Seq(S) /\ Len(a) = k - 1 /\ \A j \in 1..k - 1 : a[j] = s[j]
  <2>1. 1 \in Int /\ k - 1 \in Int /\ \A j \in 1..k - 1 : s[j] \in S
    BY <1>1
  <2>2. /\ a \in Seq(S) /\ Len(a) = (IF 1 <= k - 1 THEN (k - 1) - 1 + 1 ELSE 0)
        /\ \A j \in 1..(k - 1) - 1 + 1 : a[j] = s[1 + j - 1]
    BY <2>1, SubSeqProperties
  <2> HIDE DEF a
  <2>3. QED
    BY <1>1, <2>2
<1>3. b \in Seq(S) /\ Len(b) = Len(s) - k /\ \A j \in 1..Len(s) - k : b[j] = s[k + j]
  <2>1. k + 1 \in Int /\ Len(s) \in Int /\ \A j \in k + 1..Len(s) : s[j] \in S
    BY <1>1
  <2>2. /\ b \in Seq(S) /\ Len(b) = (IF k + 1 <= Len(s) THEN Len(s) - (k + 1) + 1 ELSE 0)
        /\ \A j \in 1..Len(s) - (k + 1) + 1 : b[j] = s[(k + 1) + j - 1]
    BY <2>1, SubSeqProperties
  <2> HIDE DEF b
  <2>3. Len(s) - (k + 1) + 1 = Len(s) - k /\ \A j \in 1..Len(s) - k : (k + 1) + j - 1 = k + j
    BY <1>1
  <2>4. QED
    BY <1>1, <2>2, <2>3
<1>4. RemoveAt(s, k) = a \o b
  BY DEF RemoveAt
<1> HIDE DEF a, b
<1>5. /\ a \o b \in Seq(S) /\ Len(a \o b) = Len(a) + Len(b)
      /\ \A j \in 1..Len(a) + Len(b) : (a \o b)[j] = IF j <= Len(a) THEN a[j] ELSE b[j - Len(a)]
  BY <1>2, <1>3, ConcatProperties
<1>6. \A j \in 1..Len(s) - 1 : (a \o b)[j] = IF j < k THEN s[j] ELSE s[j + 1]
  <2>1. TAKE j \in 1..Len(s) - 1
  <2>2. CASE j < k
    <3>1. j \in 1..k - 1 /\ j <= Len(a) /\ j \in 1..Len(a) + Len(b)
      BY <1>1, <1>2, <1>3, <2>2
    <3>2. QED
      BY <1>2, <1>5, <2>2, <3>1
  <2>3. CASE ~(j < k)
    <3>1. /\ j - Len(a) \in 1..Len(s) - k /\ ~(j <= Len(a)) /\ j \in 1..Len(a) + Len(b)
          /\ k + (j - Len(a)) = j + 1
      BY <1>1, <1>2, <1>3, <2>3
    <3>2. QED
      BY <1>3, <1>5, <2>3, <3>1
  <2>4. QED
    BY <2>2, <2>3
<1>7. QED
  BY <1>1, <1>2, <1>3, <1>4, <1>5, <1>6

\* The sequence without its oldest element, and one put after it.
LEMMA Pushed ==
    ASSUME NEW S, NEW s \in Seq(S), s # <<>>, NEW e \in S
    PROVE  /\ Append(Tail(s), e) \in Seq(S) /\ Len(Append(Tail(s), e)) = Len(s)
           /\ \A j \in 1..Len(s) :
                  Append(Tail(s), e)[j] = IF j < Len(s) THEN s[j + 1] ELSE e
<1>1. /\ Tail(s) \in Seq(S) /\ Len(Tail(s)) = Len(s) - 1
      /\ Len(s) \in Nat /\ Len(s) >= 1 /\ Len(Tail(s)) \in Nat
      /\ \A j \in 1..Len(Tail(s)) : Tail(s)[j] = s[j + 1]
  BY HeadTailProperties, EmptySeq, LenProperties
<1>2. /\ Append(Tail(s), e) \in Seq(S) /\ Len(Append(Tail(s), e)) = Len(Tail(s)) + 1
      /\ \A j \in 1..Len(Tail(s)) : Append(Tail(s), e)[j] = Tail(s)[j]
      /\ Append(Tail(s), e)[Len(Tail(s)) + 1] = e
  BY <1>1, AppendProperties
<1>3. Len(Append(Tail(s), e)) = Len(s)
  BY <1>1, <1>2
<1>4. ASSUME NEW j \in 1..Len(s)
      PROVE  Append(Tail(s), e)[j] = IF j < Len(s) THEN s[j + 1] ELSE e
  <2>1. CASE j < Len(s)
    <3>1. j \in 1..Len(Tail(s))
      BY <1>1, <2>1
    <3>2. QED
      BY <1>1, <1>2, <2>1, <3>1
  <2>2. CASE ~(j < Len(s))
    <3>1. \A m, k \in Nat : m = k - 1 => k = m + 1
      OBVIOUS
    <3>2. Len(s) = Len(Tail(s)) + 1
      BY <1>1, <3>1
    <3>3. \A k \in Nat : \A l \in 1..k : ~(l < k) => l = k
      OBVIOUS
    <3>4. j = Len(s)
      BY <1>1, <2>2, <3>3
    <3>5. QED
      BY <1>2, <2>2, <3>2, <3>4
  <2>3. QED
    BY <2>1, <2>2
<1>5. QED
  BY <1>2, <1>3, <1>4

-----------------------------------------------------------------------------
(* What get leaves, and what set puts *)

OnePerKey(s) == \A i, j \in DOMAIN s : s[i].file = s[j].file => i = j

\* get leaves the cache as it is or takes an entry out.
LEMMA GetLeaves ==
    ASSUME NEW S, cache \in Seq(S), NEW f
    PROVE  /\ AfterGet(f) \in Seq(S) /\ Len(AfterGet(f)) <= Len(cache)
           /\ OnePerKey(cache) => OnePerKey(AfterGet(f))
           /\ \A j \in DOMAIN AfterGet(f) : \E i \in DOMAIN cache : AfterGet(f)[j] = cache[i]
<1>1. CASE Entries(f) # {} /\ mtime[f] # 0 /\ ~Valid(f)
  <2> DEFINE k == CHOOSE i \in Entries(f) : TRUE
  <2>1. k \in DOMAIN cache
    BY <1>1 DEF Entries
  <2>2. AfterGet(f) = RemoveAt(cache, k)
    BY <1>1 DEF AfterGet
  <2> HIDE DEF k
  <2>3. /\ AfterGet(f) \in Seq(S) /\ Len(AfterGet(f)) = Len(cache) - 1
        /\ \A j \in 1..Len(cache) - 1 :
               AfterGet(f)[j] = IF j < k THEN cache[j] ELSE cache[j + 1]
    BY <2>1, <2>2, Removed
  <2>4. /\ Len(cache) \in Nat /\ DOMAIN cache = 1..Len(cache)
        /\ DOMAIN AfterGet(f) = 1..Len(cache) - 1
    BY <2>3, LenProperties
  <2> DEFINE left == AfterGet(f)
             from(j) == IF j < k THEN j ELSE j + 1
  <2>5. \A j \in DOMAIN left : from(j) \in DOMAIN cache /\ left[j] = cache[from(j)]
    BY <2>1, <2>3, <2>4
  <2>6. \A i, j \in DOMAIN left : from(i) = from(j) => i = j
    BY <2>1, <2>4
  <2>7. left \in Seq(S) /\ Len(left) <= Len(cache)
    BY <2>3, <2>4
  <2> HIDE DEF left, from
  <2>8. OnePerKey(cache) => OnePerKey(left)
    BY <2>5, <2>6 DEF OnePerKey
  <2>9. QED
    BY <2>5, <2>7, <2>8 DEF left
<1>2. CASE ~(Entries(f) # {} /\ mtime[f] # 0 /\ ~Valid(f))
  <2>1. AfterGet(f) = cache
    BY <1>2 DEF AfterGet
  <2>2. Len(cache) \in Nat
    BY LenProperties
  <2>3. QED
    BY <2>1, <2>2
<1>3. QED
  BY <1>1, <1>2

\* set keeps the bound, the keys apart, and brings in one new entry.
LEMMA SetPuts ==
    ASSUME NEW S, cache \in Seq(S), NEW f, NEW d, NEW l,
           mtime[f] # 0 => [file |-> f, data |-> d, mtime |-> mtime[f], late |-> l] \in S
    PROVE  /\ AfterSet(f, d, l) \in Seq(S)
           /\ Len(cache) <= MaxSize => Len(AfterSet(f, d, l)) <= MaxSize
           /\ OnePerKey(cache) => OnePerKey(AfterSet(f, d, l))
           /\ \A j \in DOMAIN AfterSet(f, d, l) :
                  \/ \E i \in DOMAIN cache : AfterSet(f, d, l)[j] = cache[i]
                  \/ /\ mtime[f] # 0
                     /\ AfterSet(f, d, l)[j] =
                            [file |-> f, data |-> d, mtime |-> mtime[f], late |-> l]
<1> DEFINE e == [file |-> f, data |-> d, mtime |-> mtime[f], late |-> l]
           new == AfterSet(f, d, l)
<1>1. Len(cache) \in Nat /\ DOMAIN cache = 1..Len(cache) /\ MaxSize \in Nat \ {0}
      /\ \A i \in 1..Len(cache) : cache[i] \in S
  BY ConstantsAssumption, LenProperties, ElementOfSeq
<1>2. CASE mtime[f] = 0
  BY <1>1, <1>2 DEF AfterSet
<1>3. CASE mtime[f] # 0 /\ Entries(f) # {}
  <2>1. new = [i \in 1..Len(cache) |-> IF i \in Entries(f) THEN e ELSE cache[i]]
    BY <1>1, <1>3 DEF AfterSet
  <2>2. e \in S /\ e.file = f
    BY <1>3
  <2> HIDE DEF e, new
  <2>3. new \in Seq(S) /\ DOMAIN new = 1..Len(cache) /\ Len(new) = Len(cache)
    BY <1>1, <2>1, <2>2
  <2>4. \A i \in 1..Len(cache) : /\ new[i] = cache[i] \/ new[i] = e
                                 /\ new[i].file = cache[i].file
    BY <1>1, <2>1, <2>2 DEF Entries
  <2>5. OnePerKey(cache) => OnePerKey(new)
    BY <1>1, <2>3, <2>4 DEF OnePerKey
  <2>6. QED
    BY <1>1, <1>3, <2>3, <2>4, <2>5 DEF e, new
<1>4. CASE mtime[f] # 0 /\ Entries(f) = {} /\ Len(cache) >= MaxSize
  <2>1. new = Append(Tail(cache), e)
    BY <1>4 DEF AfterSet
  <2>2. e \in S /\ e.file = f /\ \A i \in 1..Len(cache) : cache[i].file # f
    BY <1>1, <1>4 DEF Entries
  <2>3. cache # <<>>
    BY <1>1, <1>4, EmptySeq
  <2> HIDE DEF e, new
  <2>4. /\ new \in Seq(S) /\ Len(new) = Len(cache)
        /\ \A j \in 1..Len(cache) : new[j] = IF j < Len(cache) THEN cache[j + 1] ELSE e
    BY <2>1, <2>2, <2>3, Pushed
  <2>5. DOMAIN new = 1..Len(cache)
    BY <2>4, LenProperties
  <2>6. \A j \in DOMAIN new : \/ (j < Len(cache) /\ j + 1 \in DOMAIN cache /\ new[j] = cache[j + 1])
                               \/ (j = Len(cache) /\ new[j] = e)
    <3>1. \A j \in 1..Len(cache) : j < Len(cache) \/ j = Len(cache)
      BY <1>1
    <3>2. \A j \in 1..Len(cache) : j < Len(cache) => j + 1 \in 1..Len(cache)
      BY <1>1
    <3>3. \A j \in 1..Len(cache) : j = Len(cache) => ~(j < Len(cache))
      BY <1>1
    <3>4. QED
      BY <1>1, <2>4, <2>5, <3>1, <3>2, <3>3
  <2>7. \A i, j \in DOMAIN new : i + 1 = j + 1 => i = j
    BY <2>5
  <2>8. OnePerKey(cache) => OnePerKey(new)
    BY <1>1, <2>2, <2>6, <2>7 DEF OnePerKey
  <2>9. QED
    BY <1>1, <1>4, <2>4, <2>6, <2>8 DEF e, new
<1>5. CASE mtime[f] # 0 /\ Entries(f) = {} /\ ~(Len(cache) >= MaxSize)
  <2>1. new = Append(cache, e)
    BY <1>5 DEF AfterSet
  <2>2. e \in S /\ e.file = f /\ \A i \in 1..Len(cache) : cache[i].file # f
    BY <1>1, <1>5 DEF Entries
  <2> HIDE DEF e, new
  <2>4. /\ new \in Seq(S) /\ Len(new) = Len(cache) + 1
        /\ \A j \in 1..Len(cache) : new[j] = cache[j]
        /\ new[Len(cache) + 1] = e
    BY <2>1, <2>2, AppendProperties
  <2>5. DOMAIN new = 1..Len(cache) + 1
    BY <2>4, LenProperties
  <2>6. \A j \in DOMAIN new : \/ (j \in DOMAIN cache /\ new[j] = cache[j])
                               \/ (j = Len(cache) + 1 /\ new[j] = e)
    <3>1. \A j \in 1..Len(cache) + 1 : j \in 1..Len(cache) \/ j = Len(cache) + 1
      BY <1>1
    <3>2. QED
      BY <1>1, <2>4, <2>5, <3>1
  <2>7. OnePerKey(cache) => OnePerKey(new)
    BY <1>1, <2>2, <2>6 DEF OnePerKey
  <2>8. Len(new) <= MaxSize
    BY <1>1, <1>5, <2>4
  <2>9. QED
    BY <1>5, <2>4, <2>6, <2>7, <2>8 DEF e, new
<1>6. QED
  BY <1>2, <1>3, <1>4, <1>5

-----------------------------------------------------------------------------
(* Types *)

LEMMA IdleIs ==
    /\ Idle = [pc |-> "idle", file |-> Idle.file, data |-> 0, late |-> FALSE]
    /\ Idle.file \in File
<1>1. (CHOOSE f \in File : TRUE) \in File
  BY ConstantsAssumption
<1>2. QED
  BY <1>1 DEF Idle

\* Nobody is in run_walker.
LEMMA IdleFits ==
    ASSUME saves \in Nat
    PROVE  Idle \in Call
<1>1. \A f \in File, n \in 0..saves, l \in BOOLEAN :
          [pc |-> "idle", file |-> f, data |-> n, late |-> l] \in Call
  BY DEF Call, Pc
<1>2. 0 \in 0..saves /\ FALSE \in BOOLEAN /\ Idle.file \in File
  BY IdleIs
<1>3. [pc |-> "idle", file |-> Idle.file, data |-> 0, late |-> FALSE] \in Call
  BY <1>1, <1>2
<1>4. Idle = [pc |-> "idle", file |-> Idle.file, data |-> 0, late |-> FALSE]
  BY IdleIs
<1>5. QED
  BY <1>3, <1>4, Zenon

\* A call that starts or fails has the form of a call.
LEMMA FromIdle ==
    ASSUME saves \in Nat, NEW p \in Pc, NEW f \in File
    PROVE  /\ [Idle EXCEPT !.pc = p, !.file = f] \in Call
           /\ [Idle EXCEPT !.pc = p] \in Call
           /\ Idle \in Call
<1>1. Idle \in Call
  BY IdleFits
<1>2. QED
  BY <1>1 DEF Call

LEMMA TypesAre ==
    ASSUME TypeOK
    PROVE  /\ saves \in 0..MaxSaves /\ walks \in 0..MaxWalks /\ orphans \in 0..walks
           /\ saves \in Nat /\ walks \in Nat /\ orphans \in Nat
           /\ mtime \in [File -> 0..saves] /\ cache \in Seq(Entry)
           /\ call \in [Caller -> Call] /\ \A c \in Caller : call[c] \in Call
BY ConstantsAssumption DEF TypeOK, Entry, Call, Pc

LEMMA TypeInit == Init => TypeOK /\ Accounted
<1>1. SUFFICES ASSUME Init PROVE TypeOK /\ Accounted
  OBVIOUS
<1>2. /\ saves = 0 /\ walks = 0 /\ orphans = 0 /\ cache = <<>>
      /\ mtime = [f \in File |-> 0] /\ call = [c \in Caller |-> Idle]
  BY <1>1 DEF Init
<1>3. call \in [Caller -> Call]
  <2>1. Idle \in Call
    BY <1>2, IdleFits
  <2>2. QED
    BY <1>2, <2>1
<1>4. saves \in 0..MaxSaves /\ walks \in 0..MaxWalks /\ orphans \in 0..walks
  BY <1>2, ConstantsAssumption
<1>5. mtime \in [File -> 0..saves] /\ cache \in Seq(Entry)
  BY <1>2
<1>6. Walking = {}
  BY <1>2, IdleIs DEF Walking
<1>7. Accounted
  BY <1>2, <1>6, FS_EmptySet DEF Accounted
<1>8. QED
  BY <1>3, <1>4, <1>5, <1>7 DEF TypeOK, Entry, Call, Pc

\* What is left of Accounted when callers start or stop waiting.
LEMMA StillAccounted ==
    ASSUME TypeOK, Accounted, TypeOK',
           \/ Walking' = Walking /\ walks' - orphans' >= walks - orphans
           \/ \E c \in Caller \ Walking : /\ Walking' = Walking \union {c}
                                          /\ walks' = walks + 1 /\ orphans' = orphans
           \/ \E c \in Walking : /\ Walking' = Walking \ {c} /\ walks' = walks
                                 /\ orphans' \in {orphans, orphans + 1}
    PROVE  Accounted'
<1>1. IsFiniteSet(Walking) /\ Cardinality(Walking) \in Nat
  BY FS_CardinalityType DEF Accounted
<1>2. /\ walks \in Nat /\ orphans \in Nat /\ walks' \in Nat /\ orphans' \in Nat
      /\ orphans + Cardinality(Walking) <= walks
  BY ConstantsAssumption DEF TypeOK, Accounted
<1>3. CASE Walking' = Walking /\ walks' - orphans' >= walks - orphans
  <2>1. IsFiniteSet(Walking') /\ Cardinality(Walking') = Cardinality(Walking)
    BY <1>1, <1>3
  <2>2. \A a, b, v, w, k \in Nat : w - b >= v - a /\ a + k <= v => b + k <= w
    OBVIOUS
  <2>3. orphans' + Cardinality(Walking) <= walks'
    BY <1>1, <1>2, <1>3, <2>2
  <2>4. QED
    BY <2>1, <2>3 DEF Accounted
<1>4. ASSUME NEW c \in Caller \ Walking, Walking' = Walking \union {c},
             walks' = walks + 1, orphans' = orphans
      PROVE  Accounted'
  <2>1. IsFiniteSet(Walking') /\ Cardinality(Walking') = Cardinality(Walking) + 1
    BY <1>1, <1>4, FS_AddElement
  <2>2. QED
    BY <1>1, <1>2, <1>4, <2>1 DEF Accounted
<1>5. ASSUME NEW c \in Walking, Walking' = Walking \ {c}, walks' = walks,
             orphans' \in {orphans, orphans + 1}
      PROVE  Accounted'
  <2>1. IsFiniteSet(Walking') /\ Cardinality(Walking') = Cardinality(Walking) - 1
    BY <1>1, <1>5, FS_RemoveElement
  <2>2. QED
    BY <1>1, <1>2, <1>5, <2>1 DEF Accounted
<1>6. QED
  BY <1>3, <1>4, <1>5

\* A step that leaves the repository alone keeps the types of the rest.
LEMMA StillTyped ==
    ASSUME TypeOK, UNCHANGED files, cache' \in Seq(Entry), call' \in [Caller -> Call],
           walks' \in 0..MaxWalks, orphans' \in 0..walks'
    PROVE  TypeOK'
BY DEF TypeOK, Entry, Call, Pc, files

\* A save marks calls and changes nothing else of them.
LEMMA SaveCalls ==
    ASSUME TypeOK, NEW f \in File, SaveFile(f)
    PROVE  /\ call' \in [Caller -> Call]
           /\ \A c \in Caller :
                  /\ call'[c].pc = call[c].pc /\ call'[c].file = call[c].file
                  /\ call'[c].data = call[c].data
                  /\ \/ call'[c].late = call[c].late
                     \/ call'[c].late = TRUE /\ call[c].pc = "walked" /\ call[c].file = f
                  /\ call[c].pc = "walked" /\ call[c].file = f => call'[c].late
<1>1. call' = [c \in Caller |-> IF call[c].pc = "walked" /\ call[c].file = f
                                THEN [call[c] EXCEPT !.late = TRUE] ELSE call[c]]
  BY DEF SaveFile
<1>2. ASSUME NEW c \in Caller
      PROVE  /\ call'[c] \in Call
             /\ call'[c].pc = call[c].pc /\ call'[c].file = call[c].file
             /\ call'[c].data = call[c].data
             /\ \/ call'[c].late = call[c].late
                \/ call'[c].late = TRUE /\ call[c].pc = "walked" /\ call[c].file = f
             /\ call[c].pc = "walked" /\ call[c].file = f => call'[c].late
  <2>1. call[c] \in Call
    BY TypesAre
  <2>2. CASE call[c].pc = "walked" /\ call[c].file = f
    <3>1. call'[c] = [call[c] EXCEPT !.late = TRUE]
      BY <1>1, <2>2
    <3>2. QED
      BY <2>1, <2>2, <3>1 DEF Call
  <2>3. CASE ~(call[c].pc = "walked" /\ call[c].file = f)
    BY <1>1, <2>1, <2>3
  <2>4. QED
    BY <2>2, <2>3
<1>3. QED
  BY <1>1, <1>2

LEMMA SaveTyped ==
    ASSUME TypeOK, NEW f \in File, SaveFile(f)
    PROVE  TypeOK'
<1>1. /\ saves' = saves + 1 /\ saves' \in 0..MaxSaves
      /\ mtime' = [mtime EXCEPT ![f] = saves + 1]
      /\ cache' = cache /\ walks' = walks /\ orphans' = orphans
  BY TypesAre, ConstantsAssumption DEF SaveFile
<1>2. 0..saves \subseteq 0..saves' /\ 1..saves \subseteq 1..saves'
  BY <1>1, TypesAre
<1>3. mtime' \in [File -> 0..saves']
  BY <1>1, <1>2, TypesAre
<1>4. Entry \subseteq Entry' /\ Call \subseteq Call'
  BY <1>2 DEF Entry, Call, Pc
<1>5. cache' \in Seq(Entry')
  BY <1>1, <1>4, TypesAre, SeqMonotonic
<1>6. call' \in [Caller -> Call']
  BY <1>4, SaveCalls
<1>7. QED
  BY <1>1, <1>3, <1>5, <1>6, TypesAre DEF TypeOK, Entry, Call, Pc

\* A call that a step of one caller replaces.
LEMMA CallReplaced ==
    ASSUME TypeOK, NEW c \in Caller, NEW r \in Call, call' = [call EXCEPT ![c] = r]
    PROVE  /\ call' \in [Caller -> Call]
           /\ Walking' = IF r.pc \in {"started", "walked"} THEN Walking \union {c}
                         ELSE Walking \ {c}
<1>1. call \in [Caller -> Call]
  BY TypesAre
<1>2. call' \in [Caller -> Call] /\ \A d \in Caller : call'[d] = IF d = c THEN r ELSE call[d]
  BY <1>1
<1>3. QED
  BY <1>2 DEF Walking

LEMMA HitTyped ==
    ASSUME TypeOK, NEW c \in Caller, NEW f \in File, Hit(c, f)
    PROVE  TypeOK' /\ Walking' = Walking
<1>1. PICK i \in Entries(f) : call' = [call EXCEPT ![c] = [pc |-> "hit", file |-> f,
                                                          data |-> cache[i].data,
                                                          late |-> cache[i].late]]
  BY DEF Hit
<1>2. cache[i] \in Entry
  BY <1>1, TypesAre, ElementOfSeq, LenProperties DEF Entries
<1>3. [pc |-> "hit", file |-> f, data |-> cache[i].data, late |-> cache[i].late] \in Call
  BY <1>2 DEF Entry, Call, Pc
<1>4. call' \in [Caller -> Call] /\ Walking' = Walking \ {c}
  BY <1>1, <1>3, CallReplaced
<1>5. c \notin Walking /\ UNCHANGED <<files, cache, orphans, walks>>
  BY DEF Hit, Walking
<1>6. QED
  BY <1>4, <1>5, StillTyped, TypesAre

LEMMA StartTyped ==
    ASSUME TypeOK, NEW c \in Caller, NEW f \in File, StartWalker(c, f)
    PROVE  TypeOK' /\ c \notin Walking /\ Walking' = Walking \union {c}
<1> DEFINE r == [Idle EXCEPT !.pc = "started", !.file = f]
<1>1. /\ cache' = AfterGet(f) /\ walks' = walks + 1 /\ walks < MaxWalks
      /\ call' = [call EXCEPT ![c] = r]
      /\ call[c].pc = "idle" /\ UNCHANGED files /\ orphans' = orphans
  BY DEF StartWalker
<1>2. r \in Call /\ r.pc = "started"
  BY FromIdle, IdleIs, TypesAre DEF Pc
<1> HIDE DEF r
<1>3. call' \in [Caller -> Call] /\ Walking' = Walking \union {c}
  BY <1>1, <1>2, CallReplaced
<1>4. cache' \in Seq(Entry)
  BY <1>1, TypesAre, GetLeaves
<1>5. walks' \in 0..MaxWalks /\ orphans' \in 0..walks'
  BY <1>1, TypesAre, ConstantsAssumption
<1>6. c \notin Walking
  BY <1>1 DEF Walking
<1>7. QED
  BY <1>1, <1>3, <1>4, <1>5, <1>6, StillTyped

LEMMA ReadTyped ==
    ASSUME TypeOK, NEW c \in Caller, WalkerReads(c)
    PROVE  TypeOK' /\ Walking' = Walking
<1> DEFINE r == [call[c] EXCEPT !.pc = "walked", !.data = mtime[call[c].file]]
<1>1. call[c] \in Call /\ mtime[call[c].file] \in 0..saves
  BY TypesAre DEF Call
<1>2. r \in Call /\ r.pc = "walked"
  BY <1>1 DEF Call, Pc
<1>3. call' = [call EXCEPT ![c] = r] /\ c \in Walking
      /\ UNCHANGED <<files, cache, orphans, walks>>
  BY <1>1 DEF WalkerReads, Walking
<1> HIDE DEF r
<1>4. call' \in [Caller -> Call] /\ Walking' = Walking \union {c}
  BY <1>2, <1>3, CallReplaced
<1>5. QED
  BY <1>3, <1>4, StillTyped, TypesAre

LEMMA EndTyped ==
    ASSUME TypeOK, NEW c \in Caller, WalkerEnds(c)
    PROVE  TypeOK' /\ c \in Walking /\ Walking' = Walking \ {c}
<1> DEFINE r == [call[c] EXCEPT !.pc = "fresh"]
           g == call[c].file
           d == call[c].data
           l == call[c].late
<1>1. call[c] \in Call /\ g \in File /\ d \in 0..saves /\ l \in BOOLEAN /\ mtime[g] \in 0..saves
  BY TypesAre DEF Call
<1>2. r \in Call /\ r.pc = "fresh"
  BY <1>1 DEF Call, Pc
<1>3. /\ call' = [call EXCEPT ![c] = r] /\ c \in Walking
      /\ cache' = AfterSet(g, d, l) /\ UNCHANGED <<files, orphans, walks>>
  BY <1>1 DEF WalkerEnds, Walking
<1> HIDE DEF r, g, d, l
<1>4. call' \in [Caller -> Call] /\ Walking' = Walking \ {c}
  BY <1>2, <1>3, CallReplaced
<1>5. mtime[g] # 0 => [file |-> g, data |-> d, mtime |-> mtime[g], late |-> l] \in Entry
  <2>1. mtime[g] # 0 => mtime[g] \in 1..saves
    BY <1>1
  <2>2. QED
    BY <1>1, <2>1 DEF Entry
<1>6. cache' \in Seq(Entry)
  BY <1>3, <1>5, TypesAre, SetPuts
<1>7. QED
  BY <1>3, <1>4, <1>6, StillTyped, TypesAre

LEMMA GiveUpTyped ==
    ASSUME TypeOK, Accounted, NEW c \in Caller, WalkerFails(c) \/ Timeout(c)
    PROVE  /\ TypeOK' /\ c \in Walking /\ Walking' = Walking \ {c} /\ walks' = walks
           /\ orphans' \in {orphans, orphans + 1}
<1> DEFINE r == [Idle EXCEPT !.pc = "error"]
<1>1. r \in Call /\ r.pc = "error"
  BY FromIdle, IdleIs, TypesAre DEF Pc
<1>2. /\ call' = [call EXCEPT ![c] = r] /\ c \in Walking
      /\ UNCHANGED <<files, cache, walks>> /\ orphans' \in {orphans, orphans + 1}
  BY DEF WalkerFails, Timeout
<1> HIDE DEF r
<1>3. call' \in [Caller -> Call] /\ Walking' = Walking \ {c}
  BY <1>1, <1>2, CallReplaced
<1>4. orphans' \in 0..walks'
  <2>1. Cardinality(Walking) \in Nat \ {0}
    BY <1>2, FS_CardinalityType, FS_EmptySet DEF Accounted
  <2>2. QED
    BY <1>2, <2>1, TypesAre DEF Accounted
<1>5. QED
  BY <1>2, <1>3, <1>4, StillTyped, TypesAre

LEMMA TypeStep == TypeOK /\ Accounted /\ [Next]_vars => (TypeOK /\ Accounted)'
<1> SUFFICES ASSUME TypeOK, Accounted, [Next]_vars PROVE TypeOK' /\ Accounted'
  OBVIOUS
<1>1. ASSUME NEW f \in File, SaveFile(f) PROVE TypeOK' /\ Accounted'
  <2>1. TypeOK'
    BY <1>1, SaveTyped
  <2>2. Walking' = Walking /\ walks' = walks /\ orphans' = orphans
    BY <1>1, SaveCalls DEF SaveFile, Walking
  <2>3. QED
    BY <2>1, <2>2, StillAccounted, TypesAre
<1>2. ASSUME NEW f \in File, DeleteFile(f) PROVE TypeOK' /\ Accounted'
  <2>1. /\ mtime' = [mtime EXCEPT ![f] = 0] /\ saves' = saves
        /\ cache' = cache /\ call' = call /\ walks' = walks /\ orphans' = orphans
    BY <1>2 DEF DeleteFile
  <2>2. mtime' \in [File -> 0..saves]
    BY <2>1, TypesAre
  <2>3. TypeOK'
    BY <2>1, <2>2, TypesAre DEF TypeOK
  <2>4. Walking' = Walking
    BY <2>1 DEF Walking
  <2>5. QED
    BY <2>1, <2>3, <2>4, StillAccounted, TypesAre
<1>3. ASSUME NEW c \in Caller, NEW f \in File, Hit(c, f) PROVE TypeOK' /\ Accounted'
  <2>1. walks' = walks /\ orphans' = orphans
    BY <1>3 DEF Hit
  <2>2. QED
    BY <1>3, <2>1, HitTyped, StillAccounted, TypesAre
<1>4. ASSUME NEW c \in Caller, NEW f \in File, StartWalker(c, f) PROVE TypeOK' /\ Accounted'
  <2>1. walks' = walks + 1 /\ orphans' = orphans
    BY <1>4 DEF StartWalker
  <2>2. QED
    BY <1>4, <2>1, StartTyped, StillAccounted
<1>5. ASSUME NEW c \in Caller, WalkerReads(c) PROVE TypeOK' /\ Accounted'
  <2>1. walks' = walks /\ orphans' = orphans
    BY <1>5 DEF WalkerReads
  <2>2. QED
    BY <1>5, <2>1, ReadTyped, StillAccounted, TypesAre
<1>6. ASSUME NEW c \in Caller, WalkerEnds(c) PROVE TypeOK' /\ Accounted'
  <2>1. walks' = walks /\ orphans' = orphans
    BY <1>6 DEF WalkerEnds
  <2>2. QED
    BY <1>6, <2>1, EndTyped, StillAccounted
<1>7. ASSUME NEW c \in Caller, WalkerFails(c) \/ Timeout(c) PROVE TypeOK' /\ Accounted'
  BY <1>7, GiveUpTyped, StillAccounted
<1>8. CASE OrphanEnds
  <2>1. orphans > 0 /\ orphans' = orphans - 1 /\ UNCHANGED <<files, cache, call, walks>>
    BY <1>8 DEF OrphanEnds
  <2>2. TypeOK'
    BY <2>1, TypesAre, StillTyped
  <2>3. Walking' = Walking
    BY <2>1 DEF Walking
  <2>4. QED
    BY <2>1, <2>2, <2>3, TypesAre, StillAccounted
<1>9. ASSUME NEW c \in Caller, TakeAnswer(c) PROVE TypeOK' /\ Accounted'
  <2>1. /\ call' = [call EXCEPT ![c] = Idle] /\ c \notin Walking
        /\ UNCHANGED <<files, cache, orphans, walks>>
    BY <1>9 DEF TakeAnswer, Walking
  <2>2. Idle \in Call /\ Idle.pc \notin {"started", "walked"}
    <3>1. Idle.pc = "idle"
      BY IdleIs
    <3>2. Idle \in Call
      BY IdleFits, TypesAre
    <3>3. QED
      BY <3>1, <3>2
  <2>3. call' \in [Caller -> Call] /\ Walking' = Walking \ {c}
    <3> DEFINE r == Idle
    <3>1. r \in Call /\ r.pc \notin {"started", "walked"} /\ call' = [call EXCEPT ![c] = r]
      BY <2>1, <2>2
    <3> HIDE DEF r
    <3>2. QED
      BY <3>1, CallReplaced
  <2>4. Walking' = Walking
    BY <2>1, <2>3
  <2>5. QED
    BY <2>1, <2>3, <2>4, TypesAre, StillTyped, StillAccounted
<1>10. CASE Clear
  <2>1. cache' = <<>> /\ UNCHANGED <<files, call, orphans, walks>>
    BY <1>10 DEF Clear
  <2>2. TypeOK'
    BY <2>1, TypesAre, StillTyped
  <2>3. Walking' = Walking
    BY <2>1 DEF Walking
  <2>4. QED
    BY <2>1, <2>2, <2>3, TypesAre, StillAccounted
<1>11. CASE UNCHANGED vars
  <2>1. TypeOK'
    BY <1>11, TypesAre, StillTyped DEF vars
  <2>2. Walking' = Walking /\ walks' = walks /\ orphans' = orphans
    BY <1>11 DEF vars, Walking
  <2>3. QED
    BY <2>1, <2>2, TypesAre, StillAccounted
<1>12. QED
  BY <1>1, <1>2, <1>3, <1>4, <1>5, <1>6, <1>7, <1>8, <1>9, <1>10, <1>11 DEF Next

\* Types hold in every reachable state: no answer and no label is ahead of the
\* last save, no label is that of an absent file, and no more walkers are left
\* behind by the deadline of run_walker than were started.
THEOREM TypeCorrect == Spec => []TypeOK
<1>1. TypeOK /\ Accounted /\ [Next]_vars => (TypeOK /\ Accounted)'
  BY TypeStep
<1>2. QED
  BY <1>1, TypeInit, PTL DEF Spec

-----------------------------------------------------------------------------
(* The bound of the cache *)

LEMMA BoundedStep == TypeOK /\ CacheBounded /\ [Next]_vars => CacheBounded'
<1> SUFFICES ASSUME TypeOK, CacheBounded, [Next]_vars PROVE CacheBounded'
  OBVIOUS
<1>1. /\ Len(cache) \in Nat /\ Len(cache) <= MaxSize /\ OnePerKey(cache) /\ cache \in Seq(Entry)
      /\ MaxSize \in Nat
  BY TypesAre, LenProperties, ConstantsAssumption DEF CacheBounded, OnePerKey
<1>2. SUFFICES Len(cache') <= MaxSize /\ OnePerKey(cache')
  BY DEF CacheBounded, OnePerKey
<1>3. CASE cache' = cache
  BY <1>1, <1>3
<1>4. ASSUME NEW c \in Caller, NEW f \in File, StartWalker(c, f)
      PROVE  Len(cache') <= MaxSize /\ OnePerKey(cache')
  <2>1. cache' = AfterGet(f)
    BY <1>4 DEF StartWalker
  <2>2. AfterGet(f) \in Seq(Entry) /\ Len(AfterGet(f)) <= Len(cache) /\ OnePerKey(AfterGet(f))
    BY <1>1, GetLeaves
  <2>3. Len(AfterGet(f)) \in Nat
    BY <2>2, LenProperties
  <2>4. QED
    BY <1>1, <2>1, <2>2, <2>3
<1>5. ASSUME NEW c \in Caller, WalkerEnds(c)
      PROVE  Len(cache') <= MaxSize /\ OnePerKey(cache')
  <2> DEFINE g == call[c].file
             d == call[c].data
             l == call[c].late
  <2>1. cache' = AfterSet(g, d, l)
    BY <1>5 DEF WalkerEnds
  <2>2. g \in File /\ d \in 0..saves /\ l \in BOOLEAN /\ mtime[g] \in 0..saves
    BY TypesAre DEF Call
  <2> HIDE DEF g, d, l
  <2>3. mtime[g] # 0 => [file |-> g, data |-> d, mtime |-> mtime[g], late |-> l] \in Entry
    <3>1. mtime[g] # 0 => mtime[g] \in 1..saves
      BY <2>2, TypesAre
    <3>2. QED
      BY <2>2, <3>1 DEF Entry
  <2>4. Len(AfterSet(g, d, l)) <= MaxSize /\ OnePerKey(AfterSet(g, d, l))
    BY <1>1, <2>3, SetPuts
  <2>5. QED
    BY <2>1, <2>4
<1>6. CASE Clear
  BY <1>1, <1>6 DEF Clear, OnePerKey
<1>7. \/ cache' = cache
      \/ \E c \in Caller, f \in File : StartWalker(c, f)
      \/ \E c \in Caller : WalkerEnds(c)
      \/ Clear
  BY DEF Next, vars, SaveFile, DeleteFile, Hit, WalkerReads, WalkerFails, Timeout,
         OrphanEnds, TakeAnswer
<1>8. QED
  BY <1>3, <1>4, <1>5, <1>6, <1>7

\* However calls of run_walker overlap, the cache keeps at most MaxSize entries
\* and one per key: _MAX_CACHE_SIZE holds because set does not await.
THEOREM BoundKept == Spec => []CacheBounded
<1>1. Init => CacheBounded
  BY ConstantsAssumption DEF Init, CacheBounded
<1>2. TypeOK /\ CacheBounded /\ [Next]_vars => CacheBounded'
  BY BoundedStep
<1>3. QED
  BY <1>1, <1>2, TypeCorrect, PTL DEF Spec

-----------------------------------------------------------------------------
(* What a hit returns *)

\* Every entry was computed from the version it is labelled with or was raced
\* by a save, and what a walker has read is the present text, unless its file
\* is gone or was saved since.
Faithful ==
    /\ \A i \in DOMAIN cache : cache[i].data = cache[i].mtime \/ cache[i].late
    /\ \A c \in Caller :
           call[c].pc = "walked" =>
               \/ call[c].data = mtime[call[c].file]
               \/ mtime[call[c].file] = 0
               \/ call[c].late

LEMMA FaithfulInit == Init => Faithful
<1>1. SUFFICES ASSUME Init PROVE Faithful
  OBVIOUS
<1>2. cache = <<>> /\ \A c \in Caller : call[c] = Idle
  BY <1>1 DEF Init
<1>3. Idle.pc = "idle"
  BY IdleIs
<1>4. QED
  BY <1>2, <1>3 DEF Faithful

\* A step that leaves the files and replaces one call.
LEMMA StillFaithful ==
    ASSUME TypeOK, Faithful, mtime' = mtime,
           \A j \in DOMAIN cache' : \/ \E i \in DOMAIN cache : cache'[j] = cache[i]
                                    \/ cache'[j].data = cache'[j].mtime
                                    \/ cache'[j].late,
           NEW c \in Caller, NEW r, call' = [call EXCEPT ![c] = r],
           r.pc = "walked" => r.data = mtime[r.file]
    PROVE  Faithful'
<1>1. \A d \in Caller : call'[d] = IF d = c THEN r ELSE call[d]
  BY TypesAre
<1>2. \A d \in Caller : call'[d].pc = "walked" =>
          \/ call'[d].data = mtime[call'[d].file]
          \/ mtime[call'[d].file] = 0
          \/ call'[d].late
  BY <1>1 DEF Faithful
<1>3. \A j \in DOMAIN cache' : cache'[j].data = cache'[j].mtime \/ cache'[j].late
  BY DEF Faithful
<1>4. QED
  BY <1>2, <1>3 DEF Faithful

LEMMA FaithfulStep == TypeOK /\ Faithful /\ [Next]_vars => Faithful'
<1> SUFFICES ASSUME TypeOK, Faithful, [Next]_vars PROVE Faithful'
  OBVIOUS
<1>0. ASSUME NEW f \in File, SaveFile(f) PROVE Faithful'
  <2>1. cache' = cache /\ \A g \in File \ {f} : mtime'[g] = mtime[g]
    BY <1>0, TypesAre DEF SaveFile
  <2>2. ASSUME NEW c \in Caller, call'[c].pc = "walked"
        PROVE  \/ call'[c].data = mtime'[call'[c].file]
               \/ mtime'[call'[c].file] = 0
               \/ call'[c].late
    <3>1. call[c].pc = "walked" /\ call[c].file \in File
      BY <1>0, <2>2, SaveCalls, TypesAre DEF Call
    <3>2. CASE call[c].file = f
      BY <1>0, <3>1, <3>2, SaveCalls
    <3>3. CASE call[c].file # f
      <4>1. /\ mtime'[call[c].file] = mtime[call[c].file]
            /\ call'[c].file = call[c].file /\ call'[c].data = call[c].data
            /\ call'[c].late = call[c].late
        BY <1>0, <2>1, <3>1, <3>3, SaveCalls
      <4>2. QED
        BY <3>1, <4>1 DEF Faithful
    <3>4. QED
      BY <3>2, <3>3
  <2>3. QED
    BY <2>1, <2>2 DEF Faithful
<1>1. ASSUME NEW f \in File, DeleteFile(f) PROVE Faithful'
  <2>1. /\ cache' = cache /\ call' = call /\ mtime' = [mtime EXCEPT ![f] = 0]
    BY <1>1 DEF DeleteFile
  <2>2. \A c \in Caller : call[c].file \in File
    BY TypesAre DEF Call
  <2>3. \A g \in File : mtime'[g] = mtime[g] \/ mtime'[g] = 0
    BY <2>1, TypesAre
  <2>4. QED
    BY <2>1, <2>2, <2>3 DEF Faithful
<1>2. ASSUME NEW c \in Caller, NEW f \in File, Hit(c, f) PROVE Faithful'
  <2>1. PICK i \in Entries(f) : call' = [call EXCEPT ![c] = [pc |-> "hit", file |-> f,
                                                            data |-> cache[i].data,
                                                            late |-> cache[i].late]]
    BY <1>2 DEF Hit
  <2> DEFINE r == [pc |-> "hit", file |-> f, data |-> cache[i].data, late |-> cache[i].late]
  <2>2. r.pc # "walked" /\ call' = [call EXCEPT ![c] = r]
    BY <2>1
  <2>3. mtime' = mtime /\ cache' = cache
    BY <1>2 DEF Hit, files
  <2> HIDE DEF r
  <2>4. QED
    BY <2>2, <2>3, StillFaithful
<1>3. ASSUME NEW c \in Caller, NEW f \in File, StartWalker(c, f) PROVE Faithful'
  <2> DEFINE r == [Idle EXCEPT !.pc = "started", !.file = f]
  <2>1. call' = [call EXCEPT ![c] = r] /\ cache' = AfterGet(f) /\ mtime' = mtime
    BY <1>3 DEF StartWalker, files
  <2>2. r.pc # "walked"
    BY IdleIs
  <2> HIDE DEF r
  <2>3. \A j \in DOMAIN AfterGet(f) : \E i \in DOMAIN cache : AfterGet(f)[j] = cache[i]
    BY TypesAre, GetLeaves
  <2>4. QED
    BY <2>1, <2>2, <2>3, StillFaithful
<1>4. ASSUME NEW c \in Caller, WalkerReads(c) PROVE Faithful'
  <2> DEFINE r == [call[c] EXCEPT !.pc = "walked", !.data = mtime[call[c].file]]
  <2>1. call[c] \in Call
    BY TypesAre
  <2>2. r.data = mtime[r.file]
    BY <2>1 DEF Call
  <2>3. call' = [call EXCEPT ![c] = r] /\ cache' = cache /\ mtime' = mtime
    BY <1>4, <2>1 DEF WalkerReads, files
  <2> HIDE DEF r
  <2>4. QED
    BY <2>2, <2>3, StillFaithful
<1>5. ASSUME NEW c \in Caller, WalkerEnds(c) PROVE Faithful'
  <2> DEFINE r == [call[c] EXCEPT !.pc = "fresh"]
             g == call[c].file
             d == call[c].data
             l == call[c].late
             e == [file |-> g, data |-> d, mtime |-> mtime[g], late |-> l]
  <2>1. call[c] \in Call /\ g \in File /\ d \in 0..saves /\ l \in BOOLEAN /\ mtime[g] \in 0..saves
    BY TypesAre DEF Call
  <2>2. r.pc # "walked"
    BY <2>1 DEF Call
  <2>3. /\ call' = [call EXCEPT ![c] = r] /\ cache' = AfterSet(g, d, l) /\ mtime' = mtime
        /\ (d = mtime[g] \/ mtime[g] = 0 \/ l)
    BY <1>5, <2>1 DEF WalkerEnds, files, Faithful
  <2>4. mtime[g] # 0 => e.data = e.mtime \/ e.late
    BY <2>3
  <2>5. mtime[g] # 0 => e \in Entry
    <3>1. mtime[g] # 0 => mtime[g] \in 1..saves
      BY <2>1, TypesAre
    <3>2. QED
      BY <2>1, <3>1 DEF Entry
  <2> HIDE DEF r, g, d, l
  <2>6. \A j \in DOMAIN AfterSet(g, d, l) : \/ \E i \in DOMAIN cache : AfterSet(g, d, l)[j] = cache[i]
                                         \/ (mtime[g] # 0 /\ AfterSet(g, d, l)[j] = e)
    BY <2>5, TypesAre, SetPuts
  <2> HIDE DEF e
  <2>7. QED
    BY <2>2, <2>3, <2>4, <2>6, StillFaithful
<1>6. ASSUME NEW c \in Caller, WalkerFails(c) \/ Timeout(c) PROVE Faithful'
  <2> DEFINE r == [Idle EXCEPT !.pc = "error"]
  <2>1. call' = [call EXCEPT ![c] = r] /\ cache' = cache /\ mtime' = mtime
    BY <1>6 DEF WalkerFails, Timeout, files
  <2>2. r.pc # "walked"
    BY IdleIs
  <2> HIDE DEF r
  <2>3. QED
    BY <2>1, <2>2, StillFaithful
<1>7. ASSUME NEW c \in Caller, TakeAnswer(c) PROVE Faithful'
  <2> DEFINE r == Idle
  <2>1. call' = [call EXCEPT ![c] = r] /\ cache' = cache /\ mtime' = mtime
    BY <1>7 DEF TakeAnswer, files
  <2>2. r.pc # "walked"
    BY IdleIs
  <2> HIDE DEF r
  <2>3. QED
    BY <2>1, <2>2, StillFaithful
<1>8. CASE OrphanEnds
  BY <1>8 DEF OrphanEnds, Faithful, files
<1>9. CASE Clear
  BY <1>9 DEF Clear, Faithful, files
<1>10. CASE UNCHANGED vars
  BY <1>10 DEF vars, Faithful, files
<1>11. QED
  BY <1>0, <1>1, <1>2, <1>3, <1>4, <1>5, <1>6, <1>7, <1>8, <1>9, <1>10 DEF Next

\* A hit returns what it finds under the key, of which there is one entry.
LEMMA HitReturns ==
    TypeOK /\ CacheBounded /\ Faithful =>
        \A c \in Caller, f \in File : Hit(c, f) => call'[c].data = mtime[f] \/ call'[c].late
<1> SUFFICES ASSUME TypeOK, CacheBounded, Faithful, NEW c \in Caller, NEW f \in File, Hit(c, f)
             PROVE  call'[c].data = mtime[f] \/ call'[c].late
  OBVIOUS
<1>1. PICK i \in Entries(f) : call' = [call EXCEPT ![c] = [pc |-> "hit", file |-> f,
                                                          data |-> cache[i].data,
                                                          late |-> cache[i].late]]
  BY DEF Hit
<1>2. PICK k \in Entries(f) : cache[k].mtime = mtime[f]
  BY DEF Hit, Valid
<1>3. i = k
  BY <1>1, <1>2 DEF Entries, CacheBounded
<1>4. call'[c].data = cache[i].data /\ call'[c].late = cache[i].late
  BY <1>1, TypesAre
<1>5. cache[i].data = cache[i].mtime \/ cache[i].late
  BY <1>1 DEF Entries, Faithful
<1>6. QED
  BY <1>2, <1>3, <1>4, <1>5

\* "re-run the walker if stale": whatever is saved or deleted at any moment, and
\* whatever calls overlap, time out, fail or evict each other's entries, an
\* answer that get serves was computed from the present text of its file,
\* unless that file was saved after the walker of this answer had read it and
\* before set labelled the answer.
THEOREM HitsAreCurrent == Spec => OnlyRacedHitsAreOld
<1>1. TypeOK /\ Faithful /\ [Next]_vars => Faithful'
  BY FaithfulStep
<1>2. TypeOK /\ CacheBounded /\ Faithful =>
          \A c \in Caller, f \in File : Hit(c, f) => call'[c].data = mtime[f] \/ call'[c].late
  BY HitReturns
<1>3. TypeOK /\ CacheBounded /\ Faithful /\ [Next]_vars =>
          [\A c \in Caller, f \in File : Hit(c, f) => call'[c].data = mtime[f] \/ call'[c].late]_vars
  BY <1>2
<1>4. QED
  BY <1>1, <1>3, FaithfulInit, TypeCorrect, BoundKept, PTL DEF Spec, OnlyRacedHitsAreOld
=============================================================================
