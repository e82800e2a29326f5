---------------------------- MODULE RankingProofs ----------------------------
(***************************************************************************)
(* Proofs about Ranking: the list handed over is sorted and names no file  *)
(* twice, files found over edges come before those that keywords and BM25  *)
(* bring, the active file is not pushed out, and scores are what the paths *)
(* from the seeds give.                                                    *)
(***************************************************************************)
EXTENDS Ranking, SequenceTheorems, FiniteSetTheorems, WellFoundedInduction, TLAPS

-----------------------------------------------------------------------------
(* Numbers *)

\* What passes over an edge, forward and back, is no more than what it comes
\* from; a seed's score is never passed on undiminished.
LEMMA PassedOn ==
    ASSUME NEW s \in Nat
    PROVE  /\ Passed(s) \in Nat /\ Passed(s) <= s
           /\ Back(s) \in Nat /\ Back(s) <= s
           /\ s >= 20 => Back(s) >= 18
           /\ s >= 1 => Back(s) < s
           /\ s <= 2 * Unit => Passed(s) < (3 * Unit) \div 2
<1>1. /\ s \div 100 \in Nat /\ 100 * (s \div 100) <= s
      /\ s \div 10 \in Nat /\ 10 * (s \div 10) <= s
      /\ s >= 20 => s \div 10 >= 2
  OBVIOUS
<1> DEFINE h == s \div 100
           t == s \div 10
<1>2. Passed(s) = h * 65 /\ Back(s) = t * 9
  BY DEF Passed, Back
<1>3. h \in Nat /\ 100 * h <= s /\ t \in Nat /\ 10 * t <= s /\ (s >= 20 => t >= 2)
  BY <1>1
<1> HIDE DEF h, t
<1>4. 2 * Unit = 1000000000 /\ (3 * Unit) \div 2 = 750000000
  BY DEF Unit
<1>5. QED
  BY <1>2, <1>3, <1>4

\* The score of a file its name alone brought.
LEMMA FourFifths ==
    ASSUME NEW s \in Nat
    PROVE  /\ (s \div 10) * 8 \in Nat
           /\ s >= 1 => (s \div 10) * 8 < s
           /\ s >= 18 => (s \div 10) * 8 >= 8
<1>1. s \div 10 \in Nat /\ 10 * (s \div 10) <= s /\ (s >= 18 => s \div 10 >= 1)
  OBVIOUS
<1> DEFINE t == s \div 10
<1>2. t \in Nat /\ 10 * t <= s /\ (s >= 18 => t >= 1)
  BY <1>1
<1> HIDE DEF t
<1>3. t * 8 \in Nat /\ (s >= 1 => t * 8 < s) /\ (s >= 18 => t * 8 >= 8)
  BY <1>2
<1>4. QED
  BY <1>3 DEF t

\* Scores in proportion to the best stay within what the best is given.
LEMMA InProportion ==
    ASSUME NEW b \in Nat, NEW m \in Nat \ {0}, NEW s \in Nat, s <= m
    PROVE  (b \div m) * s \in Nat /\ (b \div m) * s <= b
<1> DEFINE q == b \div m
<1>1. q \in Nat /\ q * m <= b
  OBVIOUS
<1> HIDE DEF q
<1>2. PICK d \in Nat : m = s + d
  <2>1. m - s \in Nat /\ m = s + (m - s)
    OBVIOUS
  <2>2. QED
    BY <2>1
<1>3. q * s \in Nat /\ q * d \in Nat /\ q * m = q * s + q * d
  BY <1>1, <1>2
<1>4. q * s <= b
  BY <1>1, <1>3
<1>5. QED
  BY <1>3, <1>4 DEF q

-----------------------------------------------------------------------------
(* Lists *)

\* The place of an element in a finite total order.
PlaceIn(j, D, R) == 1 + Cardinality({i \in D : <<i, j>> \in R})

\* These places are 1, 2, 3 and so on.
LEMMA Placing ==
    ASSUME NEW D, IsFiniteSet(D), NEW R,
           \A i \in D : <<i, i>> \notin R,
           \A i, j \in D : i # j => <<i, j>> \in R \/ <<j, i>> \in R,
           \A i, j, k \in D : <<i, j>> \in R /\ <<j, k>> \in R => <<i, k>> \in R
    PROVE  /\ \A j \in D : PlaceIn(j, D, R) \in 1..Cardinality(D)
           /\ \A i, j \in D : <<i, j>> \in R <=> PlaceIn(i, D, R) < PlaceIn(j, D, R)
           /\ \A k \in 1..Cardinality(D) : \E j \in D : PlaceIn(j, D, R) = k
<1> DEFINE Below(j) == {i \in D : <<i, j>> \in R}
           size == Cardinality(D)
           p == [j \in D |-> PlaceIn(j, D, R)]
<1>1. size \in Nat
  BY FS_CardinalityType
<1>2. \A j \in D : IsFiniteSet(Below(j)) /\ Cardinality(Below(j)) \in Nat
                  /\ p[j] = 1 + Cardinality(Below(j))
  <2>1. \A j \in D : Below(j) \subseteq D
    OBVIOUS
  <2>2. QED
    BY <2>1, FS_Subset, FS_CardinalityType DEF PlaceIn
<1> HIDE DEF p
<1>3. ASSUME NEW i \in D, NEW j \in D, <<i, j>> \in R PROVE p[i] < p[j]
  <2>1. i \notin Below(i) /\ Below(i) \union {i} \subseteq Below(j)
    BY <1>3
  <2>2. Cardinality(Below(i) \union {i}) = Cardinality(Below(i)) + 1
    BY <1>2, <2>1, FS_AddElement
  <2>3. Cardinality(Below(i) \union {i}) <= Cardinality(Below(j))
    BY <1>2, <2>1, FS_Subset
  <2> HIDE DEF Below
  <2>4. QED
    BY <1>2, <2>2, <2>3
<1>4. ASSUME NEW j \in D PROVE p[j] \in 1..size
  <2>1. Below(j) \subseteq D \ {j}
    OBVIOUS
  <2>2. IsFiniteSet(D \ {j}) /\ Cardinality(D \ {j}) = size - 1
    BY FS_RemoveElement
  <2> HIDE DEF Below, size
  <2>3. Cardinality(Below(j)) <= Cardinality(D \ {j})
    BY <2>1, <2>2, FS_Subset
  <2>4. QED
    BY <1>1, <1>2, <2>2, <2>3
<1>5. p \in [D -> 1..size]
  BY <1>4 DEF p
<1>6. \A i, j \in D : <<i, j>> \in R <=> p[i] < p[j]
  <2>1. \A i \in D : p[i] \in Nat
    BY <1>1, <1>4
  <2>2. TAKE i, j \in D
  <2>3. CASE i = j
    BY <2>1, <2>3
  <2>4. CASE i # j /\ <<i, j>> \in R
    BY <1>3, <2>4
  <2>5. CASE i # j /\ <<i, j>> \notin R
    <3>1. p[j] < p[i]
      BY <1>3, <2>5
    <3>2. QED
      BY <2>1, <2>5, <3>1
  <2>6. QED
    BY <2>3, <2>4, <2>5
<1>7. p \in Injection(D, 1..size)
  <2>1. \A i \in D : p[i] \in Nat
    BY <1>1, <1>4
  <2>2. \A i, j \in D : p[i] = p[j] => i = j
    BY <1>6, <2>1
  <2>3. DOMAIN p = D
    BY <1>5
  <2> HIDE DEF size
  <2>4. QED
    BY <1>5, <2>2, <2>3 DEF Injection, IsInjective
<1>8. IsFiniteSet(1..size) /\ Cardinality(1..size) = size
  <2> HIDE DEF size
  <2>1. size >= 1 \/ size = 0
    BY <1>1
  <2>2. QED
    BY <1>1, <2>1, FS_Interval
<1>9. p \in Surjection(D, 1..size)
  BY <1>7, <1>8, FS_Injection
<1>10. \A j \in D : p[j] = PlaceIn(j, D, R)
  BY DEF p
<1>11. QED
  BY <1>5, <1>6, <1>9, <1>10 DEF Surjection


\* What the sort puts before the j-th element.
Ahead(r, j) == {i \in DOMAIN r : \/ r[i].score > r[j].score
                                \/ (r[i].score = r[j].score /\ i < j)}

\* SortByScore puts the elements of a list in descending order, each once.
LEMMA SortIsSort ==
    ASSUME NEW T, NEW r, r \in Seq(T), \A x \in T : x.score \in Nat
    PROVE  /\ SortByScore(r) \in Seq(T)
           /\ Sorted(SortByScore(r))
           /\ Distinct(r) => Distinct(SortByScore(r))
           /\ FilesOf(SortByScore(r)) = FilesOf(r)
           /\ \A k \in DOMAIN SortByScore(r) : \E j \in DOMAIN r : SortByScore(r)[k] = r[j]
           /\ DOMAIN SortByScore(r) = DOMAIN r /\ Len(SortByScore(r)) = Len(r)
           /\ \A j \in DOMAIN r : /\ 1 + Cardinality(Ahead(r, j)) \in DOMAIN r
                                 /\ SortByScore(r)[1 + Cardinality(Ahead(r, j))] = r[j]
<1> DEFINE D == DOMAIN r
           size == Len(r)
           o == SortByScore(r)
           Before(i, j) == r[i].score > r[j].score \/ (r[i].score = r[j].score /\ i < j)
           R == {x \in D \X D : Before(x[1], x[2])}
           p == [j \in D |-> 1 + Cardinality({i \in D : Before(i, j)})]
           from == [k \in D |-> CHOOSE j \in D : 1 + Cardinality({i \in D : Before(i, j)}) = k]
<1>1. size \in Nat /\ D = 1..size /\ \A i \in D : i \in Nat /\ r[i] \in T /\ r[i].score \in Nat
  OBVIOUS
<1>2. IsFiniteSet(D) /\ Cardinality(D) = size
  <2> HIDE DEF D, size
  <2>1. size >= 1 \/ size = 0
    BY <1>1
  <2>2. QED
    BY <1>1, <2>1, FS_Interval
<1>3. /\ \A i, j \in D : <<i, j>> \in R <=> Before(i, j)
      /\ \A i, j \in D : i # j => <<i, j>> \in R \/ <<j, i>> \in R
  BY <1>1
<1>4. o = [k \in D |-> r[from[k]]]
  BY DEF SortByScore
<1>5. /\ \A i, j \in D : <<i, j>> \in R <=> p[i] < p[j]
      /\ \A k \in D : \E j \in D : p[j] = k
      /\ \A j \in D : p[j] \in D
  <2>1. \A i \in D : <<i, i>> \notin R
    BY <1>1, <1>3
  <2>2. \A i, j, k \in D : <<i, j>> \in R /\ <<j, k>> \in R => <<i, k>> \in R
    BY <1>1, <1>3
  <2>3. \A j \in D : {i \in D : Before(i, j)} = {i \in D : <<i, j>> \in R}
    BY <1>3
  <2> HIDE DEF R, Before, D
  <2>4. \A j \in D : p[j] = PlaceIn(j, D, R)
    BY <2>3 DEF PlaceIn
  <2> HIDE DEF p
  <2>5. /\ \A j \in D : PlaceIn(j, D, R) \in 1..Cardinality(D)
        /\ \A i, j \in D : <<i, j>> \in R <=> PlaceIn(i, D, R) < PlaceIn(j, D, R)
        /\ \A k \in 1..Cardinality(D) : \E j \in D : PlaceIn(j, D, R) = k
    BY <1>2, <1>3, <2>1, <2>2, Placing
  <2>6. D = 1..Cardinality(D)
    BY <1>1, <1>2
  <2>7. QED
    BY <2>4, <2>5, <2>6
<1>6. \A k \in D : from[k] \in D /\ p[from[k]] = k
  <2>1. \A k \in D : \E j \in D : 1 + Cardinality({i \in D : Before(i, j)}) = k
    BY <1>5
  <2> HIDE DEF Before, D
  <2>2. QED
    BY <2>1
<1> HIDE DEF p, from, R, Before, D
<1>7. \A k \in D : o[k] = r[from[k]]
  BY <1>4
<1>8. o \in Seq(T) /\ DOMAIN o = D /\ Len(o) = size
  <2>1. o \in [1..size -> T]
    BY <1>1, <1>4, <1>6
  <2>2. QED
    BY <1>1, <1>4, <2>1
<1>9. Sorted(o)
  <2>1. ASSUME NEW k \in D, NEW l \in D, k < l PROVE o[k].score >= o[l].score
    <3>1. from[k] \in D /\ from[l] \in D /\ p[from[k]] < p[from[l]]
      BY <1>6, <2>1
    <3>2. Before(from[k], from[l])
      BY <1>3, <1>5, <3>1
    <3>3. r[from[k]].score >= r[from[l]].score
      BY <1>1, <1>6, <3>2 DEF Before
    <3>4. QED
      BY <1>7, <3>3
  <2>2. QED
    BY <1>8, <2>1 DEF Sorted
<1>10. Distinct(r) => Distinct(o)
  <2>1. SUFFICES ASSUME Distinct(r), NEW k \in D, NEW l \in D, o[k].file = o[l].file
                 PROVE  k = l
    BY <1>8 DEF Distinct
  <2>2. from[k] = from[l]
    BY <1>6, <1>7, <2>1 DEF Distinct, D
  <2>3. QED
    BY <1>6, <2>2
<1>11. \A k \in DOMAIN o : \E j \in DOMAIN r : o[k] = r[j]
  BY <1>6, <1>7, <1>8 DEF D
<1>12. \A j \in D : from[p[j]] = j
  <2>1. TAKE j \in D
  <2>2. p[j] \in D /\ from[p[j]] \in D /\ p[from[p[j]]] = p[j]
    BY <1>5, <1>6
  <2>3. ~(p[j] < p[j])
    BY <1>1, <2>2
  <2>4. <<from[p[j]], j>> \notin R /\ <<j, from[p[j]]>> \notin R
    BY <1>5, <2>2, <2>3
  <2>5. QED
    BY <1>3, <2>2, <2>4
<1>13. FilesOf(o) = FilesOf(r)
  <2>1. \A j \in D : o[p[j]] = r[j]
    BY <1>5, <1>7, <1>12
  <2>2. \A k \in D : from[k] \in D /\ p[k] \in D
    BY <1>5, <1>6
  <2>3. \A k \in D : o[k].file \in FilesOf(r)
    BY <1>7, <2>2 DEF FilesOf, D
  <2>4. \A j \in D : r[j].file \in FilesOf(o)
    BY <1>8, <2>1, <2>2 DEF FilesOf
  <2>5. QED
    BY <1>8, <2>3, <2>4 DEF FilesOf, D
<1>14. \A j \in D : p[j] = 1 + Cardinality(Ahead(r, j))
  BY DEF p, D, Before, Ahead
<1>15. \A j \in D : p[j] \in D /\ o[p[j]] = r[j]
  BY <1>5, <1>7, <1>12
<1>16. QED
  BY <1>8, <1>9, <1>10, <1>11, <1>13, <1>14, <1>15 DEF D


\* Keep keeps what is in the set, all of it, in order.
LEMMA KeepIs ==
    ASSUME NEW T, NEW s \in Seq(T), NEW S
    PROVE  /\ Keep(s, S) \in Seq(S \intersect T)
           /\ Len(Keep(s, S)) = Cardinality({i \in DOMAIN s : s[i] \in S})
           /\ \A j \in DOMAIN s : s[j] \in S =>
                  \E k \in DOMAIN Keep(s, S) : Keep(s, S)[k] = s[j]
           /\ \E from \in [DOMAIN Keep(s, S) -> DOMAIN s] :
                  /\ \A k \in DOMAIN Keep(s, S) : Keep(s, S)[k] = s[from[k]]
                  /\ \A k, l \in DOMAIN Keep(s, S) : k < l => from[k] < from[l]
<1> DEFINE D == {i \in DOMAIN s : s[i] \in S}
           R == {x \in D \X D : x[1] < x[2]}
           size == Cardinality(D)
           from == [k \in 1..size |-> CHOOSE j \in D : 1 + Cardinality({i \in D : i < j}) = k]
           o == Keep(s, S)
<1>1. D \subseteq DOMAIN s /\ \A i \in D : i \in Nat /\ s[i] \in S /\ s[i] \in T
  OBVIOUS
<1>2. IsFiniteSet(D) /\ size \in Nat
  <2>1. D \subseteq 1..Len(s) /\ Len(s) \in Nat
    OBVIOUS
  <2>2. IsFiniteSet(1..Len(s))
    BY <2>1, FS_Interval
  <2>3. QED
    BY <2>1, <2>2, FS_Subset, FS_CardinalityType
<1>3. \A i, j \in D : <<i, j>> \in R <=> i < j
  OBVIOUS
<1>4. /\ \A j \in D : PlaceIn(j, D, R) \in 1..size
      /\ \A i, j \in D : <<i, j>> \in R <=> PlaceIn(i, D, R) < PlaceIn(j, D, R)
      /\ \A k \in 1..size : \E j \in D : PlaceIn(j, D, R) = k
  <2>1. /\ \A i \in D : <<i, i>> \notin R
        /\ \A i, j \in D : i # j => <<i, j>> \in R \/ <<j, i>> \in R
        /\ \A i, j, k \in D : <<i, j>> \in R /\ <<j, k>> \in R => <<i, k>> \in R
    BY <1>1, <1>3
  <2> HIDE DEF D, R
  <2>2. QED
    BY <1>2, <2>1, Placing
<1>5. \A j \in D : PlaceIn(j, D, R) = 1 + Cardinality({i \in D : i < j})
  <2>1. \A j \in D : {i \in D : <<i, j>> \in R} = {i \in D : i < j}
    BY <1>3
  <2> HIDE DEF D, R
  <2>2. QED
    BY <2>1 DEF PlaceIn
<1>6. \A k \in 1..size : from[k] \in D /\ PlaceIn(from[k], D, R) = k
  <2> HIDE DEF D, R, size
  <2>1. \A k \in 1..size : \E j \in D : 1 + Cardinality({i \in D : i < j}) = k
    BY <1>4, <1>5
  <2>2. \A k \in 1..size : from[k] \in D /\ 1 + Cardinality({i \in D : i < from[k]}) = k
    BY <2>1
  <2> HIDE DEF from
  <2>3. QED
    BY <1>5, <2>2
<1>7. o = [k \in 1..size |-> s[from[k]]]
  BY DEF Keep
<1> HIDE DEF D, R, size, from
<1>8. o \in Seq(S \intersect T) /\ DOMAIN o = 1..size /\ Len(o) = size
  <2>1. o \in [1..size -> S \intersect T]
    BY <1>1, <1>6, <1>7
  <2>2. QED
    BY <1>2, <2>1
<1>9. ASSUME NEW j \in DOMAIN s, s[j] \in S PROVE \E k \in DOMAIN o : o[k] = s[j]
  <2>1. j \in D
    BY <1>9 DEF D
  <2> DEFINE k == PlaceIn(j, D, R)
  <2>2. k \in 1..size /\ from[k] \in D /\ PlaceIn(from[k], D, R) = k
    BY <1>4, <1>6, <2>1
  <2>3. ~(k < k)
    BY <1>2, <2>2
  <2>4. <<from[k], j>> \notin R /\ <<j, from[k]>> \notin R
    BY <1>4, <2>1, <2>2, <2>3
  <2>5. ~(from[k] < j) /\ ~(j < from[k])
    BY <1>3, <2>1, <2>2, <2>4
  <2>6. from[k] \in Nat /\ j \in Nat
    BY <1>1, <2>1, <2>2
  <2>7. from[k] = j
    <3> HIDE DEF k
    <3>1. QED
      BY <2>5, <2>6
  <2>8. o[k] = s[j]
    BY <1>7, <2>2, <2>7
  <2>9. QED
    BY <1>8, <2>2, <2>8
<1>10. from \in [DOMAIN o -> DOMAIN s]
  <2>1. \A k \in 1..size : (CHOOSE j \in D : 1 + Cardinality({i \in D : i < j}) = k) \in DOMAIN s
    BY <1>1, <1>6 DEF from
  <2>2. QED
    BY <1>8, <2>1 DEF from
<1>11. \A k \in DOMAIN o : o[k] = s[from[k]]
  BY <1>7, <1>8
<1>12. \A k, l \in DOMAIN o : k < l => from[k] < from[l]
  BY <1>3, <1>4, <1>6, <1>8
<1>13. QED
  BY <1>8, <1>9, <1>10, <1>11, <1>12 DEF size, D

\* The candidates a set of files brings: each file once, all with the score.
LEMMA ScoredIs ==
    ASSUME NEW S \in SUBSET File, NEW score \in Nat
    PROVE  /\ Scored(S, score) \in Seq(Candidate)
           /\ Distinct(Scored(S, score))
           /\ FilesOf(Scored(S, score)) = S
           /\ Len(Scored(S, score)) = Cardinality(S)
           /\ \A i \in DOMAIN Scored(S, score) : /\ Scored(S, score)[i].score = score
                                                 /\ Scored(S, score)[i].file \in S
<1> DEFINE s == [f \in File |-> f]
           o == InOrder(S)
           c == Scored(S, score)
<1>1. N \in Nat
  BY ConstantsAssumption
<1>2. s \in Seq(File) /\ DOMAIN s = File /\ \A f \in File : s[f] = f /\ f \in Nat
  BY <1>1 DEF File
<1>3. {i \in DOMAIN s : s[i] \in S} = S
  BY <1>2
<1>4. o = Keep(s, S)
  BY DEF InOrder
<1>5. S \intersect File = S
  OBVIOUS
<1> HIDE DEF s, o
<1>6. /\ o \in Seq(S) /\ Len(o) = Cardinality(S)
      /\ \A j \in S : \E k \in DOMAIN o : o[k] = j
      /\ \E from \in [DOMAIN o -> File] :
             /\ \A k \in DOMAIN o : o[k] = from[k]
             /\ \A k, l \in DOMAIN o : k < l => from[k] < from[l]
  <2>1. /\ Keep(s, S) \in Seq(S \intersect File)
        /\ Len(Keep(s, S)) = Cardinality({i \in DOMAIN s : s[i] \in S})
        /\ \A j \in DOMAIN s : s[j] \in S => \E k \in DOMAIN Keep(s, S) : Keep(s, S)[k] = s[j]
        /\ \E from \in [DOMAIN Keep(s, S) -> DOMAIN s] :
               /\ \A k \in DOMAIN Keep(s, S) : Keep(s, S)[k] = s[from[k]]
               /\ \A k, l \in DOMAIN Keep(s, S) : k < l => from[k] < from[l]
    <3>1. s \in Seq(File)
      BY <1>2
    <3>2. QED
      BY <3>1, KeepIs
  <2>2. /\ o \in Seq(S \intersect File)
        /\ Len(o) = Cardinality({i \in DOMAIN s : s[i] \in S})
        /\ \A j \in DOMAIN s : s[j] \in S => \E k \in DOMAIN o : o[k] = s[j]
        /\ \E from \in [DOMAIN o -> DOMAIN s] :
               /\ \A k \in DOMAIN o : o[k] = s[from[k]]
               /\ \A k, l \in DOMAIN o : k < l => from[k] < from[l]
    BY <1>4, <2>1
  <2>3. PICK from \in [DOMAIN o -> DOMAIN s] :
            /\ \A k \in DOMAIN o : o[k] = s[from[k]]
            /\ \A k, l \in DOMAIN o : k < l => from[k] < from[l]
    BY <2>2
  <2>4. from \in [DOMAIN o -> File] /\ \A k \in DOMAIN o : o[k] = from[k]
    BY <1>2, <2>3
  <2>5. o \in Seq(S) /\ Len(o) = Cardinality(S)
    BY <1>3, <1>5, <2>2
  <2>6. \A j \in S : \E k \in DOMAIN o : o[k] = j
    BY <1>2, <2>2
  <2>7. QED
    BY <2>3, <2>4, <2>5, <2>6
<1>7. Len(o) \in Nat /\ DOMAIN o = 1..Len(o) /\ \A k \in DOMAIN o : o[k] \in S
  BY <1>6
<1>8. c = [i \in DOMAIN o |-> [file |-> o[i], score |-> score]]
  BY <1>6, <1>7 DEF Scored, o
<1> HIDE DEF c
<1>9. c \in Seq(Candidate) /\ DOMAIN c = DOMAIN o /\ Len(c) = Len(o)
  <2>1. c \in [1..Len(o) -> Candidate]
    BY <1>7, <1>8 DEF Candidate
  <2>2. QED
    BY <1>7, <2>1
<1>10. \A i \in DOMAIN c : c[i].file = o[i] /\ c[i].score = score
  BY <1>8, <1>9
<1>11. Distinct(c)
  <2>1. PICK from \in [DOMAIN o -> File] :
            /\ \A k \in DOMAIN o : o[k] = from[k]
            /\ \A k, l \in DOMAIN o : k < l => from[k] < from[l]
    BY <1>6
  <2>2. SUFFICES ASSUME NEW i \in DOMAIN c, NEW j \in DOMAIN c, c[i].file = c[j].file
                 PROVE  i = j
    BY DEF Distinct
  <2>3. from[i] = from[j] /\ from[i] \in Nat
    BY <1>2, <1>9, <1>10, <2>1, <2>2
  <2>4. ~(i < j) /\ ~(j < i)
    BY <1>9, <2>1, <2>3
  <2>5. i \in Nat /\ j \in Nat
    BY <1>7, <1>9
  <2>6. QED
    BY <2>4, <2>5
<1>12. FilesOf(c) = S
  BY <1>6, <1>7, <1>9, <1>10 DEF FilesOf
<1>13. \A i \in DOMAIN c : c[i].file \in S
  BY <1>7, <1>9, <1>10
<1>14. QED
  BY <1>6, <1>9, <1>10, <1>11, <1>12, <1>13 DEF c

\* The first n elements.
LEMMA FirstIs ==
    ASSUME n \in Nat, NEW T, NEW r \in Seq(T)
    PROVE  /\ First(r) \in Seq(T)
           /\ Len(First(r)) <= n /\ Len(First(r)) <= Len(r)
           /\ Len(First(r)) = n \/ Len(First(r)) = Len(r)
           /\ \A i \in DOMAIN First(r) : i \in DOMAIN r /\ First(r)[i] = r[i]
<1> DEFINE m == Min({n, Len(r)})
<1>1. Len(r) \in Nat
  OBVIOUS
<1>2. m \in Nat /\ m <= n /\ m <= Len(r) /\ (m = n \/ m = Len(r))
  <2>1. \E x \in {n, Len(r)} : \A y \in {n, Len(r)} : x <= y
    BY <1>1
  <2>2. m \in {n, Len(r)} /\ \A y \in {n, Len(r)} : m <= y
    BY <2>1 DEF Min
  <2>3. QED
    BY <1>1, <2>2
<1> HIDE DEF m
<1>3. /\ SubSeq(r, 1, m) \in Seq(T) /\ Len(SubSeq(r, 1, m)) = m
      /\ \A i \in 1..m : SubSeq(r, 1, m)[i] = r[i]
  BY <1>1, <1>2
<1>4. First(r) = SubSeq(r, 1, m)
  BY DEF First, m
<1>5. DOMAIN First(r) = 1..m /\ \A i \in 1..m : i \in DOMAIN r
  BY <1>1, <1>2, <1>3, <1>4
<1>6. QED
  BY <1>2, <1>3, <1>4, <1>5

LEMMA FirstNumbers ==
    ASSUME NEW k \in Nat
    PROVE  IsFiniteSet(1..k) /\ Cardinality(1..k) = k
<1>1. k >= 1 \/ k = 0
  OBVIOUS
<1>2. QED
  BY <1>1, FS_Interval

LEMMA FirstKeeps ==
    ASSUME n \in Nat, NEW r \in Seq(Candidate)
    PROVE  /\ Sorted(r) => Sorted(First(r))
           /\ Distinct(r) => Distinct(First(r))
           /\ Len(r) <= n => First(r) = r
<1>1. /\ First(r) \in Seq(Candidate)
      /\ Len(First(r)) <= n /\ Len(First(r)) <= Len(r)
      /\ Len(First(r)) = n \/ Len(First(r)) = Len(r)
      /\ \A i \in DOMAIN First(r) : i \in DOMAIN r /\ First(r)[i] = r[i]
  BY FirstIs
<1> DEFINE o == First(r)
<1> HIDE DEF o
<1>2. Sorted(r) => Sorted(o)
  BY <1>1 DEF Sorted, o
<1>3. Distinct(r) => Distinct(o)
  BY <1>1 DEF Distinct, o
<1>4. ASSUME Len(r) <= n PROVE o = r
  <2>1. o \in Seq(Candidate) /\ Len(o) = Len(r) /\ \A i \in DOMAIN o : o[i] = r[i]
    BY <1>1, <1>4 DEF o
  <2>2. Len(o) \in Nat /\ DOMAIN o = 1..Len(o)
    BY <2>1
  <2>3. QED
    BY <2>1, <2>2, SeqEqual
<1>5. QED
  BY <1>2, <1>3, <1>4 DEF o

Less == {x \in Nat \X Nat : x[1] < x[2]}

\* The least of a set of numbers is one of them.
LEMMA Smallest ==
    ASSUME NEW S \in SUBSET Nat, S # {}
    PROVE  Min(S) \in S /\ \A y \in S : Min(S) <= y
<1>1. IsWellFoundedOn(Less, Nat)
  BY NatLessThanWellFounded DEF OpToRel, Less
<1>2. PICK x \in S : \A y \in S : <<y, x>> \notin Less
  BY <1>1, WFMin
<1>3. ASSUME NEW y \in S PROVE x <= y
  <2>1. x \in Nat /\ y \in Nat /\ ~(<<y, x>> \in Less)
    BY <1>2
  <2>2. ~(y < x)
    BY <2>1 DEF Less
  <2>3. QED
    BY <2>1, <2>2
<1>4. QED
  BY <1>3 DEF Min

\* The least score of a list.
LEMMA LeastIs ==
    ASSUME NEW r \in Seq(Candidate), NEW default \in Nat
    PROVE  /\ Least(r, default) \in Nat
           /\ \A i \in DOMAIN r : Least(r, default) <= r[i].score
           /\ r # <<>> => \E i \in DOMAIN r : Least(r, default) = r[i].score
           /\ r = <<>> => Least(r, default) = default
<1>1. CASE r = <<>>
  BY <1>1 DEF Least
<1>2. CASE r # <<>>
  <2> DEFINE S == {r[i].score : i \in DOMAIN r}
  <2>1. S \in SUBSET Nat
    <3>1. \A i \in DOMAIN r : r[i] \in Candidate
      OBVIOUS
    <3>2. \A i \in DOMAIN r : r[i].score \in Nat
      BY <3>1 DEF Candidate
    <3>3. QED
      BY <3>2
  <2>2. 1 \in DOMAIN r
    BY <1>2
  <2>3. S # {}
    BY <2>2
  <2>4. Min(S) \in S /\ \A y \in S : Min(S) <= y
    BY <2>1, <2>3, Smallest
  <2>5. Least(r, default) = Min(S)
    BY <1>2 DEF Least
  <2>6. QED
    BY <1>2, <2>1, <2>4, <2>5
<1>3. QED
  BY <1>1, <1>2

LEMMA ConcatIs ==
    ASSUME NEW T, NEW r \in Seq(T), NEW s \in Seq(T)
    PROVE  /\ r \o s \in Seq(T) /\ Len(r \o s) = Len(r) + Len(s)
           /\ \A i \in DOMAIN r : i \in DOMAIN (r \o s) /\ (r \o s)[i] = r[i]
           /\ \A i \in DOMAIN s : /\ Len(r) + i \in DOMAIN (r \o s)
                                  /\ (r \o s)[Len(r) + i] = s[i]
           /\ \A i \in DOMAIN (r \o s) :
                  \/ i \in DOMAIN r /\ (r \o s)[i] = r[i]
                  \/ /\ i - Len(r) \in DOMAIN s /\ i > Len(r)
                     /\ (r \o s)[i] = s[i - Len(r)]
OBVIOUS

LEMMA SortedIs ==
    ASSUME NEW r \in Seq(Candidate)
    PROVE  /\ SortByScore(r) \in Seq(Candidate) /\ Sorted(SortByScore(r))
           /\ Distinct(r) => Distinct(SortByScore(r))
           /\ FilesOf(SortByScore(r)) = FilesOf(r)
           /\ \A k \in DOMAIN SortByScore(r) : \E j \in DOMAIN r : SortByScore(r)[k] = r[j]
           /\ DOMAIN SortByScore(r) = DOMAIN r /\ Len(SortByScore(r)) = Len(r)
           /\ \A j \in DOMAIN r : /\ 1 + Cardinality(Ahead(r, j)) \in DOMAIN r
                                 /\ SortByScore(r)[1 + Cardinality(Ahead(r, j))] = r[j]
<1>1. \A x \in Candidate : x.score \in Nat
  BY DEF Candidate
<1>2. QED
  BY <1>1, SortIsSort

\* A list that is not full takes in others that score less and are not in it:
\* all it had stays, in front.
LEMMA Extended ==
    ASSUME n \in Nat, NEW r \in Seq(Candidate), NEW new \in Seq(Candidate),
           Len(r) <= n, Distinct(r), Distinct(new),
           \A i \in DOMAIN r, j \in DOMAIN new : /\ r[i].file # new[j].file
                                                 /\ r[i].score > new[j].score
    PROVE  LET o == First(SortByScore(r \o new)) IN
           /\ o \in Seq(Candidate) /\ Len(o) <= n
           /\ Sorted(o) /\ Distinct(o)
           /\ \A k \in DOMAIN o : \/ \E i \in DOMAIN r : o[k] = r[i]
                                  \/ \E j \in DOMAIN new : o[k] = new[j]
           /\ \A i \in DOMAIN r : \E k \in DOMAIN o : o[k] = r[i]
<1> DEFINE all == r \o new
           s == SortByScore(all)
           o == First(s)
<1>1. /\ all \in Seq(Candidate) /\ Len(all) = Len(r) + Len(new)
      /\ \A i \in DOMAIN r : i \in DOMAIN all /\ all[i] = r[i]
      /\ \A i \in DOMAIN all : \/ i \in DOMAIN r /\ all[i] = r[i]
                               \/ /\ i - Len(r) \in DOMAIN new /\ i > Len(r)
                                  /\ all[i] = new[i - Len(r)]
  BY ConcatIs
<1> HIDE DEF all
<1>2. Distinct(all)
  <2>1. SUFFICES ASSUME NEW i \in DOMAIN all, NEW j \in DOMAIN all, all[i].file = all[j].file
                 PROVE  i = j
    BY DEF Distinct
  <2>2. i \in Nat /\ j \in Nat /\ Len(r) \in Nat
    BY <1>1
  <2>3. CASE i \in DOMAIN r /\ j \in DOMAIN r
    BY <1>1, <2>1, <2>3 DEF Distinct
  <2>4. CASE i \notin DOMAIN r /\ j \notin DOMAIN r
    <3>1. i - Len(r) = j - Len(r)
      BY <1>1, <2>1, <2>4 DEF Distinct
    <3>2. QED
      BY <2>2, <3>1
  <2>5. CASE i \in DOMAIN r /\ j \notin DOMAIN r
    BY <1>1, <2>1, <2>5
  <2>6. CASE i \notin DOMAIN r /\ j \in DOMAIN r
    BY <1>1, <2>1, <2>6
  <2>7. QED
    BY <2>3, <2>4, <2>5, <2>6
<1> HIDE DEF s
<1>3. /\ s \in Seq(Candidate) /\ Sorted(s) /\ Distinct(s)
      /\ \A k \in DOMAIN s : \E j \in DOMAIN all : s[k] = all[j]
      /\ Len(s) = Len(all)
      /\ \A j \in DOMAIN all : /\ 1 + Cardinality(Ahead(all, j)) \in DOMAIN all
                               /\ s[1 + Cardinality(Ahead(all, j))] = all[j]
  BY <1>1, <1>2, SortedIs DEF s
<1>4. /\ o \in Seq(Candidate) /\ Len(o) <= n
      /\ Len(o) = n \/ Len(o) = Len(s)
      /\ \A i \in DOMAIN o : i \in DOMAIN s /\ o[i] = s[i]
  BY <1>3, FirstIs
<1>5. Sorted(o) /\ Distinct(o)
  BY <1>3, FirstKeeps
<1>6. \A k \in DOMAIN o : \/ \E i \in DOMAIN r : o[k] = r[i]
                          \/ \E j \in DOMAIN new : o[k] = new[j]
  <2>1. TAKE k \in DOMAIN o
  <2>2. PICK j \in DOMAIN all : o[k] = all[j]
    BY <1>3, <1>4
  <2>3. QED
    BY <1>1, <2>2
<1> HIDE DEF o
<1>7. ASSUME NEW i \in DOMAIN r PROVE \E k \in DOMAIN o : o[k] = r[i]
  <2> DEFINE A == Ahead(all, i)
             k == 1 + Cardinality(A)
  <2>1. i \in DOMAIN all /\ all[i] = r[i] /\ k \in DOMAIN all /\ s[k] = r[i]
    BY <1>1, <1>3
  <2>2. A \subseteq (1..Len(r)) \ {i}
    <3>1. SUFFICES ASSUME NEW j \in A PROVE j \in 1..Len(r) /\ j # i
      OBVIOUS
    <3>2. j \in DOMAIN all /\ (all[j].score > all[i].score \/ (all[j].score = all[i].score /\ j < i))
      BY DEF Ahead
    <3>3. all[j].score \in Nat /\ all[i].score \in Nat /\ i \in Nat
      <4>1. all[j] \in Candidate /\ all[i] \in Candidate /\ i \in Nat
        BY <1>1, <2>1, <3>2
      <4>2. QED
        BY <4>1 DEF Candidate
    <3>4. j # i
      BY <3>2, <3>3
    <3>5. CASE j \in DOMAIN r
      BY <3>4, <3>5
    <3>6. CASE j \notin DOMAIN r
      <4>1. all[i].score > all[j].score /\ j > Len(r)
        BY <1>1, <2>1, <3>2, <3>6
      <4>2. ~(j < i)
        <5>1. i <= Len(r) /\ Len(r) \in Nat /\ j \in Nat
          BY <1>1, <3>2
        <5>2. QED
          BY <3>3, <4>1, <5>1
      <4>3. QED
        BY <3>2, <3>3, <4>1, <4>2
    <3>7. QED
      BY <3>5, <3>6
  <2>3. Cardinality(A) \in Nat /\ Cardinality(A) <= Len(r) - 1
    <3>1. Len(r) \in Nat /\ i \in 1..Len(r)
      OBVIOUS
    <3>2. IsFiniteSet(1..Len(r)) /\ Cardinality(1..Len(r)) = Len(r)
      BY <3>1, FirstNumbers
    <3>3. /\ IsFiniteSet((1..Len(r)) \ {i})
          /\ Cardinality((1..Len(r)) \ {i}) = Len(r) - 1
      BY <3>1, <3>2, FS_RemoveElement
    <3> HIDE DEF A
    <3>4. IsFiniteSet(A) /\ Cardinality(A) <= Cardinality((1..Len(r)) \ {i})
      BY <2>2, <3>3, FS_Subset
    <3>5. QED
      BY <3>3, <3>4, FS_CardinalityType
  <2> HIDE DEF A
  <2>4. k \in DOMAIN o
    <3>1. Len(o) \in Nat /\ DOMAIN o = 1..Len(o) /\ Len(r) \in Nat /\ Len(all) \in Nat
      BY <1>1, <1>4
    <3>2. k \in Nat /\ k >= 1 /\ k <= Len(r) /\ k <= Len(all)
      BY <1>1, <2>1, <2>3, <3>1
    <3>3. Len(o) = n \/ Len(o) = Len(all)
      BY <1>3, <1>4
    <3>4. \A a, b, c, d \in Nat : a <= b /\ a <= c /\ b <= n /\ (d = n \/ d = c) => a <= d
      OBVIOUS
    <3> HIDE DEF k
    <3>5. k <= Len(o)
      BY <3>1, <3>2, <3>3, <3>4
    <3>6. QED
      BY <3>1, <3>2, <3>5
  <2>5. QED
    BY <1>4, <2>1, <2>4
<1>8. QED
  BY <1>4, <1>5, <1>6, <1>7 DEF o, s, all

-----------------------------------------------------------------------------
(* The walk *)

\* The input stays what it was.
InputOK ==
    /\ n \in Nat \ {0} /\ graph \subseteq File \X File /\ scanned \subseteq File
    /\ changed \subseteq File /\ active \in File /\ exists \subseteq File

\* Scores that can be lowered twice and still differ.
Passing == \A i \in DOMAIN queue : queue[i].score >= 18
Walked  == \A i \in DOMAIN visited : visited[i].score >= 18

\* Nothing is done before the seeds are found; the walk stops when it is full.
Begun  == pc = "seed" => queue = <<>> /\ visited = <<>> /\ walked = {} /\ results = <<>>
NotCut == queue # <<>> => Len(visited) < 2 * n

\* What the walk starts with.
LEMMA SeedsAre ==
    ASSUME InputOK
    PROVE  /\ Seeds \in Seq(Candidate)
           /\ \A i \in DOMAIN Seeds :
                  \/ Seeds[i].file \in changed /\ Seeds[i].score = 2 * Unit
                  \/ Seeds[i].file = active /\ Seeds[i].score = (3 * Unit) \div 2
           /\ Distinct(Seeds)
           /\ active \in exists =>
                  \E i \in DOMAIN Seeds :
                      /\ Seeds[i].file = active /\ Seeds[i].score >= (3 * Unit) \div 2
                      /\ \A j \in 1..i - 1 : Seeds[j].file \in changed
<1> DEFINE diff == changed \intersect exists
           rest == IF diff = {} /\ active \in Known THEN {active}
                   ELSE ({active} \intersect exists) \ diff
           d == Scored(diff, 2 * Unit)
           r == Scored(rest, (3 * Unit) \div 2)
<1>1. /\ diff \in SUBSET File /\ rest \in SUBSET File /\ diff \subseteq changed
      /\ rest \subseteq {active} /\ diff \intersect rest = {}
      /\ active \in exists => active \in diff \/ active \in rest
  BY DEF InputOK
<1>2. 2 * Unit \in Nat /\ (3 * Unit) \div 2 \in Nat /\ 2 * Unit >= (3 * Unit) \div 2
  BY DEF Unit
<1>3. Seeds = d \o r
  BY DEF Seeds
<1> HIDE DEF diff, rest
<1>4. /\ d \in Seq(Candidate) /\ FilesOf(d) = diff /\ Distinct(d)
      /\ \A i \in DOMAIN d : d[i].score = 2 * Unit /\ d[i].file \in diff
  BY <1>1, <1>2, ScoredIs
<1>5. /\ r \in Seq(Candidate) /\ FilesOf(r) = rest /\ Distinct(r)
      /\ \A i \in DOMAIN r : r[i].score = (3 * Unit) \div 2 /\ r[i].file \in rest
  <2> DEFINE h == (3 * Unit) \div 2
             w == Scored(rest, h)
  <2>1. h \in Nat
    BY <1>2
  <2> HIDE DEF h
  <2>2. /\ w \in Seq(Candidate) /\ FilesOf(w) = rest /\ Distinct(w)
        /\ \A i \in DOMAIN w : w[i].score = h /\ w[i].file \in rest
    BY <1>1, <2>1, ScoredIs
  <2> HIDE DEF w
  <2>3. r = w
    BY DEF w, h
  <2>4. QED
    BY <2>2, <2>3 DEF h
<1> HIDE DEF d, r
<1>6. /\ d \o r \in Seq(Candidate)
      /\ \A i \in DOMAIN d : i \in DOMAIN (d \o r) /\ (d \o r)[i] = d[i]
      /\ \A i \in DOMAIN r : Len(d) + i \in DOMAIN (d \o r) /\ (d \o r)[Len(d) + i] = r[i]
      /\ \A i \in DOMAIN (d \o r) :
             \/ i \in DOMAIN d /\ (d \o r)[i] = d[i]
             \/ /\ i - Len(d) \in DOMAIN r /\ i > Len(d)
                /\ (d \o r)[i] = r[i - Len(d)]
  BY <1>4, <1>5, ConcatIs
<1>7. \A i \in DOMAIN Seeds :
          \/ Seeds[i].file \in changed /\ Seeds[i].score = 2 * Unit
          \/ Seeds[i].file = active /\ Seeds[i].score = (3 * Unit) \div 2
  BY <1>1, <1>3, <1>4, <1>5, <1>6
<1>8. Len(d) \in Nat /\ DOMAIN d = 1..Len(d)
  BY <1>4
<1>9. Distinct(Seeds)
  <2>1. Len(r) \in Nat /\ DOMAIN r = 1..Len(r)
    BY <1>5
  <2>2. SUFFICES ASSUME NEW i \in DOMAIN Seeds, NEW j \in DOMAIN Seeds,
                        Seeds[i].file = Seeds[j].file
                 PROVE  i = j
    BY DEF Distinct
  <2>3. /\ \/ i \in DOMAIN d /\ Seeds[i] = d[i]
           \/ i - Len(d) \in DOMAIN r /\ Seeds[i] = r[i - Len(d)]
        /\ \/ j \in DOMAIN d /\ Seeds[j] = d[j]
           \/ j - Len(d) \in DOMAIN r /\ Seeds[j] = r[j - Len(d)]
    BY <1>3, <1>6
  <2>4. CASE i \in DOMAIN d /\ Seeds[i] = d[i] /\ j \in DOMAIN d /\ Seeds[j] = d[j]
    BY <1>4, <2>2, <2>4 DEF Distinct
  <2>5. CASE /\ i - Len(d) \in DOMAIN r /\ Seeds[i] = r[i - Len(d)]
             /\ j - Len(d) \in DOMAIN r /\ Seeds[j] = r[j - Len(d)]
    <3>1. i - Len(d) = j - Len(d)
      BY <1>5, <2>2, <2>5 DEF Distinct
    <3>2. i \in Nat /\ j \in Nat
      BY <1>3, <1>6
    <3>3. QED
      BY <1>8, <3>1, <3>2
  <2>6. QED
    BY <1>1, <1>4, <1>5, <2>2, <2>3, <2>4, <2>5
<1>10. ASSUME active \in diff
      PROVE  \E i \in DOMAIN Seeds :
                 /\ Seeds[i].file = active /\ Seeds[i].score >= (3 * Unit) \div 2
                 /\ \A j \in 1..i - 1 : Seeds[j].file \in changed
  <2>1. PICK i \in DOMAIN d : d[i].file = active
    BY <1>4, <1>10 DEF FilesOf
  <2>2. \A j \in 1..i - 1 : j \in DOMAIN d
    BY <1>8
  <2>3. i \in DOMAIN Seeds /\ Seeds[i] = d[i] /\ \A j \in 1..i - 1 : Seeds[j] = d[j]
    BY <1>3, <1>6, <2>2
  <2>4. Seeds[i].file = active /\ Seeds[i].score >= (3 * Unit) \div 2
    BY <1>2, <1>4, <2>1, <2>3
  <2>5. \A j \in 1..i - 1 : Seeds[j].file \in changed
    BY <1>1, <1>4, <2>2, <2>3
  <2>6. QED
    BY <2>3, <2>4, <2>5
<1>11. ASSUME active \in rest
       PROVE  \E i \in DOMAIN Seeds :
                  /\ Seeds[i].file = active /\ Seeds[i].score >= (3 * Unit) \div 2
                  /\ \A j \in 1..i - 1 : Seeds[j].file \in changed
  <2>1. 1 \in DOMAIN r
    <3>1. PICK i \in DOMAIN r : r[i].file = active
      BY <1>5, <1>11 DEF FilesOf
    <3>2. QED
      BY <1>5, <3>1
  <2>2. r[1].file = active /\ r[1].score = (3 * Unit) \div 2
    BY <1>1, <1>5, <2>1
  <2> DEFINE i == Len(d) + 1
  <2>3. i \in DOMAIN Seeds /\ Seeds[i] = r[1]
    BY <1>3, <1>6, <2>1
  <2>4. \A j \in 1..i - 1 : j \in DOMAIN d
    BY <1>8
  <2>5. \A j \in 1..i - 1 : Seeds[j].file \in changed
    BY <1>1, <1>3, <1>4, <1>6, <2>4
  <2>6. Seeds[i].file = active /\ Seeds[i].score >= (3 * Unit) \div 2
    BY <1>2, <2>2, <2>3
  <2> HIDE DEF i
  <2>7. QED
    BY <2>3, <2>5, <2>6
<1>12. QED
  BY <1>1, <1>3, <1>6, <1>7, <1>10, <1>11, <1>9

\* The same of a list in any order.
LEMMA ListedIs ==
    ASSUME NEW S \in SUBSET File, NEW score \in Nat, NEW c \in Listed(S, score)
    PROVE  /\ c \in Seq(Candidate)
           /\ Distinct(c)
           /\ FilesOf(c) = S
           /\ \A i \in DOMAIN c : c[i].score = score /\ c[i].file \in S
<1> DEFINE size == Cardinality(S)
           s    == [i \in 1..size |-> c[i].file]
<1>1. IsFiniteSet(S) /\ size \in Nat
  <2>1. IsFiniteSet(File)
    BY ConstantsAssumption, FS_Interval DEF File
  <2>2. QED
    BY <2>1, FS_Subset, FS_CardinalityType
<1>2. c \in [1..size -> [file : S, score : {score}]] /\ Distinct(c)
  BY DEF Listed
<1>3. Cardinality(1..size) = size
  <2>1. size >= 1 \/ size = 0
    BY <1>1
  <2> HIDE DEF size
  <2>2. QED
    BY <1>1, <2>1, FS_Interval
<1> HIDE DEF size
<1>4. \A i \in 1..size : c[i] \in Candidate /\ c[i].score = score /\ c[i].file \in S
  BY <1>2 DEF Candidate
<1>5. DOMAIN c = 1..size /\ c \in Seq(Candidate)
  BY <1>1, <1>2, <1>4
<1>6. s \in Injection(1..size, S)
  BY <1>2, <1>4, <1>5 DEF Injection, IsInjective, Distinct
<1>7. s \in Surjection(1..size, S)
  BY <1>1, <1>3, <1>6, FS_Injection DEF size
<1>8. FilesOf(c) = S
  BY <1>4, <1>5, <1>7 DEF Surjection, FilesOf
<1>9. QED
  BY <1>2, <1>4, <1>5, <1>8

LEMMA JoinedOf ==
    \A X, Y : \A o \in {p[1] \o p[2] : p \in X \X Y} : \E a \in X, b \in Y : o = a \o b
OBVIOUS

\* What the walk reaches from a file.
LEMMA NeighborsAre ==
    ASSUME InputOK, NEW f \in File, NEW score \in Nat, NEW seen,
           NEW o \in Neighbors(f, score, seen)
    PROVE  /\ o \in Seq(Candidate)
           /\ \A i \in DOMAIN o : /\ o[i].score <= Passed(score)
                                  /\ Passed(score) >= 20 => o[i].score >= 18
<1>1. Passed(score) \in Nat
  BY PassedOn
<1>2. /\ Back(Passed(score)) \in Nat /\ Back(Passed(score)) <= Passed(score)
      /\ Passed(score) >= 20 => Back(Passed(score)) >= 18
  BY <1>1, PassedOn
<1>3. Imports(f) \ seen \in SUBSET File /\ ImportedBy(f) \ seen \in SUBSET File
  BY DEF Imports, ImportedBy
<1> DEFINE A == Listed(Imports(f) \ seen, Passed(score))
           B == Listed(ImportedBy(f) \ seen, Back(Passed(score)))
<1>4. o \in {p[1] \o p[2] : p \in A \X B}
  BY DEF Neighbors
<1> HIDE DEF A, B
<1>5. PICK a \in A, b \in B : o = a \o b
  BY ONLY <1>4, JoinedOf
<1> USE DEF A, B
<1>6. a \in Seq(Candidate) /\ \A i \in DOMAIN a : a[i].score = Passed(score)
  BY <1>1, <1>3, ListedIs
<1>7. b \in Seq(Candidate) /\ \A i \in DOMAIN b : b[i].score = Back(Passed(score))
  BY <1>2, <1>3, ListedIs
<1>8. /\ a \o b \in Seq(Candidate)
      /\ \A i \in DOMAIN (a \o b) :
             \/ i \in DOMAIN a /\ (a \o b)[i] = a[i]
             \/ i - Len(a) \in DOMAIN b /\ (a \o b)[i] = b[i - Len(a)]
  BY <1>6, <1>7, ConcatIs
<1>9. \A i \in DOMAIN (a \o b) : /\ (a \o b)[i].score <= Passed(score)
                                 /\ Passed(score) >= 20 => (a \o b)[i].score >= 18
  <2>1. \A i \in DOMAIN (a \o b) : \/ (a \o b)[i].score = Passed(score)
                                   \/ (a \o b)[i].score = Back(Passed(score))
    BY <1>6, <1>7, <1>8
  <2>2. QED
    BY <1>1, <1>2, <2>1
<1>10. QED
  BY <1>5, <1>8, <1>9

\* A file found again keeps its place and its higher score.
LEMMA RaiseIs ==
    ASSUME NEW v \in Seq(Candidate), NEW c \in Candidate
    PROVE  /\ Raise(v, c) \in Seq(Candidate)
           /\ DOMAIN Raise(v, c) = DOMAIN v /\ Len(Raise(v, c)) = Len(v)
           /\ \A i \in DOMAIN v :
                  /\ Raise(v, c)[i].file = v[i].file
                  /\ Raise(v, c)[i].score >= v[i].score
                  /\ c.file = v[i].file => Raise(v, c)[i].score >= c.score
                  /\ \/ Raise(v, c)[i] = v[i]
                     \/ c.file = v[i].file /\ Raise(v, c)[i] = c
<1> DEFINE o == Raise(v, c)
<1>1. o = [i \in DOMAIN v |-> IF v[i].file = c.file /\ c.score > v[i].score THEN c ELSE v[i]]
  BY DEF Raise
<1>2. Len(v) \in Nat /\ DOMAIN v = 1..Len(v)
  OBVIOUS
<1>3. \A i \in DOMAIN v : v[i] \in Candidate
  OBVIOUS
<1>4. \A i \in DOMAIN v : v[i].score \in Nat
  BY <1>3 DEF Candidate
<1>5. c.score \in Nat
  BY DEF Candidate
<1>6. o \in Seq(Candidate) /\ DOMAIN o = DOMAIN v /\ Len(o) = Len(v)
  <2>1. o \in [1..Len(v) -> Candidate]
    BY <1>1, <1>2, <1>3
  <2>2. QED
    BY <1>2, <2>1
<1>7. \A i \in DOMAIN v :
          o[i] = IF v[i].file = c.file /\ c.score > v[i].score THEN c ELSE v[i]
  BY <1>1
<1>8. \A i \in DOMAIN v : /\ o[i].file = v[i].file
                          /\ \/ o[i] = v[i]
                             \/ c.file = v[i].file /\ o[i] = c
  BY <1>7
<1>9. \A i \in DOMAIN v : /\ o[i].score >= v[i].score
                          /\ c.file = v[i].file => o[i].score >= c.score
  BY <1>4, <1>5, <1>7
<1>10. QED
  BY <1>6, <1>8, <1>9

\* The first of a queue and the rest.
LEMMA QueueIs ==
    ASSUME NEW q \in Seq(Candidate), q # <<>>
    PROVE  /\ Head(q) \in Candidate /\ Head(q) = q[1] /\ 1 \in DOMAIN q
           /\ Tail(q) \in Seq(Candidate) /\ Len(Tail(q)) = Len(q) - 1
           /\ \A i \in DOMAIN Tail(q) : i + 1 \in DOMAIN q /\ Tail(q)[i] = q[i + 1]
           /\ \A i \in DOMAIN q : i > 1 => i - 1 \in DOMAIN Tail(q) /\ Tail(q)[i - 1] = q[i]
OBVIOUS

LEMMA AppendIs ==
    ASSUME NEW v \in Seq(Candidate), NEW c \in Candidate
    PROVE  /\ Append(v, c) \in Seq(Candidate) /\ Len(Append(v, c)) = Len(v) + 1
           /\ Len(v) + 1 \in DOMAIN Append(v, c) /\ Append(v, c)[Len(v) + 1] = c
           /\ \A i \in DOMAIN v : i \in DOMAIN Append(v, c) /\ Append(v, c)[i] = v[i]
           /\ \A i \in DOMAIN Append(v, c) :
                  \/ i \in DOMAIN v /\ Append(v, c)[i] = v[i]
                  \/ i = Len(v) + 1 /\ Append(v, c)[i] = c
OBVIOUS

\* Every step is one of seven; each leaves the input alone.
LEMMA StepKinds ==
    ASSUME [Next]_vars
    PROVE  \/ Seed \/ VisitAgain \/ Visit \/ EndWalk
           \/ \E S \in Matches : Inject(S)
           \/ \E b \in Bm25Answers : QueryIfSparse(b)
           \/ \E m \in Multipliers : Multiply(m)
           \/ UNCHANGED vars
BY DEF Next

LEMMA InputKept == InputOK /\ [Next]_vars => InputOK'
<1>1. ASSUME InputOK, UNCHANGED input PROVE InputOK'
  BY <1>1 DEF InputOK, input
<1>2. ASSUME [Next]_vars PROVE UNCHANGED input
  <2>1. CASE Seed
    BY <2>1 DEF Seed
  <2>2. CASE VisitAgain
    BY <2>2 DEF VisitAgain
  <2>3. CASE Visit
    BY <2>3 DEF Visit
  <2>4. CASE EndWalk
    BY <2>4 DEF EndWalk
  <2>5. CASE \E S \in Matches : Inject(S)
    BY <2>5 DEF Inject
  <2>6. CASE \E b \in Bm25Answers : QueryIfSparse(b)
    BY <2>6 DEF QueryIfSparse
  <2>7. CASE \E m \in Multipliers : Multiply(m)
    BY <2>7 DEF Multiply
  <2>8. CASE UNCHANGED vars
    BY <2>8 DEF vars
  <2>9. QED
    BY <1>2, <2>1, <2>2, <2>3, <2>4, <2>5, <2>6, <2>7, <2>8, StepKinds
<1>3. QED
  BY <1>1, <1>2

\* What the walk's own steps keep.
WalkOK ==
    /\ queue \in Seq(Candidate)
    /\ visited \in Seq(Candidate) /\ Distinct(visited) /\ Len(visited) <= 2 * n
    /\ NotCut /\ Passing /\ Walked

LEMMA AgainStep ==
    ASSUME InputOK, WalkOK, VisitAgain
    PROVE  /\ WalkOK' /\ FilesOf(visited') = FilesOf(visited)
           /\ Current \in Candidate /\ visited' = Raise(visited, Current)
           /\ queue' = Tail(queue) /\ queue # <<>> /\ Current = queue[1]
<1>1. /\ queue \in Seq(Candidate) /\ queue # <<>> /\ visited \in Seq(Candidate)
      /\ visited' = Raise(visited, Current) /\ queue' = Tail(queue) /\ n' = n
  BY DEF WalkOK, VisitAgain, input
<1>2. /\ Current \in Candidate /\ Current = queue[1] /\ 1 \in DOMAIN queue
      /\ queue' \in Seq(Candidate)
      /\ \A i \in DOMAIN queue' : i + 1 \in DOMAIN queue /\ queue'[i] = queue[i + 1]
  BY <1>1, QueueIs DEF Current
<1>3. /\ visited' \in Seq(Candidate)
      /\ DOMAIN visited' = DOMAIN visited /\ Len(visited') = Len(visited)
      /\ \A i \in DOMAIN visited :
             /\ visited'[i].file = visited[i].file
             /\ \/ visited'[i] = visited[i]
                \/ visited'[i] = Current
  BY <1>1, <1>2, RaiseIs
<1>4. FilesOf(visited') = FilesOf(visited)
  BY <1>3 DEF FilesOf
<1>5. Distinct(visited')
  BY <1>3 DEF WalkOK, Distinct
<1>6. Passing'
  BY <1>2 DEF WalkOK, Passing
<1>7. Walked'
  BY <1>2, <1>3 DEF WalkOK, Passing, Walked
<1>8. NotCut' /\ Len(visited') <= 2 * n'
  BY <1>1, <1>3 DEF WalkOK, NotCut
<1>9. WalkOK'
  BY <1>2, <1>3, <1>5, <1>6, <1>7, <1>8 DEF WalkOK
<1>10. QED
  BY <1>1, <1>2, <1>4, <1>9

LEMMA VisitStep ==
    ASSUME InputOK, WalkOK, Visit
    PROVE  /\ WalkOK' /\ FilesOf(visited') = FilesOf(visited) \union {Current.file}
           /\ Current \in Candidate /\ visited' = Append(visited, Current)
           /\ queue # <<>> /\ Current = queue[1] /\ Current.file \in File
           /\ \/ Full(visited') /\ queue' = <<>>
              \/ /\ ~Full(visited')
                 /\ \E new \in Seq(Candidate) :
                        /\ queue' = Tail(queue) \o new
                        /\ \A i \in DOMAIN new : new[i].score <= Passed(Current.score)
<1>1. /\ queue \in Seq(Candidate) /\ queue # <<>> /\ visited \in Seq(Candidate)
      /\ Current.file \notin Visited
      /\ visited' = Append(visited, Current) /\ n' = n /\ n \in Nat
  BY DEF WalkOK, InputOK, Visit, input
<1>2. /\ Current \in Candidate /\ Current = queue[1] /\ 1 \in DOMAIN queue
      /\ Tail(queue) \in Seq(Candidate)
      /\ \A i \in DOMAIN Tail(queue) : i + 1 \in DOMAIN queue /\ Tail(queue)[i] = queue[i + 1]
  BY <1>1, QueueIs DEF Current
<1>3. Current.file \in File /\ Current.score \in Nat
  BY <1>2 DEF Candidate
<1>4. /\ visited' \in Seq(Candidate) /\ Len(visited') = Len(visited) + 1
      /\ Len(visited) + 1 \in DOMAIN visited' /\ visited'[Len(visited) + 1] = Current
      /\ \A i \in DOMAIN visited : i \in DOMAIN visited' /\ visited'[i] = visited[i]
      /\ \A i \in DOMAIN visited' : \/ i \in DOMAIN visited /\ visited'[i] = visited[i]
                                    \/ i = Len(visited) + 1 /\ visited'[i] = Current
  BY <1>1, <1>2, AppendIs
<1>5. FilesOf(visited') = FilesOf(visited) \union {Current.file}
  BY <1>4 DEF FilesOf
<1>6. Distinct(visited')
  <2>1. \A i \in DOMAIN visited : visited[i].file # Current.file
    BY <1>1 DEF Visited, FilesOf
  <2>2. QED
    BY <1>4, <2>1 DEF WalkOK, Distinct
<1>7. Len(visited') <= 2 * n
  <2>1. Len(visited) \in Nat /\ Len(visited) < 2 * n
    BY <1>1 DEF WalkOK, NotCut
  <2>2. QED
    BY <1>1, <1>4, <2>1
<1>8. Walked'
  BY <1>2, <1>4 DEF WalkOK, Passing, Walked
<1>9. \A i \in DOMAIN Tail(queue) : Tail(queue)[i].score >= 18
  BY <1>2 DEF WalkOK, Passing
<1>10. \/ Full(visited') /\ queue' = <<>>
       \/ /\ ~Full(visited')
          /\ \E new \in Seq(Candidate) :
                 /\ queue' = Tail(queue) \o new
                 /\ \A i \in DOMAIN new : /\ new[i].score <= Passed(Current.score)
                                          /\ new[i].score >= 18
  <2>1. CASE Full(visited') /\ queue' = <<>>
    BY <2>1
  <2>2. CASE ~Full(visited') /\ queue' = Tail(queue)
    <3>1. queue' = Tail(queue) \o <<>>
      BY <1>2, <2>2, ConcatEmptySeq
    <3> DEFINE new == <<>>
    <3>2. /\ new \in Seq(Candidate)
          /\ \A i \in DOMAIN new : /\ new[i].score <= Passed(Current.score)
                                   /\ new[i].score >= 18
      OBVIOUS
    <3>3. queue' = Tail(queue) \o new
      BY <3>1
    <3> HIDE DEF new
    <3>4. QED
      BY <2>2, <3>2, <3>3
  <2>3. CASE /\ ~Full(visited') /\ Passed(Current.score) >= Floor
             /\ \E new \in Neighbors(Current.file, Current.score,
                                     Visited \union {Current.file}) :
                    queue' = Tail(queue) \o new
    <3>1. PICK new \in Neighbors(Current.file, Current.score, Visited \union {Current.file}) :
               queue' = Tail(queue) \o new
      BY <2>3
    <3>2. Passed(Current.score) >= 20
      <4>1. Passed(Current.score) \in Nat /\ Floor \in Nat /\ Floor >= 20
        BY <1>3, PassedOn, ConstantsAssumption
      <4>2. QED
        BY <2>3, <4>1
    <3>3. /\ new \in Seq(Candidate)
          /\ \A i \in DOMAIN new : /\ new[i].score <= Passed(Current.score)
                                   /\ Passed(Current.score) >= 20 => new[i].score >= 18
      BY <1>3, NeighborsAre
    <3>4. QED
      BY <2>3, <3>2, <3>3, <3>1
  <2>4. QED
    BY <2>1, <2>2, <2>3 DEF Visit
<1>11. queue' \in Seq(Candidate) /\ Passing' /\ NotCut'
  <2>1. CASE Full(visited') /\ queue' = <<>>
    BY <2>1 DEF Passing, NotCut
  <2>2. ASSUME NEW new \in Seq(Candidate), ~Full(visited'), queue' = Tail(queue) \o new,
               \A i \in DOMAIN new : new[i].score >= 18
        PROVE  queue' \in Seq(Candidate) /\ Passing' /\ NotCut'
    <3>1. /\ queue' \in Seq(Candidate)
          /\ \A i \in DOMAIN queue' :
                 \/ i \in DOMAIN Tail(queue) /\ queue'[i] = Tail(queue)[i]
                 \/ /\ i - Len(Tail(queue)) \in DOMAIN new /\ i > Len(Tail(queue))
                    /\ queue'[i] = new[i - Len(Tail(queue))]
      BY <1>2, <2>2, ConcatIs
    <3>2. Passing'
      BY <1>9, <2>2, <3>1 DEF Passing
    <3>3. NotCut'
      <4>1. Len(visited') \in Nat
        BY <1>4
      <4>2. QED
        BY <1>1, <2>2, <4>1 DEF Full, NotCut
    <3>4. QED
      BY <3>1, <3>2, <3>3
  <2>3. QED
    BY <1>10, <2>1, <2>2
<1>12. WalkOK'
  BY <1>1, <1>4, <1>6, <1>7, <1>8, <1>11 DEF WalkOK
<1>13. QED
  BY <1>1, <1>2, <1>3, <1>5, <1>10, <1>12

LEMMA SeedStep ==
    ASSUME InputOK, WalkOK, Begun, Seed
    PROVE  /\ WalkOK' /\ queue' = Seeds /\ visited' = <<>> /\ walked' = {} /\ results' = <<>>
           /\ pc' = IF Seeds = <<>> THEN "bm25" ELSE "walk"
<1>1. /\ queue' = Seeds /\ visited' = <<>> /\ walked' = {} /\ results' = <<>> /\ n' = n
      /\ pc' = IF Seeds = <<>> THEN "bm25" ELSE "walk"
  BY DEF Begun, Seed, input
<1>2. /\ Seeds \in Seq(Candidate)
      /\ \A i \in DOMAIN Seeds : \/ Seeds[i].score = 2 * Unit
                                 \/ Seeds[i].score = (3 * Unit) \div 2
  BY SeedsAre
<1>3. 2 * Unit >= 18 /\ (3 * Unit) \div 2 >= 18
  BY DEF Unit
<1>4. Passing'
  BY <1>1, <1>2, <1>3 DEF Passing
<1>5. visited' \in Seq(Candidate) /\ Distinct(visited') /\ Walked' /\ Len(visited') = 0
  BY <1>1 DEF Distinct, Walked
<1>6. Len(visited') <= 2 * n' /\ NotCut'
  <2>1. n \in Nat \ {0}
    BY DEF InputOK
  <2>2. 0 < 2 * n /\ 0 <= 2 * n
    BY <2>1
  <2>3. QED
    BY <1>1, <1>5, <2>2 DEF NotCut
<1>7. WalkOK'
  BY <1>1, <1>2, <1>4, <1>5, <1>6 DEF WalkOK
<1>8. QED
  BY <1>1, <1>7

-----------------------------------------------------------------------------
(* What is not found over edges *)

\* The active file is in the list; only changed files can come before it.
Top(r) == \E i \in DOMAIN r :
    /\ r[i].file = active
    /\ \A j \in DOMAIN r : j # i /\ r[j].score >= r[i].score => r[j].file \in changed

LEMMA TopKept ==
    ASSUME NEW r \in Seq(Candidate), NEW new \in Seq(Candidate), NEW o \in Seq(Candidate),
           Distinct(o),
           \A k \in DOMAIN o : \/ \E i \in DOMAIN r : o[k] = r[i]
                               \/ \E j \in DOMAIN new : o[k] = new[j],
           \A i \in DOMAIN r : \E k \in DOMAIN o : o[k] = r[i],
           \A i \in DOMAIN r, j \in DOMAIN new : r[i].score > new[j].score,
           Top(r)
    PROVE  Top(o)
<1>1. PICK i \in DOMAIN r :
          /\ r[i].file = active
          /\ \A j \in DOMAIN r : j # i /\ r[j].score >= r[i].score => r[j].file \in changed
  BY DEF Top
<1>2. PICK k \in DOMAIN o : o[k] = r[i]
  OBVIOUS
<1>3. ASSUME NEW l \in DOMAIN o, l # k, o[l].score >= o[k].score
      PROVE  o[l].file \in changed
  <2>1. r[i].score \in Nat /\ o[l].score \in Nat
    <3>1. r[i] \in Candidate /\ o[l] \in Candidate
      OBVIOUS
    <3>2. QED
      BY <3>1 DEF Candidate
  <2>2. CASE \E a \in DOMAIN r : o[l] = r[a]
    <3>1. PICK a \in DOMAIN r : o[l] = r[a]
      BY <2>2
    <3>2. a # i
      BY <1>2, <1>3, <3>1 DEF Distinct
    <3>3. QED
      BY <1>1, <1>2, <1>3, <3>1, <3>2
  <2>3. CASE \E b \in DOMAIN new : o[l] = new[b]
    <3>1. r[i].score > o[l].score
      BY <2>3
    <3>2. QED
      BY <1>2, <1>3, <2>1, <3>1
  <2>4. QED
    BY <2>2, <2>3
<1>4. QED
  BY <1>1, <1>2, <1>3 DEF Top

\* What the ranking is, whatever brought its files.
RankedOK ==
    /\ results \in Seq(Candidate) /\ Len(results) <= n
    /\ Distinct(results) /\ Sorted(results)
    /\ walked \subseteq FilesOf(results)
    /\ \A i, j \in DOMAIN results :
           results[i].file \in walked /\ results[j].file \notin walked =>
               results[i].score > results[j].score

\* Files that score less than all there is are taken in while there is room.
LEMMA Grown ==
    ASSUME InputOK, RankedOK, NEW new \in Seq(Candidate), Distinct(new),
           \A i \in DOMAIN results, j \in DOMAIN new :
               /\ results[i].file # new[j].file
               /\ results[i].score > new[j].score,
           results' = First(SortByScore(results \o new)),
           UNCHANGED <<input, walked>>
    PROVE  /\ RankedOK'
           /\ \A k \in DOMAIN results' : \/ \E i \in DOMAIN results : results'[k] = results[i]
                                         \/ \E j \in DOMAIN new : results'[k] = new[j]
           /\ Top(results) => Top(results')
<1> DEFINE r == results
           o == results'
<1>1. n \in Nat /\ r \in Seq(Candidate) /\ Len(r) <= n /\ Distinct(r)
  BY DEF InputOK, RankedOK
<1>2. /\ o \in Seq(Candidate) /\ Len(o) <= n
      /\ Sorted(o) /\ Distinct(o)
      /\ \A k \in DOMAIN o : \/ \E i \in DOMAIN r : o[k] = r[i]
                             \/ \E j \in DOMAIN new : o[k] = new[j]
      /\ \A i \in DOMAIN r : \E k \in DOMAIN o : o[k] = r[i]
  <2> HIDE DEF o
  <2>1. LET e == First(SortByScore(r \o new)) IN
        /\ e \in Seq(Candidate) /\ Len(e) <= n
        /\ Sorted(e) /\ Distinct(e)
        /\ \A k \in DOMAIN e : \/ \E i \in DOMAIN r : e[k] = r[i]
                               \/ \E j \in DOMAIN new : e[k] = new[j]
        /\ \A i \in DOMAIN r : \E k \in DOMAIN e : e[k] = r[i]
    BY <1>1, Extended
  <2>2. o = First(SortByScore(r \o new))
    BY DEF o
  <2>3. QED
    BY <2>1, <2>2
<1>3. n' = n /\ walked' = walked
  BY DEF input
<1>4. walked \subseteq FilesOf(o)
  <2>1. FilesOf(r) \subseteq FilesOf(o)
    BY <1>2 DEF FilesOf
  <2>2. QED
    BY <2>1 DEF RankedOK
<1>5. ASSUME NEW i \in DOMAIN o, NEW j \in DOMAIN o,
             o[i].file \in walked, o[j].file \notin walked
      PROVE  o[i].score > o[j].score
  <2>1. \A b \in DOMAIN new : new[b].file \notin walked
    BY DEF RankedOK, FilesOf
  <2>2. PICK a \in DOMAIN r : o[i] = r[a]
    BY <1>2, <1>5, <2>1
  <2>3. CASE \E b \in DOMAIN r : o[j] = r[b]
    BY <1>5, <2>2, <2>3 DEF RankedOK
  <2>4. CASE \E b \in DOMAIN new : o[j] = new[b]
    BY <2>2, <2>4
  <2>5. QED
    BY <1>2, <2>3, <2>4
<1>6. RankedOK'
  BY <1>2, <1>3, <1>4, <1>5 DEF RankedOK
<1>7. Top(r) => Top(o)
  <2> HIDE DEF r, o
  <2>1. \A i \in DOMAIN r, j \in DOMAIN new : r[i].score > new[j].score
    BY DEF r
  <2>2. QED
    BY <1>1, <1>2, <2>1, TopKept
<1>8. QED
  BY <1>2, <1>6, <1>7

\* What BM25 says of files that are not there yet.
LEMMA AnswerIs ==
    ASSUME NEW answer \in Bm25Answers
    PROVE  /\ NotThere(answer) \in Seq([file : File, score : Nat \ {0}])
           /\ Distinct(NotThere(answer)) /\ Sorted(NotThere(answer))
           /\ \A i \in DOMAIN NotThere(answer) : NotThere(answer)[i].file \notin FilesOf(results)
<1> DEFINE T == [file : File, score : Nat \ {0}]
           S == [file : File \ FilesOf(results), score : Nat]
           o == Keep(answer, S)
<1>1. answer \in Seq(T) /\ Distinct(answer) /\ Sorted(answer)
  BY ConstantsAssumption
<1>2. NotThere(answer) = o
  BY DEF NotThere
<1>3. /\ o \in Seq(S \intersect T)
      /\ \E from \in [DOMAIN o -> DOMAIN answer] :
             /\ \A k \in DOMAIN o : o[k] = answer[from[k]]
             /\ \A k, l \in DOMAIN o : k < l => from[k] < from[l]
  <2> HIDE DEF S, T
  <2>1. QED
    BY <1>1, KeepIs
<1> HIDE DEF o
<1>4. PICK from \in [DOMAIN o -> DOMAIN answer] :
          /\ \A k \in DOMAIN o : o[k] = answer[from[k]]
          /\ \A k, l \in DOMAIN o : k < l => from[k] < from[l]
  BY <1>3
<1>5. Len(o) \in Nat /\ DOMAIN o = 1..Len(o) /\ \A i \in DOMAIN o : o[i] \in S /\ o[i] \in T
  BY <1>3
<1>6. o \in Seq(T)
  <2>1. o \in [1..Len(o) -> T]
    <3> HIDE DEF S, T
    <3>1. o \in [DOMAIN o -> S \intersect T]
      BY <1>3
    <3>2. QED
      BY <1>5, <3>1
  <2>2. Len(o) \in Nat
    BY <1>5
  <2> HIDE DEF T
  <2>3. QED
    BY <2>1, <2>2
<1>7. \A i \in DOMAIN o : o[i].file \notin FilesOf(results)
  BY <1>5
<1>8. Distinct(o)
  <2>1. SUFFICES ASSUME NEW i \in DOMAIN o, NEW j \in DOMAIN o, o[i].file = o[j].file
                 PROVE  i = j
    BY DEF Distinct
  <2>2. from[i] = from[j] /\ from[i] \in DOMAIN answer
    BY <1>1, <1>4, <2>1 DEF Distinct
  <2>3. from[i] \in Nat
    BY <1>1, <2>2
  <2>4. ~(i < j) /\ ~(j < i)
    BY <1>4, <2>2, <2>3
  <2>5. i \in Nat /\ j \in Nat
    BY <1>5
  <2>6. QED
    BY <2>4, <2>5
<1>9. Sorted(o)
  BY <1>1, <1>4 DEF Sorted
<1>10. QED
  BY <1>2, <1>6, <1>7, <1>8, <1>9

\* Scaled, they all score less than what is there.
LEMMA ScaledIs ==
    ASSUME results \in Seq(Candidate), \A i \in DOMAIN results : results[i].score >= 1,
           NEW new \in Seq([file : File, score : Nat \ {0}]), Sorted(new)
    PROVE  /\ Scaled(new) \in Seq(Candidate) /\ DOMAIN Scaled(new) = DOMAIN new
           /\ \A j \in DOMAIN new : Scaled(new)[j].file = new[j].file
           /\ \A i \in DOMAIN results, j \in DOMAIN new :
                  results[i].score > Scaled(new)[j].score
<1> DEFINE T == [file : File, score : Nat \ {0}]
<1>1. /\ Len(new) \in Nat /\ DOMAIN new = 1..Len(new)
      /\ \A j \in DOMAIN new : new[j] \in T
  <2>1. new \in Seq(T)
    OBVIOUS
  <2> HIDE DEF T
  <2>2. QED
    BY <2>1
<1>2. \A j \in DOMAIN new : /\ new[j] \in Candidate /\ new[j].file \in File
                            /\ new[j].score \in Nat \ {0}
  BY <1>1 DEF Candidate
<1>3. new \in Seq(Candidate)
  <2>1. new = [j \in 1..Len(new) |-> new[j]]
    BY <1>1
  <2>2. new \in [1..Len(new) -> Candidate]
    BY <1>1, <1>2, <2>1
  <2>3. QED
    BY <1>1, <2>2
<1>4. CASE results = <<>> \/ new = <<>>
  <2>1. Scaled(new) = new
    BY <1>4 DEF Scaled
  <2>2. \A i \in DOMAIN results, j \in DOMAIN new : FALSE
    BY <1>4
  <2>3. QED
    BY <1>3, <2>1, <2>2
<1>5. CASE results # <<>> /\ new # <<>>
  <2> DEFINE least == Least(results, 0)
             b == Back(least)
             m == new[1].score
             o == [j \in DOMAIN new |-> [new[j] EXCEPT !.score = (b \div m) * @]]
  <2>1. Scaled(new) = o
    BY <1>5 DEF Scaled
  <2>2. 1 \in DOMAIN new
    BY <1>1, <1>5
  <2>3. m \in Nat \ {0} /\ \A j \in DOMAIN new : new[j].score <= m
    <3>1. \A j \in DOMAIN new : j = 1 \/ 1 < j
      BY <1>1
    <3>2. QED
      BY <1>2, <2>2, <3>1 DEF Sorted
  <2>4. /\ least \in Nat /\ \A i \in DOMAIN results : least <= results[i].score
        /\ \E i \in DOMAIN results : least = results[i].score
    BY <1>5, LeastIs
  <2>5. least >= 1
    BY <2>4
  <2> HIDE DEF least
  <2>6. b \in Nat /\ b < least
    BY <2>4, <2>5, PassedOn
  <2> HIDE DEF b, m
  <2>7. \A j \in DOMAIN new : /\ (b \div m) * new[j].score \in Nat
                              /\ (b \div m) * new[j].score <= b
    BY <1>2, <2>3, <2>6, InProportion
  <2>8. \A j \in DOMAIN new : /\ o[j] = [file |-> new[j].file, score |-> (b \div m) * new[j].score]
    BY <1>1
  <2>9. DOMAIN o = 1..Len(new)
    BY <1>1
  <2> HIDE DEF o
  <2>10. \A j \in DOMAIN new : /\ o[j].file = new[j].file
                               /\ o[j].score = (b \div m) * new[j].score
    <3>1. TAKE j \in DOMAIN new
    <3> DEFINE s == (b \div m) * new[j].score
               f == new[j].file
    <3>2. o[j] = [file |-> f, score |-> s]
      BY <2>8
    <3> HIDE DEF s, f
    <3>3. o[j].file = f /\ o[j].score = s
      BY <3>2
    <3>4. QED
      BY <3>3 DEF s, f
  <2>11. \A j \in DOMAIN new : o[j] \in Candidate
    <3>1. TAKE j \in DOMAIN new
    <3> DEFINE s == (b \div m) * new[j].score
    <3>2. s \in Nat /\ new[j].file \in File
      BY <1>2, <2>7
    <3>3. o[j] = [file |-> new[j].file, score |-> s]
      BY <2>8
    <3> HIDE DEF s
    <3>4. QED
      BY <3>2, <3>3 DEF Candidate
  <2>12. o \in Seq(Candidate)
    <3>1. o = [j \in 1..Len(new) |-> o[j]]
      BY <2>9 DEF o
    <3>2. o \in [1..Len(new) -> Candidate]
      BY <1>1, <2>11, <3>1
    <3>3. Len(new) \in Nat
      BY <1>1
    <3>4. QED
      BY <3>2, <3>3
  <2>13. ASSUME NEW i \in DOMAIN results, NEW j \in DOMAIN new
         PROVE  results[i].score > o[j].score
    <3>1. least <= results[i].score /\ o[j].score <= b /\ o[j].score \in Nat
      BY <2>4, <2>7, <2>10
    <3>2. results[i].score \in Nat
      <4>1. results[i] \in Candidate
        OBVIOUS
      <4>2. QED
        BY <4>1 DEF Candidate
    <3>3. QED
      BY <2>4, <2>6, <3>1, <3>2
  <2>14. QED
    BY <1>1, <2>1, <2>9, <2>10, <2>12, <2>13
<1>6. QED
  BY <1>4, <1>5

\* Multipliers change scores, never which files are there.
LEMMA ReweightedIs ==
    ASSUME NEW r \in Seq(Candidate), Distinct(r), NEW m \in [File -> 1..4]
    PROVE  /\ Reweighted(r, m) \in Seq(Candidate) /\ Len(Reweighted(r, m)) = Len(r)
           /\ Distinct(Reweighted(r, m)) /\ Sorted(Reweighted(r, m))
<1> DEFINE o == [i \in DOMAIN r |-> [r[i] EXCEPT !.score = (@ \div 2) * m[r[i].file]]]
<1>1. /\ Len(r) \in Nat /\ DOMAIN r = 1..Len(r)
      /\ \A i \in DOMAIN r : r[i] \in Candidate
  OBVIOUS
<1>2. \A i \in DOMAIN r : r[i].score \in Nat /\ r[i].file \in File
  BY <1>1 DEF Candidate
<1>3. \A i \in DOMAIN r : m[r[i].file] \in Nat
  BY <1>2
<1>4. \A a, b \in Nat : (a \div 2) * b \in Nat
  <2>1. \A a \in Nat : a \div 2 \in Nat
    OBVIOUS
  <2>2. QED
    BY <2>1
<1>5. \A i \in DOMAIN r : (r[i].score \div 2) * m[r[i].file] \in Nat
  BY <1>2, <1>3, <1>4
<1>6. \A i \in DOMAIN r :
          o[i] = [file |-> r[i].file, score |-> (r[i].score \div 2) * m[r[i].file]]
  BY <1>1 DEF Candidate
<1>7. DOMAIN o = 1..Len(r)
  BY <1>1
<1>8. Reweighted(r, m) = SortByScore(o)
  BY DEF Reweighted
<1>9. o = [i \in 1..Len(r) |-> o[i]]
  BY <1>7
<1> HIDE DEF o
<1>10. \A i \in DOMAIN r : o[i].file = r[i].file /\ o[i] \in Candidate
  <2>1. TAKE i \in DOMAIN r
  <2> DEFINE s == (r[i].score \div 2) * m[r[i].file]
             f == r[i].file
  <2>2. o[i] = [file |-> f, score |-> s] /\ s \in Nat /\ f \in File
    BY <1>2, <1>5, <1>6
  <2> HIDE DEF s
  <2>3. QED
    BY <2>2 DEF Candidate
<1>11. o \in Seq(Candidate) /\ Len(o) = Len(r)
  <2>1. o \in [1..Len(r) -> Candidate]
    BY <1>1, <1>9, <1>10
  <2>2. QED
    BY <1>1, <2>1
<1>12. Distinct(o)
  BY <1>1, <1>7, <1>10 DEF Distinct
<1>13. /\ SortByScore(o) \in Seq(Candidate) /\ Sorted(SortByScore(o))
       /\ Distinct(SortByScore(o)) /\ Len(SortByScore(o)) = Len(o)
  BY <1>11, <1>12, SortedIs
<1>14. QED
  BY <1>8, <1>11, <1>13

-----------------------------------------------------------------------------
(* The active file *)

\* It is there, and there is room for it beside all that changed.
Room == active \in exists /\ Cardinality(changed \union {active}) <= n

\* Only a changed file can score like a seed that changed, and none but the
\* active file like a seed that did not.
Capped(r) == \A i \in DOMAIN r :
    /\ r[i].score <= 2 * Unit
    /\ r[i].file \notin changed => r[i].score <= (3 * Unit) \div 2
    /\ r[i].file \notin changed \union {active} => r[i].score < (3 * Unit) \div 2

\* The active file with what it has as a seed.
High(r, i) == r[i].file = active /\ r[i].score >= (3 * Unit) \div 2

\* It was visited, or waits behind changed files only and none but those were
\* visited: the walk cannot fill up before it comes.
ToCome ==
    Room /\ pc = "walk" =>
        /\ Capped(queue) /\ Capped(visited)
        /\ \/ \E i \in DOMAIN visited : High(visited, i)
           \/ /\ FilesOf(visited) \subseteq changed
              /\ \E i \in DOMAIN queue : /\ High(queue, i)
                                         /\ \A j \in 1..i - 1 : queue[j].file \in changed

\* A list that names no file twice has no more elements than files.
LEMMA FewNames ==
    ASSUME NEW v \in Seq(Candidate), Distinct(v), NEW A \in SUBSET DOMAIN v,
           NEW S, IsFiniteSet(S), \A a \in A : v[a].file \in S
    PROVE  Cardinality(A) \in Nat /\ Cardinality(A) <= Cardinality(S)
<1> DEFINE g == [a \in A |-> v[a].file]
<1>1. \A a \in A, b \in A : g[a] = g[b] => a = b
  BY DEF Distinct
<1>2. g \in [A -> S] /\ \A a \in A : g[a] = v[a].file
  OBVIOUS
<1> HIDE DEF g
<1>3. g \in Injection(A, S)
  BY <1>1, <1>2 DEF Injection, IsInjective
<1>4. IsFiniteSet(A) /\ Cardinality(A) <= Cardinality(S)
  BY <1>3, FS_Injection
<1>5. QED
  BY <1>4, FS_CardinalityType

LEMMA FilesFinite ==
    ASSUME InputOK
    PROVE  /\ IsFiniteSet(changed) /\ Cardinality(changed) \in Nat
           /\ IsFiniteSet(changed \ {active}) /\ Cardinality(changed \ {active}) \in Nat
           /\ Cardinality(changed) <= Cardinality(changed \union {active})
           /\ Cardinality(changed \ {active}) + 1 = Cardinality(changed \union {active})
<1>1. N \in Nat
  BY ConstantsAssumption
<1>2. IsFiniteSet(File)
  BY <1>1, FirstNumbers DEF File
<1>3. IsFiniteSet(changed)
  BY <1>2, FS_Subset DEF InputOK
<1> DEFINE rest == changed \ {active}
<1>4. IsFiniteSet(rest)
  BY <1>3, FS_RemoveElement
<1>5. Cardinality(rest \union {active}) = Cardinality(rest) + 1 /\ IsFiniteSet(rest \union {active})
  <2>1. active \notin rest
    OBVIOUS
  <2> HIDE DEF rest
  <2>2. QED
    BY <1>4, <2>1, FS_AddElement
<1>6. rest \union {active} = changed \union {active}
  OBVIOUS
<1>7. Cardinality(changed) <= Cardinality(changed \union {active})
  BY <1>5, <1>6, FS_Subset
<1>8. Cardinality(changed) \in Nat /\ Cardinality(rest) \in Nat
  BY <1>3, <1>4, FS_CardinalityType
<1>9. QED
  BY <1>3, <1>4, <1>5, <1>6, <1>7, <1>8

\* Of what was visited, the active file is among the first n.
LEMMA VisitedTop ==
    ASSUME InputOK, NEW v \in Seq(Candidate), Distinct(v), Capped(v),
           Room, \E i \in DOMAIN v : High(v, i)
    PROVE  Top(First(SortByScore(v)))
<1> DEFINE s == SortByScore(v)
           o == First(s)
           least == (3 * Unit) \div 2
<1>1. least \in Nat /\ n \in Nat
  BY DEF Unit, InputOK
<1>2. PICK i \in DOMAIN v : v[i].file = active /\ v[i].score >= least
  BY DEF High
<1>3. \A j \in DOMAIN v : j \in Nat /\ v[j].score \in Nat
  <2>1. \A j \in DOMAIN v : j \in Nat /\ v[j] \in Candidate
    OBVIOUS
  <2>2. QED
    BY <2>1 DEF Candidate
<1>4. ASSUME NEW j \in DOMAIN v, j # i, v[j].score >= v[i].score
      PROVE  v[j].file \in changed \ {active}
  <2>1. v[j].file # active
    BY <1>2, <1>4 DEF Distinct
  <2> HIDE DEF least
  <2>2. v[j].file \notin changed \union {active} => v[j].score < least
    BY DEF Capped, least
  <2>3. v[j].score >= least
    BY <1>1, <1>2, <1>3, <1>4
  <2>4. v[j].file \in changed \union {active}
    BY <1>1, <1>3, <2>2, <2>3
  <2>5. QED
    BY <2>1, <2>4
<1> HIDE DEF least, s
<1>5. /\ s \in Seq(Candidate) /\ Distinct(s)
      /\ \A k \in DOMAIN s : \E j \in DOMAIN v : s[k] = v[j]
      /\ DOMAIN s = DOMAIN v /\ Len(s) = Len(v)
      /\ 1 + Cardinality(Ahead(v, i)) \in DOMAIN v
      /\ s[1 + Cardinality(Ahead(v, i))] = v[i]
  BY SortedIs DEF s
<1>6. /\ o \in Seq(Candidate) /\ (Len(o) = n \/ Len(o) = Len(s))
      /\ \A k \in DOMAIN o : k \in DOMAIN s /\ o[k] = s[k]
  BY <1>1, <1>5, FirstIs
<1>7. Distinct(o)
  BY <1>1, <1>5, FirstKeeps
<1> HIDE DEF o
<1> DEFINE A == Ahead(v, i)
           k == 1 + Cardinality(A)
<1>8. Cardinality(A) \in Nat /\ Cardinality(A) + 1 <= n
  <2>1. A \in SUBSET DOMAIN v
    BY DEF Ahead
  <2>2. \A a \in A : v[a].file \in changed \ {active}
    <3>1. TAKE a \in A
    <3>2. a \in DOMAIN v /\ (v[a].score > v[i].score \/ (v[a].score = v[i].score /\ a < i))
      BY DEF Ahead
    <3>3. a # i /\ v[a].score >= v[i].score
      BY <1>3, <3>2
    <3>4. QED
      BY <1>4, <3>2, <3>3
  <2> HIDE DEF A
  <2>3. Cardinality(A) \in Nat /\ Cardinality(A) <= Cardinality(changed \ {active})
    BY <2>1, <2>2, FilesFinite, FewNames
  <2>4. /\ Cardinality(changed \ {active}) \in Nat
        /\ Cardinality(changed \ {active}) + 1 <= n
    BY FilesFinite DEF Room
  <2>5. \A a, b \in Nat : a <= b /\ b + 1 <= n => a + 1 <= n
    BY <1>1
  <2>6. QED
    BY <2>3, <2>4, <2>5
<1> HIDE DEF A
<1>9. k \in DOMAIN o /\ o[k] = v[i]
  <2>1. k \in DOMAIN s /\ s[k] = v[i] /\ k \in Nat /\ k <= n /\ k >= 1
    BY <1>5, <1>8 DEF A
  <2>2. Len(o) \in Nat /\ DOMAIN o = 1..Len(o) /\ Len(s) \in Nat /\ DOMAIN s = 1..Len(s)
    BY <1>5, <1>6
  <2> HIDE DEF k
  <2>3. k <= Len(s)
    BY <2>1, <2>2
  <2>4. k <= Len(o)
    BY <1>6, <2>1, <2>3
  <2>5. k \in DOMAIN o
    BY <2>1, <2>2, <2>4
  <2>6. QED
    BY <1>6, <2>1, <2>5
<1>10. ASSUME NEW l \in DOMAIN o, l # k, o[l].score >= o[k].score
       PROVE  o[l].file \in changed
  <2>1. PICK j \in DOMAIN v : o[l] = v[j]
    BY <1>5, <1>6
  <2>2. j # i
    BY <1>7, <1>9, <1>10, <2>1 DEF Distinct
  <2>3. QED
    BY <1>4, <1>9, <1>10, <2>1, <2>2
<1>11. Top(o)
  <2> HIDE DEF k
  <2>1. QED
    BY <1>2, <1>9, <1>10 DEF Top
<1>12. QED
  BY <1>11 DEF o, s

\* The first steps: the seeds are within their scores, the active file is one.
LEMMA ToComeAtFirst ==
    ASSUME InputOK, Room
    PROVE  /\ Capped(Seeds) /\ Seeds # <<>>
           /\ \E i \in DOMAIN Seeds : /\ High(Seeds, i)
                                      /\ \A j \in 1..i - 1 : Seeds[j].file \in changed
<1>1. 2 * Unit = 1000000000 /\ (3 * Unit) \div 2 = 750000000
  BY DEF Unit
<1>2. /\ Seeds \in Seq(Candidate)
      /\ \A i \in DOMAIN Seeds :
             \/ Seeds[i].file \in changed /\ Seeds[i].score = 2 * Unit
             \/ Seeds[i].file = active /\ Seeds[i].score = (3 * Unit) \div 2
      /\ \E i \in DOMAIN Seeds :
             /\ Seeds[i].file = active /\ Seeds[i].score >= (3 * Unit) \div 2
             /\ \A j \in 1..i - 1 : Seeds[j].file \in changed
  BY SeedsAre DEF Room
<1>3. Capped(Seeds)
  BY <1>1, <1>2 DEF Capped
<1>4. Seeds # <<>>
  BY <1>2
<1>5. QED
  BY <1>2, <1>3, <1>4 DEF High

\* A file found again.
LEMMA ToComeAgain ==
    ASSUME InputOK, WalkOK, ToCome, VisitAgain PROVE ToCome'
<1> DEFINE c == Current
<1>1. /\ FilesOf(visited') = FilesOf(visited)
      /\ c \in Candidate /\ visited' = Raise(visited, c)
      /\ queue' = Tail(queue) /\ queue # <<>> /\ c = queue[1]
  BY AgainStep
<1>2. /\ queue \in Seq(Candidate) /\ visited \in Seq(Candidate)
      /\ c.file \in FilesOf(visited) /\ pc = "walk" /\ pc' = pc
      /\ changed' = changed /\ active' = active /\ exists' = exists /\ n' = n
  BY DEF WalkOK, VisitAgain, Visited, input
<1> HIDE DEF c
<1>3. /\ 1 \in DOMAIN queue /\ queue' \in Seq(Candidate)
      /\ \A i \in DOMAIN queue' : i + 1 \in DOMAIN queue /\ queue'[i] = queue[i + 1]
      /\ \A i \in DOMAIN queue : i > 1 => i - 1 \in DOMAIN queue' /\ queue'[i - 1] = queue[i]
  BY <1>1, <1>2, QueueIs
<1>4. /\ visited' \in Seq(Candidate) /\ DOMAIN visited' = DOMAIN visited
      /\ \A i \in DOMAIN visited :
             /\ visited'[i].file = visited[i].file
             /\ visited'[i].score >= visited[i].score
             /\ c.file = visited[i].file => visited'[i].score >= c.score
             /\ \/ visited'[i] = visited[i]
                \/ c.file = visited[i].file /\ visited'[i] = c
  BY <1>1, <1>2, RaiseIs
<1>5. SUFFICES ASSUME Room
               PROVE  /\ Capped(queue') /\ Capped(visited')
                      /\ \/ \E i \in DOMAIN visited' : High(visited', i)
                         \/ /\ FilesOf(visited') \subseteq changed
                            /\ \E i \in DOMAIN queue' :
                                   /\ High(queue', i)
                                   /\ \A j \in 1..i - 1 : queue'[j].file \in changed
  BY <1>2 DEF ToCome, Room, Capped, High
<1>6. /\ Capped(queue) /\ Capped(visited)
      /\ \/ \E i \in DOMAIN visited : High(visited, i)
         \/ /\ FilesOf(visited) \subseteq changed
            /\ \E i \in DOMAIN queue : /\ High(queue, i)
                                       /\ \A j \in 1..i - 1 : queue[j].file \in changed
  BY <1>2, <1>5 DEF ToCome
<1>7. Capped(queue')
  BY <1>3, <1>6 DEF Capped
<1>8. Capped(visited')
  <2>1. \A i \in DOMAIN visited' : \/ visited'[i] = visited[i] /\ i \in DOMAIN visited
                                   \/ visited'[i] = queue[1]
    BY <1>1, <1>4
  <2>2. QED
    BY <1>3, <1>6, <2>1 DEF Capped
<1>9. \A i \in DOMAIN visited : visited[i].score \in Nat /\ visited'[i].score \in Nat
  <2>1. \A i \in DOMAIN visited : visited[i] \in Candidate /\ visited'[i] \in Candidate
    BY <1>2, <1>4
  <2>2. QED
    BY <2>1 DEF Candidate
<1>10. c.score \in Nat /\ (3 * Unit) \div 2 \in Nat
  BY <1>1 DEF Candidate, Unit
<1>11. CASE \E i \in DOMAIN visited : High(visited, i)
  <2>1. PICK i \in DOMAIN visited : High(visited, i)
    BY <1>11
  <2>2. High(visited', i)
    BY <1>4, <1>9, <1>10, <2>1 DEF High
  <2>3. QED
    BY <1>4, <1>7, <1>8, <2>2
<1>12. CASE /\ FilesOf(visited) \subseteq changed
            /\ \E i \in DOMAIN queue : /\ High(queue, i)
                                       /\ \A j \in 1..i - 1 : queue[j].file \in changed
  <2>1. PICK i \in DOMAIN queue : /\ High(queue, i)
                                  /\ \A j \in 1..i - 1 : queue[j].file \in changed
    BY <1>12
  <2>2. i \in Nat /\ (i = 1 \/ i > 1)
    BY <1>2
  <2>3. CASE i = 1
    <3>1. c.file = active /\ c.score >= (3 * Unit) \div 2
      BY <1>1, <2>1, <2>3 DEF High
    <3>2. PICK j \in DOMAIN visited : visited[j].file = c.file
      BY <1>2 DEF FilesOf
    <3>3. visited'[j].file = active /\ visited'[j].score >= c.score
      BY <1>4, <3>1, <3>2
    <3>4. High(visited', j)
      BY <1>9, <1>10, <3>1, <3>3 DEF High
    <3>5. QED
      BY <1>4, <1>7, <1>8, <3>4
  <2>4. CASE i > 1
    <3> DEFINE k == i - 1
    <3>1. k \in DOMAIN queue' /\ queue'[k] = queue[i]
      BY <1>3, <2>4
    <3>2. \A j \in 1..k - 1 : queue'[j].file \in changed
      <4>1. TAKE j \in 1..k - 1
      <4>2. j + 1 \in 1..i - 1 /\ j \in DOMAIN queue'
        <5>1. j \in Nat /\ 1 <= j /\ j <= i - 2 /\ j + 1 \in 1..i - 1 /\ j <= k
          BY <2>2
        <5>2. Len(queue') \in Nat /\ DOMAIN queue' = 1..Len(queue')
          BY <1>3
        <5>3. k \in Nat /\ k <= Len(queue')
          BY <3>1, <5>2
        <5> HIDE DEF k
        <5>4. j <= Len(queue')
          BY <5>1, <5>2, <5>3
        <5>5. QED
          BY <5>1, <5>2, <5>4
      <4>3. QED
        BY <1>3, <2>1, <4>2
    <3> HIDE DEF k
    <3>3. High(queue', k)
      BY <2>1, <3>1 DEF High
    <3>4. FilesOf(visited') \subseteq changed
      BY <1>1, <1>12
    <3>5. QED
      BY <1>7, <1>8, <3>1, <3>2, <3>3, <3>4
  <2>5. QED
    BY <2>2, <2>3, <2>4
<1>13. QED
  BY <1>6, <1>11, <1>12

\* A file visited first: the active file comes nearer, and no walk that saw only
\* changed files is full, for there are fewer of them than it may visit.
LEMMA ToComeVisit ==
    ASSUME InputOK, WalkOK, ToCome, Visit PROVE ToCome'
<1> DEFINE c == Current
           high == (3 * Unit) \div 2
<1>1. /\ WalkOK' /\ FilesOf(visited') = FilesOf(visited) \union {c.file}
      /\ c \in Candidate /\ visited' = Append(visited, c)
      /\ queue # <<>> /\ c = queue[1] /\ c.file \in File
      /\ \/ Full(visited') /\ queue' = <<>>
         \/ /\ ~Full(visited')
            /\ \E new \in Seq(Candidate) :
                   /\ queue' = Tail(queue) \o new
                   /\ \A i \in DOMAIN new : new[i].score <= Passed(c.score)
  BY VisitStep
<1>2. /\ queue \in Seq(Candidate) /\ visited \in Seq(Candidate)
      /\ pc = "walk" /\ pc' = pc
      /\ changed' = changed /\ active' = active /\ exists' = exists /\ n' = n
  BY DEF WalkOK, Visit, input
<1> HIDE DEF c
<1>3. /\ 1 \in DOMAIN queue /\ Tail(queue) \in Seq(Candidate)
      /\ \A i \in DOMAIN Tail(queue) : i + 1 \in DOMAIN queue /\ Tail(queue)[i] = queue[i + 1]
      /\ \A i \in DOMAIN queue : i > 1 => i - 1 \in DOMAIN Tail(queue)
                                          /\ Tail(queue)[i - 1] = queue[i]
  BY <1>1, <1>2, QueueIs
<1>4. /\ visited' \in Seq(Candidate) /\ Len(visited) + 1 \in DOMAIN visited'
      /\ visited'[Len(visited) + 1] = c
      /\ \A i \in DOMAIN visited : i \in DOMAIN visited' /\ visited'[i] = visited[i]
      /\ \A i \in DOMAIN visited' : \/ i \in DOMAIN visited /\ visited'[i] = visited[i]
                                    \/ visited'[i] = c
  BY <1>1, <1>2, AppendIs
<1>5. SUFFICES ASSUME Room
               PROVE  /\ Capped(queue') /\ Capped(visited')
                      /\ \/ \E i \in DOMAIN visited' : High(visited', i)
                         \/ /\ FilesOf(visited') \subseteq changed
                            /\ \E i \in DOMAIN queue' :
                                   /\ High(queue', i)
                                   /\ \A j \in 1..i - 1 : queue'[j].file \in changed
  BY <1>2 DEF ToCome, Room, Capped, High
<1>6. /\ Capped(queue) /\ Capped(visited)
      /\ \/ \E i \in DOMAIN visited : High(visited, i)
         \/ /\ FilesOf(visited) \subseteq changed
            /\ \E i \in DOMAIN queue : /\ High(queue, i)
                                       /\ \A j \in 1..i - 1 : queue[j].file \in changed
  BY <1>2, <1>5 DEF ToCome
<1>7. Capped(visited')
  BY <1>1, <1>3, <1>4, <1>6 DEF Capped
<1>8. c.score \in Nat /\ c.score <= 2 * Unit /\ Passed(c.score) \in Nat /\ Passed(c.score) < high
  <2>1. c.score \in Nat
    BY <1>1 DEF Candidate
  <2>2. c.score <= 2 * Unit
    BY <1>1, <1>3, <1>6 DEF Capped
  <2>3. QED
    BY <2>1, <2>2, PassedOn
<1>9. 2 * Unit = 1000000000 /\ high = 750000000
  BY DEF Unit
<1>10. Capped(Tail(queue))
  BY <1>3, <1>6 DEF Capped
<1>11. Capped(queue')
  <2>1. CASE queue' = <<>>
    BY <2>1 DEF Capped
  <2>2. ASSUME NEW new \in Seq(Candidate), queue' = Tail(queue) \o new,
               \A i \in DOMAIN new : new[i].score <= Passed(c.score)
        PROVE  Capped(queue')
    <3>1. \A i \in DOMAIN queue' :
              \/ i \in DOMAIN Tail(queue) /\ queue'[i] = Tail(queue)[i]
              \/ \E j \in DOMAIN new : queue'[i] = new[j]
      <4> DEFINE t == Tail(queue)
      <4>1. t \in Seq(Candidate) /\ queue' = t \o new
        BY <1>3, <2>2
      <4> HIDE DEF t
      <4>2. \A i \in DOMAIN queue' :
                \/ i \in DOMAIN t /\ queue'[i] = t[i]
                \/ /\ i - Len(t) \in DOMAIN new /\ i > Len(t)
                   /\ queue'[i] = new[i - Len(t)]
        BY <4>1, ConcatIs
      <4>3. QED
        BY <4>2 DEF t
    <3>2. \A j \in DOMAIN new : new[j].score \in Nat
      <4>1. \A j \in DOMAIN new : new[j] \in Candidate
        OBVIOUS
      <4>2. QED
        BY <4>1 DEF Candidate
    <3>3. \A j \in DOMAIN new : new[j].score < high /\ new[j].score <= 2 * Unit
      BY <1>8, <1>9, <2>2, <3>2
    <3>4. \A j \in DOMAIN new : new[j].score <= high
      BY <1>9, <3>2, <3>3
    <3> HIDE DEF high
    <3>5. QED
      BY <1>10, <3>1, <3>3, <3>4 DEF Capped, high
  <2>3. QED
    BY <1>1, <2>1, <2>2
<1>12. CASE \E i \in DOMAIN visited : High(visited, i)
  BY <1>4, <1>7, <1>11, <1>12 DEF High
<1>13. CASE /\ FilesOf(visited) \subseteq changed
            /\ \E i \in DOMAIN queue : /\ High(queue, i)
                                       /\ \A j \in 1..i - 1 : queue[j].file \in changed
  <2>1. PICK i \in DOMAIN queue : /\ High(queue, i)
                                  /\ \A j \in 1..i - 1 : queue[j].file \in changed
    BY <1>13
  <2>2. i \in Nat /\ (i = 1 \/ i > 1)
    BY <1>2
  <2>3. CASE i = 1
    <3>1. High(visited', Len(visited) + 1)
      BY <1>1, <1>4, <2>1, <2>3 DEF High
    <3>2. QED
      BY <1>4, <1>7, <1>11, <3>1
  <2>4. CASE i > 1
    <3>1. c.file \in changed
      <4>1. 1 \in 1..i - 1
        BY <2>2, <2>4
      <4>2. QED
        BY <1>1, <2>1, <4>1
    <3>2. FilesOf(visited') \subseteq changed
      BY <1>1, <1>13, <3>1
    <3>3. ~Full(visited')
      <4>1. Len(visited') \in Nat /\ DOMAIN visited' = 1..Len(visited') /\ n \in Nat \ {0}
        BY <1>4 DEF InputOK
      <4>2. Distinct(visited') /\ \A a \in DOMAIN visited' : visited'[a].file \in changed
        BY <1>1, <3>2 DEF WalkOK, FilesOf
      <4>3. Cardinality(DOMAIN visited') <= Cardinality(changed)
        BY <1>4, <4>2, FilesFinite, FewNames
      <4>4. Cardinality(DOMAIN visited') = Len(visited')
        BY <4>1, FirstNumbers
      <4>5. Cardinality(changed) \in Nat /\ Cardinality(changed) <= n
        <5>1. /\ Cardinality(changed) \in Nat
              /\ Cardinality(changed) <= Cardinality(changed \union {active})
              /\ Cardinality(changed \union {active}) <= n
              /\ Cardinality(changed \ {active}) \in Nat
              /\ Cardinality(changed \ {active}) + 1 = Cardinality(changed \union {active})
          BY <1>5, FilesFinite DEF Room
        <5>2. \A a, b, d \in Nat : a <= b /\ b <= d => a <= d
          OBVIOUS
        <5>3. Cardinality(changed \union {active}) \in Nat
          BY <5>1
        <5>4. QED
          BY <4>1, <5>1, <5>2, <5>3
      <4>6. \A a, b \in Nat : a <= b /\ b <= n => ~(a >= 2 * n)
        BY <4>1
      <4>7. QED
        BY <4>1, <4>3, <4>4, <4>5, <4>6 DEF Full
    <3>4. PICK new \in Seq(Candidate) : queue' = Tail(queue) \o new
      BY <1>1, <3>3
    <3>5. \A j \in DOMAIN Tail(queue) : j \in DOMAIN queue' /\ queue'[j] = Tail(queue)[j]
      BY <1>3, <3>4, ConcatIs
    <3> DEFINE k == i - 1
    <3>6. k \in DOMAIN queue' /\ queue'[k] = queue[i] /\ k \in DOMAIN Tail(queue)
      BY <1>3, <2>4, <3>5
    <3>7. \A j \in 1..k - 1 : queue'[j].file \in changed
      <4>1. TAKE j \in 1..k - 1
      <4>2. j + 1 \in 1..i - 1 /\ j \in DOMAIN Tail(queue)
        <5>1. j \in Nat /\ 1 <= j /\ j + 1 \in 1..i - 1 /\ j <= k
          BY <2>2
        <5>2. Len(Tail(queue)) \in Nat /\ DOMAIN Tail(queue) = 1..Len(Tail(queue))
          BY <1>3
        <5>3. k \in Nat /\ k <= Len(Tail(queue))
          BY <3>6, <5>2
        <5> HIDE DEF k
        <5>4. j <= Len(Tail(queue))
          BY <5>1, <5>2, <5>3
        <5>5. QED
          BY <5>1, <5>2, <5>4
      <4>3. QED
        BY <1>3, <2>1, <3>5, <4>2
    <3> HIDE DEF k
    <3>8. High(queue', k)
      BY <2>1, <3>6 DEF High
    <3>9. QED
      BY <1>7, <1>11, <3>2, <3>6, <3>7, <3>8
  <2>5. QED
    BY <2>2, <2>3, <2>4
<1>14. QED
  BY <1>6, <1>12, <1>13

-----------------------------------------------------------------------------
(* The ranking *)

\* From the end of the walk on there is a ranking.  A file found over edges has
\* a score that four fifths and nine tenths of it stay below.
Ranked ==
    pc \in {"keywords", "bm25", "learned"} =>
        /\ RankedOK
        /\ pc = "keywords" => FilesOf(results) = walked
        /\ pc # "learned" => \A i \in DOMAIN results :
               results[i].score >= IF results[i].file \in walked THEN 18 ELSE 8

Tops == pc \in {"keywords", "bm25", "learned"} /\ Room => Top(results)

Shape ==
    /\ pc \in {"seed", "walk", "keywords", "bm25", "learned", "done"}
    /\ walked \subseteq FilesOf(visited)
    /\ results \in Seq(Candidate) /\ Len(results) <= n

\* The inductive invariant.
Inductive ==
    InputOK /\ WalkOK /\ Begun /\ Shape /\ Ranked /\ ToCome /\ Tops /\ HandedOver

LEMMA WalkRests == WalkOK /\ UNCHANGED <<input, queue, visited>> => WalkOK'
BY DEF WalkOK, input, NotCut, Passing, Walked, Distinct

LEMMA InductiveInit == Init => Inductive
<1>1. ASSUME Init PROVE InputOK
  BY <1>1, ConstantsAssumption DEF Init, InputOK
<1>2. ASSUME Init
      PROVE  /\ queue = <<>> /\ visited = <<>> /\ walked = {} /\ results = <<>> /\ pc = "seed"
             /\ n \in Nat \ {0}
  BY <1>1, <1>2 DEF Init, InputOK
<1>3. ASSUME Init
      PROVE  /\ queue \in Seq(Candidate) /\ visited \in Seq(Candidate) /\ Len(visited) = 0
             /\ results \in Seq(Candidate) /\ Len(results) = 0 /\ Distinct(visited)
  BY <1>2, <1>3 DEF Distinct
<1>4. \A k \in Nat \ {0} : 0 <= 2 * k /\ 0 <= k
  OBVIOUS
<1>5. ASSUME Init PROVE WalkOK /\ Begun /\ Shape
  BY <1>2, <1>3, <1>4, <1>5 DEF WalkOK, Begun, Shape, NotCut, Passing, Walked
<1>6. ASSUME Init PROVE Ranked /\ ToCome /\ Tops /\ HandedOver
  BY <1>2, <1>6 DEF Ranked, ToCome, Tops, HandedOver
<1>7. QED
  BY <1>1, <1>5, <1>6 DEF Inductive

LEMMA SeedKeeps == Inductive /\ Seed => Inductive'
<1> SUFFICES ASSUME Inductive, Seed PROVE Inductive'
  OBVIOUS
<1>1. InputOK /\ WalkOK /\ Begun
  BY DEF Inductive
<1>2. /\ WalkOK' /\ queue' = Seeds /\ visited' = <<>> /\ walked' = {} /\ results' = <<>>
      /\ pc' = IF Seeds = <<>> THEN "bm25" ELSE "walk"
  BY <1>1, SeedStep
<1>3. /\ changed' = changed /\ active' = active /\ exists' = exists /\ n' = n
      /\ n \in Nat \ {0}
  BY <1>1 DEF Seed, input, InputOK
<1>4. InputOK'
  BY <1>1, InputKept DEF Next
<1>5. results' \in Seq(Candidate) /\ Len(results') = 0 /\ Len(results') <= n
  <2>1. results' \in Seq(Candidate) /\ Len(results') = 0
    BY <1>2
  <2>2. \A k \in Nat \ {0} : 0 <= k
    OBVIOUS
  <2>3. QED
    BY <1>3, <2>1, <2>2
<1>6. Begun' /\ Shape' /\ HandedOver'
  BY <1>2, <1>3, <1>5 DEF Begun, Shape, HandedOver
<1>7. Ranked'
  BY <1>2, <1>3, <1>5 DEF Ranked, RankedOK, Distinct, Sorted
<1>8. Tops'
  <2>1. ASSUME Room PROVE Seeds # <<>>
    BY <1>1, <2>1, ToComeAtFirst
  <2>2. Room' => Room
    BY <1>3 DEF Room
  <2>3. QED
    BY <1>2, <2>1, <2>2 DEF Tops
<1>9. ToCome'
  <2>1. ASSUME Room
        PROVE  /\ Capped(queue') /\ Capped(visited')
               /\ FilesOf(visited') \subseteq changed
               /\ \E i \in DOMAIN queue' : /\ High(queue', i)
                                           /\ \A j \in 1..i - 1 : queue'[j].file \in changed
    <3>1. Capped(visited') /\ FilesOf(visited') \subseteq changed
      BY <1>2 DEF Capped, FilesOf
    <3>2. QED
      BY <1>1, <1>2, <2>1, <3>1, ToComeAtFirst
  <2>2. QED
    BY <1>3, <2>1 DEF ToCome, Room, Capped, High
<1>10. QED
  BY <1>2, <1>4, <1>6, <1>7, <1>8, <1>9 DEF Inductive

\* While the walk is on there is no ranking yet.
LEMMA WalkKeeps == Inductive /\ (VisitAgain \/ Visit) => Inductive'
<1>1. ASSUME Inductive, VisitAgain \/ Visit
      PROVE  /\ pc' = "walk" /\ walked' = walked /\ results' = results /\ n' = n
             /\ InputOK' /\ Begun' /\ Ranked' /\ Tops' /\ HandedOver'
  <2>1. pc' = "walk" /\ walked' = walked /\ results' = results /\ n' = n
    <3>1. CASE VisitAgain
      BY <3>1 DEF VisitAgain, input
    <3>2. CASE Visit
      BY <3>2 DEF Visit, input
    <3>3. QED
      BY <1>1, <3>1, <3>2
  <2>2. InputOK'
    BY <1>1, InputKept DEF Next, Inductive
  <2>3. QED
    BY <2>1, <2>2 DEF Begun, Ranked, Tops, HandedOver
<1>2. ASSUME Inductive, VisitAgain PROVE Inductive'
  <2>1. InputOK /\ WalkOK /\ ToCome /\ Shape
    BY <1>2 DEF Inductive
  <2>2. WalkOK' /\ FilesOf(visited') = FilesOf(visited)
    BY <1>2, <2>1, AgainStep
  <2>3. ToCome'
    BY <1>2, <2>1, ToComeAgain
  <2>4. Shape'
    BY <1>1, <1>2, <2>1, <2>2 DEF Shape
  <2>5. QED
    BY <1>1, <1>2, <2>2, <2>3, <2>4 DEF Inductive
<1>3. ASSUME Inductive, Visit PROVE Inductive'
  <2>1. InputOK /\ WalkOK /\ ToCome /\ Shape
    BY <1>3 DEF Inductive
  <2>2. WalkOK' /\ FilesOf(visited') = FilesOf(visited) \union {Current.file}
    BY <1>3, <2>1, VisitStep
  <2>3. ToCome'
    BY <1>3, <2>1, ToComeVisit
  <2>4. Shape'
    BY <1>1, <1>3, <2>1, <2>2 DEF Shape
  <2>5. QED
    BY <1>1, <1>3, <2>2, <2>3, <2>4 DEF Inductive
<1>4. QED
  BY <1>2, <1>3

\* The best of what was visited is the first ranking.
LEMMA EndWalkKeeps == Inductive /\ EndWalk => Inductive'
<1> SUFFICES ASSUME Inductive, EndWalk PROVE Inductive'
  OBVIOUS
<1> DEFINE s == SortByScore(visited)
           o == First(s)
<1>1. InputOK /\ WalkOK /\ ToCome
  BY DEF Inductive
<1>2. /\ pc = "walk" /\ pc' = "keywords" /\ queue = <<>> /\ results' = o
      /\ walked' = FilesOf(o) /\ visited' = visited /\ queue' = queue
      /\ changed' = changed /\ active' = active /\ exists' = exists /\ n' = n
      /\ UNCHANGED input
  BY DEF EndWalk, input
<1>3. InputOK' /\ WalkOK'
  BY <1>1, <1>2, InputKept, WalkRests DEF Next
<1>4. /\ visited \in Seq(Candidate) /\ Distinct(visited) /\ n \in Nat
      /\ \A i \in DOMAIN visited : visited[i].score >= 18
  BY <1>1 DEF WalkOK, Walked, InputOK
<1>5. /\ s \in Seq(Candidate) /\ Sorted(s) /\ Distinct(s)
      /\ \A k \in DOMAIN s : \E j \in DOMAIN visited : s[k] = visited[j]
  BY <1>4, SortedIs
<1> HIDE DEF s
<1>6. /\ o \in Seq(Candidate) /\ Len(o) <= n
      /\ \A k \in DOMAIN o : k \in DOMAIN s /\ o[k] = s[k]
      /\ Sorted(o) /\ Distinct(o)
  BY <1>4, <1>5, FirstIs, FirstKeeps
<1> HIDE DEF o
<1>7. \A k \in DOMAIN o : /\ o[k].score >= 18
                          /\ o[k].file \in FilesOf(o) /\ o[k].file \in FilesOf(visited)
  BY <1>4, <1>5, <1>6 DEF FilesOf
<1>8. Shape' /\ Begun' /\ HandedOver' /\ ToCome'
  <2>1. FilesOf(o) \subseteq FilesOf(visited)
    <3>1. ASSUME NEW x \in FilesOf(o) PROVE x \in FilesOf(visited)
      <4>1. PICK k \in DOMAIN o : x = o[k].file
        BY DEF FilesOf
      <4>2. QED
        BY <1>7, <4>1
    <3>2. QED
      BY <3>1
  <2>2. QED
    BY <1>2, <1>6, <2>1 DEF Shape, Begun, HandedOver, ToCome
<1>9. Ranked'
  <2>1. RankedOK'
    BY <1>2, <1>6, <1>7 DEF RankedOK
  <2>2. QED
    BY <1>2, <1>7, <2>1 DEF Ranked
<1>10. Tops'
  <2>1. ASSUME Room PROVE Top(o)
    <3>1. Capped(visited) /\ \E i \in DOMAIN visited : High(visited, i)
      BY <1>1, <1>2, <2>1 DEF ToCome
    <3>2. QED
      BY <1>1, <1>4, <2>1, <3>1, VisitedTop DEF o, s
  <2>2. QED
    BY <1>2, <2>1 DEF Tops, Room, Top
<1>11. QED
  BY <1>3, <1>8, <1>9, <1>10 DEF Inductive

\* Keywords and BM25 only add to a ranking.
LEMMA InjectKeeps ==
    ASSUME Inductive, NEW S \in Matches, Inject(S) PROVE Inductive'
<1> DEFINE found == (S \intersect Known) \ FilesOf(results)
           least == Least(results, Unit \div 2)
           score == (least \div 10) * 8
<1>1. InputOK /\ WalkOK /\ Ranked /\ Tops /\ Shape
  BY DEF Inductive
<1>2. /\ pc = "keywords" /\ pc' = "bm25" /\ walked' = walked /\ visited' = visited
      /\ queue' = queue /\ UNCHANGED <<input, walked>>
      /\ changed' = changed /\ active' = active /\ exists' = exists /\ n' = n
      /\ \E new \in Listed(found, score) :
             results' = First(IF found = {} THEN results ELSE SortByScore(results \o new))
  BY DEF Inject, input
<1>3. PICK new \in Listed(found, score) :
           results' = First(IF found = {} THEN results ELSE SortByScore(results \o new))
  BY <1>2
<1>4. InputOK' /\ WalkOK'
  <2>1. [Next]_vars
    BY DEF Next
  <2>2. QED
    BY <1>1, <1>2, <2>1, InputKept, WalkRests
<1>5. /\ RankedOK /\ FilesOf(results) = walked /\ n \in Nat
      /\ results \in Seq(Candidate) /\ Len(results) <= n
      /\ \A i \in DOMAIN results : results[i].score >= 18
  <2>1. RankedOK /\ FilesOf(results) = walked
    BY <1>1, <1>2 DEF Ranked
  <2>2. \A i \in DOMAIN results : results[i].file \in walked
    BY <2>1 DEF FilesOf
  <2>3. QED
    BY <1>1, <1>2, <2>1, <2>2 DEF Ranked, RankedOK, InputOK
<1>6. /\ RankedOK' /\ (Top(results) => Top(results'))
      /\ \A k \in DOMAIN results' : results'[k].score >= IF results'[k].file \in walked
                                                         THEN 18 ELSE 8
  <2>1. CASE found = {}
    <3>1. results' = results
      BY <1>3, <1>5, <2>1, FirstKeeps
    <3>2. QED
      BY <1>2, <1>5, <3>1 DEF RankedOK, FilesOf
  <2>2. CASE found # {}
    <3>1. found \in SUBSET File
      BY <1>1, ConstantsAssumption
    <3>2. Unit \div 2 \in Nat /\ Unit \div 2 >= 18
      BY DEF Unit
    <3>3. /\ least \in Nat /\ least >= 18
          /\ \A i \in DOMAIN results : least <= results[i].score
      BY <1>5, <3>2, LeastIs
    <3> HIDE DEF least
    <3>4. score \in Nat /\ score < least /\ score >= 8
      BY <3>3, FourFifths
    <3> HIDE DEF found, score
    <3>5. /\ new \in Seq(Candidate) /\ Distinct(new)
          /\ \A i \in DOMAIN new : new[i].score = score /\ new[i].file \in found
      BY <3>1, <3>4, ListedIs
    <3>6. \A i \in DOMAIN results : results[i].score \in Nat
      <4>1. \A i \in DOMAIN results : results[i] \in Candidate
        BY <1>5
      <4>2. QED
        BY <4>1 DEF Candidate
    <3>7. \A i \in DOMAIN results, j \in DOMAIN new : results[i].score > new[j].score
      BY <3>3, <3>4, <3>5, <3>6
    <3>8. \A i \in DOMAIN results, j \in DOMAIN new : results[i].file # new[j].file
      BY <3>5 DEF found, FilesOf
    <3>9. results' = First(SortByScore(results \o new))
      BY <1>3, <2>2
    <3>10. /\ RankedOK'
           /\ \A k \in DOMAIN results' : \/ \E i \in DOMAIN results : results'[k] = results[i]
                                         \/ \E j \in DOMAIN new : results'[k] = new[j]
           /\ Top(results) => Top(results')
      BY <1>1, <1>2, <1>5, <3>5, <3>7, <3>8, <3>9, Grown
    <3>11. ASSUME NEW k \in DOMAIN results'
           PROVE  results'[k].score >= IF results'[k].file \in walked THEN 18 ELSE 8
      <4>1. CASE \E i \in DOMAIN results : results'[k] = results[i]
        <5>1. PICK i \in DOMAIN results : results'[k] = results[i]
          BY <4>1
        <5>2. results'[k].score >= 18 /\ results'[k].score \in Nat
          BY <1>5, <3>6, <5>1
        <5>3. QED
          BY <5>2
      <4>2. CASE \E j \in DOMAIN new : results'[k] = new[j]
        <5>1. PICK j \in DOMAIN new : results'[k] = new[j]
          BY <4>2
        <5>2. results'[k].file \notin walked
          BY <1>5, <3>5, <5>1 DEF found
        <5>3. QED
          BY <3>4, <3>5, <5>1, <5>2
      <4>3. QED
        BY <3>10, <4>1, <4>2
    <3>12. QED
      BY <3>10, <3>11
  <2>3. QED
    BY <2>1, <2>2
<1> HIDE DEF found, score, least
<1>7. Ranked'
  BY <1>2, <1>6 DEF Ranked
<1>8. Tops'
  <2>1. Room => Top(results)
    BY <1>1, <1>2 DEF Tops
  <2>2. QED
    BY <1>2, <1>6, <2>1 DEF Tops, Room, Top
<1>9. Shape' /\ Begun' /\ HandedOver' /\ ToCome'
  BY <1>1, <1>2, <1>6 DEF Shape, Begun, HandedOver, ToCome, RankedOK
<1>10. QED
  BY <1>4, <1>7, <1>8, <1>9 DEF Inductive

LEMMA QueryKeeps ==
    ASSUME Inductive, NEW answer \in Bm25Answers, QueryIfSparse(answer) PROVE Inductive'
<1> DEFINE left == NotThere(answer)
           new == Scaled(left)
<1>1. InputOK /\ WalkOK /\ Ranked /\ Tops /\ Shape
  BY DEF Inductive
<1>2. /\ pc = "bm25" /\ pc' = "learned" /\ walked' = walked /\ visited' = visited
      /\ queue' = queue /\ UNCHANGED <<input, walked>>
      /\ changed' = changed /\ active' = active /\ exists' = exists /\ n' = n
      /\ results' = IF Sparse(results) THEN First(SortByScore(results \o new)) ELSE results
  BY DEF QueryIfSparse, input
<1>3. InputOK' /\ WalkOK'
  <2>1. [Next]_vars
    BY DEF Next
  <2>2. QED
    BY <1>1, <1>2, <2>1, InputKept, WalkRests
<1>4. /\ RankedOK /\ results \in Seq(Candidate)
      /\ \A i \in DOMAIN results : results[i].score >= 1
  <2>1. RankedOK /\ results \in Seq(Candidate)
    BY <1>1, <1>2 DEF Ranked, RankedOK
  <2>2. \A i \in DOMAIN results : results[i].score \in Nat
    <3>1. \A i \in DOMAIN results : results[i] \in Candidate
      BY <2>1
    <3>2. QED
      BY <3>1 DEF Candidate
  <2>3. \A i \in DOMAIN results : results[i].score >= 18 \/ results[i].score >= 8
    BY <1>1, <1>2 DEF Ranked
  <2>4. QED
    BY <2>1, <2>2, <2>3
<1>5. RankedOK' /\ (Top(results) => Top(results'))
  <2>1. CASE ~Sparse(results)
    <3>1. results' = results
      BY <1>2, <2>1
    <3>2. QED
      BY <1>2, <1>4, <3>1 DEF RankedOK, FilesOf
  <2>2. CASE Sparse(results)
    <3>1. /\ left \in Seq([file : File, score : Nat \ {0}])
          /\ Distinct(left) /\ Sorted(left)
          /\ \A i \in DOMAIN left : left[i].file \notin FilesOf(results)
      BY AnswerIs
    <3> HIDE DEF left
    <3>2. /\ new \in Seq(Candidate) /\ DOMAIN new = DOMAIN left
          /\ \A j \in DOMAIN left : new[j].file = left[j].file
          /\ \A i \in DOMAIN results, j \in DOMAIN left : results[i].score > new[j].score
      BY <1>4, <3>1, ScaledIs
    <3> HIDE DEF new
    <3>3. Distinct(new)
      BY <3>1, <3>2 DEF Distinct
    <3>4. \A i \in DOMAIN results, j \in DOMAIN new :
              /\ results[i].file # new[j].file
              /\ results[i].score > new[j].score
      BY <3>1, <3>2 DEF FilesOf
    <3>5. results' = First(SortByScore(results \o new))
      BY <1>2, <2>2
    <3>6. QED
      BY <1>1, <1>2, <1>4, <3>2, <3>3, <3>4, <3>5, Grown
  <2>3. QED
    BY <2>1, <2>2
<1> HIDE DEF left, new
<1>6. Ranked'
  BY <1>2, <1>5 DEF Ranked
<1>7. Tops'
  <2>1. Room => Top(results)
    BY <1>1, <1>2 DEF Tops
  <2>2. QED
    BY <1>2, <1>5, <2>1 DEF Tops, Room, Top
<1>8. Shape' /\ Begun' /\ HandedOver' /\ ToCome'
  BY <1>1, <1>2, <1>5 DEF Shape, Begun, HandedOver, ToCome, RankedOK
<1>9. QED
  BY <1>3, <1>6, <1>7, <1>8 DEF Inductive

\* What was learned puts the list in another order.
LEMMA MultiplyKeeps ==
    ASSUME Inductive, NEW m \in Multipliers, Multiply(m) PROVE Inductive'
<1>1. InputOK /\ WalkOK /\ Ranked /\ Shape
  BY DEF Inductive
<1>2. /\ pc = "learned" /\ pc' = "done" /\ walked' = walked /\ visited' = visited
      /\ queue' = queue /\ UNCHANGED input /\ n' = n
      /\ results' = Reweighted(results, m)
  BY DEF Multiply, input
<1>3. InputOK' /\ WalkOK'
  <2>1. [Next]_vars
    BY DEF Next
  <2>2. QED
    BY <1>1, <1>2, <2>1, InputKept, WalkRests
<1>4. results \in Seq(Candidate) /\ Distinct(results) /\ Len(results) <= n
  BY <1>1, <1>2 DEF Ranked, RankedOK
<1>5. m \in [File -> 1..4]
  BY ConstantsAssumption
<1>6. /\ results' \in Seq(Candidate) /\ Len(results') = Len(results)
      /\ Distinct(results') /\ Sorted(results')
  BY <1>2, <1>4, <1>5, ReweightedIs
<1>7. Shape' /\ HandedOver'
  BY <1>1, <1>2, <1>4, <1>6 DEF Shape, HandedOver
<1>8. Begun' /\ Ranked' /\ ToCome' /\ Tops'
  BY <1>2 DEF Begun, Ranked, ToCome, Tops
<1>9. QED
  BY <1>3, <1>7, <1>8 DEF Inductive

LEMMA RestKeeps == Inductive /\ UNCHANGED vars => Inductive'
<1> SUFFICES ASSUME Inductive, UNCHANGED vars PROVE Inductive'
  OBVIOUS
<1>1. InputOK' /\ WalkOK'
  BY InputKept, WalkRests DEF Inductive, vars
<1>2. /\ pc' = pc /\ queue' = queue /\ visited' = visited /\ walked' = walked
      /\ results' = results /\ n' = n /\ changed' = changed /\ active' = active
      /\ exists' = exists
  BY DEF vars, input
<1>3. Begun' /\ Shape' /\ HandedOver'
  BY <1>2 DEF Inductive, Begun, Shape, HandedOver
<1>4. Ranked'
  BY <1>2 DEF Inductive, Ranked, RankedOK
<1>5. ToCome'
  BY <1>2 DEF Inductive, ToCome, Room, Capped, High
<1>6. Tops'
  BY <1>2 DEF Inductive, Tops, Room, Top
<1>7. QED
  BY <1>1, <1>3, <1>4, <1>5, <1>6 DEF Inductive

LEMMA InductiveStep == Inductive /\ [Next]_vars => Inductive'
<1>1. SUFFICES ASSUME Inductive, [Next]_vars PROVE Inductive'
  OBVIOUS
<1>2. CASE Seed
  BY <1>1, <1>2, SeedKeeps
<1>3. CASE VisitAgain \/ Visit
  BY <1>1, <1>3, WalkKeeps
<1>4. CASE EndWalk
  BY <1>1, <1>4, EndWalkKeeps
<1>5. CASE \E S \in Matches : Inject(S)
  BY <1>1, <1>5, InjectKeeps
<1>6. CASE \E b \in Bm25Answers : QueryIfSparse(b)
  BY <1>1, <1>6, QueryKeeps
<1>7. CASE \E m \in Multipliers : Multiply(m)
  BY <1>1, <1>7, MultiplyKeeps
<1>8. CASE UNCHANGED vars
  BY <1>1, <1>8, RestKeeps
<1>9. QED
  BY <1>1, <1>2, <1>3, <1>4, <1>5, <1>6, <1>7, <1>8, StepKinds

LEMMA AlwaysInductive == Spec => []Inductive
<1>1. Init => Inductive
  BY InductiveInit
<1>2. Inductive /\ [Next]_vars => Inductive'
  BY InductiveStep
<1>3. QED
  BY <1>1, <1>2, PTL DEF Spec

\* What the walk collects and what is ranked are lists of files with scores; the
\* walk visits a file once and no more than twice the files wanted (_bfs), and
\* get_relevant, the keywords and BM25 never bring more than wanted.
THEOREM TypeCorrect == Spec => []TypeOK
<1>1. Inductive => TypeOK
  BY DEF Inductive, Shape, WalkOK, TypeOK, Visited
<1>2. QED
  BY <1>1, AlwaysInductive, PTL

\* The assembly gets a list in descending order of scores that names no file
\* twice, although the walk, the keywords, BM25 and the multipliers made it.
THEOREM HandedOverSorted == Spec => []HandedOver
<1>1. Inductive => HandedOver
  BY DEF Inductive
<1>2. QED
  BY <1>1, AlwaysInductive, PTL

\* "structural edges still dominate": what keywords and BM25 bring comes after
\* every file found over edges, for any graph, any answer and any rounding.
THEOREM EdgesFirst == Spec => []EdgesDominate
<1>1. Inductive => EdgesDominate
  BY DEF Inductive, Ranked, RankedOK, EdgesDominate
<1>2. QED
  BY <1>1, AlwaysInductive, PTL

\* However many files change at once, the active file is ranked when there is
\* room for it beside them, and only changed files come before it.
THEOREM ActiveKept == Spec => []ActiveRanked
<1>1. ASSUME Inductive, pc = "learned", active \in exists,
             Cardinality(changed \union {active}) <= n
      PROVE  \E i \in DOMAIN results :
                 /\ results[i].file = active
                 /\ \A j \in 1..i - 1 : results[j].file \in changed
  <2>1. Top(results) /\ Sorted(results) /\ results \in Seq(Candidate)
    BY <1>1 DEF Inductive, Tops, Room, Ranked, RankedOK
  <2>2. PICK i \in DOMAIN results :
            /\ results[i].file = active
            /\ \A j \in DOMAIN results : j # i /\ results[j].score >= results[i].score
                                             => results[j].file \in changed
    BY <2>1 DEF Top
  <2>3. ASSUME NEW j \in 1..i - 1 PROVE results[j].file \in changed
    <3>1. j \in DOMAIN results /\ j < i
      BY <2>1
    <3>2. results[j].score >= results[i].score /\ j # i
      BY <2>1, <3>1 DEF Sorted
    <3>3. QED
      BY <2>2, <3>1, <3>2
  <2>4. QED
    BY <2>2, <2>3
<1>2. Inductive => ActiveRanked
  BY <1>1 DEF ActiveRanked
<1>3. QED
  BY <1>2, AlwaysInductive, PTL

-----------------------------------------------------------------------------
(* Scores and paths *)

\* What holds at 0 and passes from each number to the next holds up to m.
LEMMA UpTo ==
    ASSUME NEW m \in Nat, NEW S \in SUBSET (0..m), 0 \in S,
           \A k \in 0..m : k + 1 \in 0..m /\ k \in S => k + 1 \in S
    PROVE  S = 0..m
<1> DEFINE rest == (0..m) \ S
<1>1. SUFFICES ASSUME rest # {} PROVE FALSE
  OBVIOUS
<1>2. rest \in SUBSET Nat
  OBVIOUS
<1>3. Min(rest) \in rest /\ \A y \in rest : Min(rest) <= y
  BY <1>1, <1>2, Smallest
<1> DEFINE k == Min(rest) - 1
<1>4. k \in 0..m /\ k + 1 = Min(rest) /\ k < Min(rest)
  BY <1>3
<1>5. k \in S
  BY <1>3, <1>4
<1>6. k + 1 \in S
  BY <1>3, <1>4, <1>5
<1>7. QED
  BY <1>3, <1>4, <1>6

LEMMA Greatest ==
    ASSUME NEW m \in Nat, NEW S \in SUBSET (0..m), S # {}
    PROVE  Max(S) \in S /\ \A y \in S : y <= Max(S)
<1> DEFINE R == {k \in 0..m : m - k \in S}
<1>1. R \in SUBSET Nat /\ R # {}
  <2>1. PICK y \in S : TRUE
    OBVIOUS
  <2>2. m - y \in 0..m /\ m - (m - y) = y
    OBVIOUS
  <2>3. m - y \in R
    BY <2>2
  <2>4. QED
    BY <2>3
<1>2. Min(R) \in R /\ \A k \in R : Min(R) <= k
  BY <1>1, Smallest
<1> DEFINE x == m - Min(R)
<1>3. x \in S /\ Min(R) \in 0..m
  BY <1>2
<1>4. ASSUME NEW y \in S PROVE y <= x
  <2>1. m - y \in 0..m /\ m - (m - y) = y
    OBVIOUS
  <2>2. m - y \in R
    BY <2>1
  <2>3. Min(R) <= m - y
    BY <1>2, <2>2
  <2>4. QED
    BY <1>3, <2>3
<1> HIDE DEF x
<1>5. x \in S /\ \A y \in S : x >= y
  BY <1>3, <1>4
<1>6. QED
  BY <1>5 DEF Max

\* The best score there is.
Most == 2 * Unit

Scores == [File -> 0..Most]

\* What the seeds give, and what one more edge gives: the two parts of BestBy.
Base == [f \in File |-> Max({0} \union {Seeds[i].score : i \in
                                 {j \in DOMAIN Seeds : Seeds[j].file = f}})]

Over(b) == [f \in File |->
               Max({b[f]} \union {Passed(b[g]) : g \in ImportedBy(f)}
                          \union {Back(Passed(b[g])) : g \in Imports(f)})]

LEMMA BaseIs ==
    ASSUME InputOK
    PROVE  /\ Base \in Scores
           /\ \A i \in DOMAIN Seeds : Seeds[i].score <= Base[Seeds[i].file]
           /\ \A f \in File : \/ Base[f] = 0
                              \/ \E i \in DOMAIN Seeds : /\ Seeds[i].file = f
                                                         /\ Base[f] = Seeds[i].score
<1> DEFINE S(f) == {0} \union {Seeds[i].score : i \in {j \in DOMAIN Seeds : Seeds[j].file = f}}
           x == 2 * Unit
           y == (3 * Unit) \div 2
<1>1. /\ Seeds \in Seq(Candidate)
      /\ \A i \in DOMAIN Seeds : Seeds[i].score = x \/ Seeds[i].score = y
  BY SeedsAre
<1>2. Most \in Nat /\ x \in 0..Most /\ y \in 0..Most
  <2>1. Most \in Nat /\ x \in Nat /\ y \in Nat
    BY SMT DEF Unit, Most
  <2>2. x <= Most /\ y <= Most
    BY SMT DEF Unit, Most
  <2> HIDE DEF x, y, Most
  <2>3. QED
    BY <2>1, <2>2
<1> HIDE DEF x, y
<1>3. \A i \in DOMAIN Seeds : Seeds[i].score \in 0..Most
  BY <1>1, <1>2
<1>4. ASSUME NEW f \in File
      PROVE  /\ Max(S(f)) \in S(f) /\ Max(S(f)) \in 0..Most
             /\ \A z \in S(f) : z <= Max(S(f))
  <2>1. S(f) \in SUBSET (0..Most) /\ S(f) # {} /\ Most \in Nat
    BY <1>2, <1>3
  <2> HIDE DEF S
  <2>2. QED
    BY <2>1, Greatest
<1>5. Base = [f \in File |-> Max(S(f))]
  BY DEF Base
<1>6. \A i \in DOMAIN Seeds : Seeds[i].file \in File /\ Seeds[i].score \in S(Seeds[i].file)
  <2>1. \A i \in DOMAIN Seeds : Seeds[i] \in Candidate
    BY <1>1
  <2>2. QED
    BY <2>1 DEF Candidate
<1>7. \A f \in File : \A z \in S(f) :
          z = 0 \/ \E i \in DOMAIN Seeds : Seeds[i].file = f /\ z = Seeds[i].score
  OBVIOUS
<1> HIDE DEF S
<1>8. Base \in Scores /\ \A f \in File : Base[f] = Max(S(f))
  BY <1>4, <1>5 DEF Scores
<1>9. QED
  BY <1>4, <1>6, <1>7, <1>8

LEMMA OverIs ==
    ASSUME NEW b \in Scores
    PROVE  /\ Over(b) \in Scores
           /\ \A f \in File :
                  /\ b[f] <= Over(b)[f]
                  /\ \A g \in ImportedBy(f) : Passed(b[g]) <= Over(b)[f]
                  /\ \A g \in Imports(f) : Back(Passed(b[g])) <= Over(b)[f]
                  /\ \/ Over(b)[f] = b[f]
                     \/ \E g \in ImportedBy(f) : Over(b)[f] = Passed(b[g])
                     \/ \E g \in Imports(f) : Over(b)[f] = Back(Passed(b[g]))
<1> DEFINE S(f) == {b[f]} \union {Passed(b[g]) : g \in ImportedBy(f)}
                          \union {Back(Passed(b[g])) : g \in Imports(f)}
<1>1. Most \in Nat
  BY DEF Unit, Most
<1>2. \A g \in File : b[g] \in 0..Most
  BY DEF Scores
<1>3. \A g \in File : Passed(b[g]) \in 0..Most /\ Back(Passed(b[g])) \in 0..Most
  <2>1. TAKE g \in File
  <2>2. b[g] \in Nat /\ b[g] <= Most
    BY <1>1, <1>2
  <2>3. Passed(b[g]) \in Nat /\ Passed(b[g]) <= b[g]
    BY <2>2, PassedOn
  <2>4. Back(Passed(b[g])) \in Nat /\ Back(Passed(b[g])) <= Passed(b[g])
    BY <2>3, PassedOn
  <2>5. QED
    BY <1>1, <2>2, <2>3, <2>4
<1>4. \A f \in File : Imports(f) \subseteq File /\ ImportedBy(f) \subseteq File
  BY DEF Imports, ImportedBy
<1>5. ASSUME NEW f \in File
      PROVE  /\ Max(S(f)) \in S(f) /\ Max(S(f)) \in 0..Most
             /\ \A y \in S(f) : y <= Max(S(f))
  <2>1. S(f) \in SUBSET (0..Most) /\ S(f) # {}
    BY <1>2, <1>3, <1>4
  <2> HIDE DEF S
  <2>2. QED
    BY <1>1, <2>1, Greatest
<1>6. Over(b) = [f \in File |-> Max(S(f))]
  BY DEF Over
<1>7. \A f \in File :
          /\ b[f] \in S(f)
          /\ \A g \in ImportedBy(f) : Passed(b[g]) \in S(f)
          /\ \A g \in Imports(f) : Back(Passed(b[g])) \in S(f)
          /\ \A y \in S(f) : \/ y = b[f]
                             \/ \E g \in ImportedBy(f) : y = Passed(b[g])
                             \/ \E g \in Imports(f) : y = Back(Passed(b[g]))
  OBVIOUS
<1> HIDE DEF S
<1>8. Over(b) \in Scores /\ \A f \in File : Over(b)[f] = Max(S(f))
  BY <1>5, <1>6 DEF Scores
<1>9. QED
  BY <1>5, <1>7, <1>8

\* BestBy is what its two cases say.
LEMMA BestByIs ==
    ASSUME InputOK
    PROVE  /\ BestBy \in [0..N -> Scores]
           /\ BestBy[0] = Base
           /\ \A k \in 0..N : k + 1 \in 0..N => BestBy[k + 1] = Over(BestBy[k])
<1> DEFINE Fits(F, m) == /\ F \in [0..m -> Scores] /\ F[0] = Base
                         /\ \A k \in 0..m : k + 1 \in 0..m => F[k + 1] = Over(F[k])
           S == {m \in 0..N : \E F \in [0..m -> Scores] : Fits(F, m)}
<1>1. N \in Nat
  BY ConstantsAssumption
<1>2. Base \in Scores
  BY BaseIs
<1>3. 0 \in S
  <2> DEFINE F == [k \in 0..0 |-> Base]
  <2>1. F \in [0..0 -> Scores] /\ F[0] = Base /\ \A k \in 0..0 : ~(k + 1 \in 0..0)
    BY <1>2
  <2> HIDE DEF F
  <2>2. Fits(F, 0)
    BY <2>1
  <2>3. QED
    BY <1>1, <2>1, <2>2
<1>4. ASSUME NEW m \in 0..N, m + 1 \in 0..N, m \in S PROVE m + 1 \in S
  <2>1. PICK F \in [0..m -> Scores] : Fits(F, m)
    BY <1>4
  <2> DEFINE G == [k \in 0..m + 1 |-> IF k = m + 1 THEN Over(F[m]) ELSE F[k]]
  <2>2. m \in Nat /\ m \in 0..m /\ F[m] \in Scores
    BY <1>1, <2>1
  <2>3. Over(F[m]) \in Scores
    BY <2>2, OverIs
  <2>4. \A k \in 0..m + 1 : k = m + 1 \/ k \in 0..m
    BY <2>2
  <2>5. G \in [0..m + 1 -> Scores]
    BY <2>1, <2>3, <2>4
  <2>6. /\ \A k \in 0..m : G[k] = F[k]
        /\ G[m + 1] = Over(F[m])
    BY <2>2
  <2> HIDE DEF G
  <2>7. G[0] = Base
    BY <2>1, <2>2, <2>6
  <2>8. \A k \in 0..m + 1 : k + 1 \in 0..m + 1 => G[k + 1] = Over(G[k])
    <3>1. SUFFICES ASSUME NEW k \in 0..m + 1, k + 1 \in 0..m + 1 PROVE G[k + 1] = Over(G[k])
      OBVIOUS
    <3>2. k \in 0..m /\ (k = m \/ k + 1 \in 0..m)
      BY <2>2, <3>1
    <3>3. QED
      BY <2>1, <2>6, <3>2
  <2>9. Fits(G, m + 1)
    BY <2>5, <2>7, <2>8
  <2>10. QED
    BY <1>4, <2>5, <2>9
<1>5. S = 0..N
  <2>1. S \in SUBSET (0..N)
    OBVIOUS
  <2>2. \A k \in 0..N : k + 1 \in 0..N /\ k \in S => k + 1 \in S
    BY <1>4
  <2> HIDE DEF S
  <2>3. QED
    BY <1>1, <1>3, <2>1, <2>2, UpTo
<1>6. PICK F \in [0..N -> Scores] : Fits(F, N)
  <2>1. N \in S
    BY <1>1, <1>5
  <2>2. QED
    BY <2>1
<1> DEFINE Def(G) == G = [k \in 0..N |->
               IF k = 0 THEN [f \in File |-> Max({0} \union {Seeds[i].score : i \in
                                     {j \in DOMAIN Seeds : Seeds[j].file = f}})]
               ELSE [f \in File |->
                        Max({G[k - 1][f]}
                            \union {Passed(G[k - 1][g]) : g \in ImportedBy(f)}
                            \union {Back(Passed(G[k - 1][g])) : g \in Imports(f)})]]
<1>7. ASSUME NEW G PROVE Def(G) <=> G = [k \in 0..N |-> IF k = 0 THEN Base ELSE Over(G[k - 1])]
  BY DEF Base, Over
<1>8. Def(F)
  <2>1. \A k \in 0..N : k # 0 => k - 1 \in 0..N /\ (k - 1) + 1 = k
    BY <1>1
  <2>2. \A k \in 0..N : F[k] = IF k = 0 THEN Base ELSE Over(F[k - 1])
    BY <1>6, <2>1
  <2> HIDE DEF Def
  <2>3. QED
    BY <1>6, <1>7, <2>2
<1>9. BestBy = CHOOSE G : Def(G)
  BY SMT DEF BestBy
<1> HIDE DEF Def
<1>10. Def(BestBy)
  BY <1>8, <1>9
<1>11. BestBy = [k \in 0..N |-> IF k = 0 THEN Base ELSE Over(BestBy[k - 1])]
  BY <1>7, <1>10
<1> DEFINE B == BestBy
<1>12. B = [k \in 0..N |-> IF k = 0 THEN Base ELSE Over(B[k - 1])]
  BY <1>11
<1> HIDE DEF B
<1>13. /\ B[0] = Base
       /\ \A k \in 0..N : k + 1 \in 0..N => B[k + 1] = Over(B[k])
  <2>1. \A k \in 0..N : B[k] = IF k = 0 THEN Base ELSE Over(B[k - 1])
    BY <1>12
  <2>2. \A k \in 0..N : k + 1 # 0 /\ (k + 1) - 1 = k
    BY <1>1
  <2>3. 0 \in 0..N
    BY <1>1
  <2>4. QED
    BY <2>1, <2>2, <2>3
<1>14. {k \in 0..N : B[k] \in Scores} = 0..N
  <2> DEFINE T == {k \in 0..N : B[k] \in Scores}
  <2>1. 0 \in T
    BY <1>1, <1>2, <1>13
  <2>2. \A k \in 0..N : k + 1 \in 0..N /\ k \in T => k + 1 \in T
    BY <1>13, OverIs
  <2>3. T \in SUBSET (0..N)
    OBVIOUS
  <2> HIDE DEF T
  <2>4. T = 0..N
    BY <1>1, <2>1, <2>2, <2>3, UpTo
  <2>5. QED
    BY <2>4 DEF T
<1>15. B \in [0..N -> Scores]
  <2>1. \A k \in 0..N : B[k] \in Scores
    BY <1>14
  <2>2. B = [k \in 0..N |-> B[k]]
    BY <1>12
  <2>3. QED
    BY <2>1, <2>2
<1>16. QED
  BY <1>13, <1>15 DEF B

\* What passes on grows with what there is.
LEMMA PassedMore ==
    ASSUME NEW s \in Nat, NEW t \in Nat, s <= t
    PROVE  Passed(s) <= Passed(t) /\ Back(s) <= Back(t)
<1> DEFINE a == s \div 100
           b == t \div 100
           c == s \div 10
           d == t \div 10
<1>1. /\ a \in Nat /\ 100 * a <= s /\ s < 100 * a + 100
      /\ b \in Nat /\ 100 * b <= t /\ t < 100 * b + 100
  OBVIOUS
<1>2. /\ c \in Nat /\ 10 * c <= s /\ s < 10 * c + 10
      /\ d \in Nat /\ 10 * d <= t /\ t < 10 * d + 10
  OBVIOUS
<1>3. Passed(s) = a * 65 /\ Passed(t) = b * 65 /\ Back(s) = c * 9 /\ Back(t) = d * 9
  BY DEF Passed, Back
<1> HIDE DEF a, b, c, d
<1>4. a <= b /\ c <= d
  BY <1>1, <1>2
<1>5. QED
  BY <1>1, <1>2, <1>3, <1>4

\* No edge passes on what a seed has.
LEMMA SeedsHigh ==
    ASSUME InputOK
    PROVE  /\ \A i \in DOMAIN Seeds : Seeds[i] \in Candidate /\ Seeds[i].score \in Nat
           /\ \A i, j \in DOMAIN Seeds :
                  /\ Passed(Seeds[i].score) <= Seeds[j].score
                  /\ Back(Passed(Seeds[i].score)) <= Seeds[j].score
<1> DEFINE x == 2 * Unit
           y == (3 * Unit) \div 2
<1>1. /\ Seeds \in Seq(Candidate)
      /\ \A i \in DOMAIN Seeds : Seeds[i].score = x \/ Seeds[i].score = y
  BY SeedsAre
<1>2. x \in Nat /\ y \in Nat /\ y <= x
  BY SMT DEF Unit
<1>3. Passed(x) \in Nat /\ Passed(x) < y
  BY <1>2, PassedOn
<1> HIDE DEF x, y
<1>4. Passed(y) \in Nat /\ Passed(y) <= Passed(x)
  BY <1>2, PassedOn, PassedMore
<1>5. /\ Back(Passed(x)) \in Nat /\ Back(Passed(x)) <= Passed(x)
      /\ Back(Passed(y)) \in Nat /\ Back(Passed(y)) <= Passed(y)
  BY <1>3, <1>4, PassedOn
<1>6. /\ Passed(x) <= x /\ Passed(x) <= y /\ Passed(y) <= x /\ Passed(y) <= y
      /\ Back(Passed(x)) <= x /\ Back(Passed(x)) <= y
      /\ Back(Passed(y)) <= x /\ Back(Passed(y)) <= y
  BY <1>2, <1>3, <1>4, <1>5
<1>7. \A i \in DOMAIN Seeds : Seeds[i] \in Candidate /\ Seeds[i].score \in Nat
  <2>1. \A i \in DOMAIN Seeds : Seeds[i] \in Candidate
    BY <1>1
  <2>2. QED
    BY <2>1 DEF Candidate
<1>8. QED
  BY <1>1, <1>6, <1>7

\* What the walk reaches from a file: one candidate for each edge, with what
\* passes over it.
LEMMA NeighborsOver ==
    ASSUME InputOK, NEW f \in File, NEW score \in Nat, NEW seen,
           NEW o \in Neighbors(f, score, seen)
    PROVE  /\ o \in Seq(Candidate)
           /\ \A i \in DOMAIN o :
                  \/ <<f, o[i].file>> \in graph /\ o[i].score = Passed(score)
                  \/ <<o[i].file, f>> \in graph /\ o[i].score = Back(Passed(score))
           /\ \A g \in File \ seen :
                  /\ <<f, g>> \in graph =>
                         \E i \in DOMAIN o : o[i].file = g /\ o[i].score = Passed(score)
                  /\ <<g, f>> \in graph =>
                         \E i \in DOMAIN o : o[i].file = g /\ o[i].score = Back(Passed(score))
<1> DEFINE x == Passed(score)
           y == Back(Passed(score))
           A == Imports(f) \ seen
           Z == ImportedBy(f) \ seen
<1>1. x \in Nat /\ y \in Nat
  BY PassedOn
<1>2. /\ A \in SUBSET File /\ Z \in SUBSET File
      /\ \A g \in A : <<f, g>> \in graph
      /\ \A g \in Z : <<g, f>> \in graph
      /\ \A g \in File \ seen : (<<f, g>> \in graph => g \in A) /\ (<<g, f>> \in graph => g \in Z)
  BY DEF Imports, ImportedBy
<1> DEFINE LA == Listed(A, x)
           LZ == Listed(Z, y)
<1>3. o \in {p[1] \o p[2] : p \in LA \X LZ}
  BY DEF Neighbors
<1> HIDE DEF LA, LZ, x, y, A, Z
<1>4. PICK a \in LA, b \in LZ : o = a \o b
  BY ONLY <1>3, JoinedOf
<1> USE DEF LA, LZ
<1>5. /\ a \in Seq(Candidate) /\ FilesOf(a) = A
      /\ \A i \in DOMAIN a : a[i].score = x /\ a[i].file \in A
  BY <1>1, <1>2, ListedIs
<1>6. /\ b \in Seq(Candidate) /\ FilesOf(b) = Z
      /\ \A i \in DOMAIN b : b[i].score = y /\ b[i].file \in Z
  BY <1>1, <1>2, ListedIs
<1>7. /\ o \in Seq(Candidate)
      /\ \A i \in DOMAIN a : i \in DOMAIN o /\ o[i] = a[i]
      /\ \A i \in DOMAIN b : Len(a) + i \in DOMAIN o /\ o[Len(a) + i] = b[i]
      /\ \A i \in DOMAIN o : \/ i \in DOMAIN a /\ o[i] = a[i]
                             \/ i - Len(a) \in DOMAIN b /\ o[i] = b[i - Len(a)]
  BY <1>4, <1>5, <1>6, ConcatIs
<1>8. \A i \in DOMAIN o : \/ <<f, o[i].file>> \in graph /\ o[i].score = x
                          \/ <<o[i].file, f>> \in graph /\ o[i].score = y
  BY <1>2, <1>5, <1>6, <1>7
<1>9. ASSUME NEW g \in A PROVE \E i \in DOMAIN o : o[i].file = g /\ o[i].score = x
  <2>1. PICK i \in DOMAIN a : a[i].file = g
    BY <1>5 DEF FilesOf
  <2>2. QED
    BY <1>5, <1>7, <2>1
<1>10. ASSUME NEW g \in Z PROVE \E i \in DOMAIN o : o[i].file = g /\ o[i].score = y
  <2>1. PICK i \in DOMAIN b : b[i].file = g
    BY <1>6 DEF FilesOf
  <2>2. QED
    BY <1>6, <1>7, <2>1
<1>11. QED
  BY <1>2, <1>7, <1>8, <1>9, <1>10 DEF x, y

-----------------------------------------------------------------------------
(* No file is rated above its best path. *)

\* What the proof needs of BestBy: it holds for every score a path gives.
Paths(B) ==
    /\ \A i \in DOMAIN Seeds : Seeds[i].score <= B[0][Seeds[i].file]
    /\ \A k \in 0..N : k + 1 \in 0..N =>
           \A f, g \in File :
               /\ B[k][f] <= B[k + 1][f]
               /\ <<g, f>> \in graph => Passed(B[k][g]) <= B[k + 1][f]
               /\ <<f, g>> \in graph => Back(Passed(B[k][g])) <= B[k + 1][f]

\* The scores of a list stay below b.
Under(b, r) == \A i \in DOMAIN r : r[i].score <= b[r[i].file]

LEMMA NeighborsUnder ==
    ASSUME InputOK, NEW b \in Scores, NEW c \in Scores, NEW f \in File, NEW score \in Nat,
           NEW seen, NEW o \in Neighbors(f, score, seen), score <= b[f],
           \A g \in File : /\ <<f, g>> \in graph => Passed(b[f]) <= c[g]
                           /\ <<g, f>> \in graph => Back(Passed(b[f])) <= c[g]
    PROVE  Under(c, o)
<1>1. /\ o \in Seq(Candidate)
      /\ \A i \in DOMAIN o :
             \/ <<f, o[i].file>> \in graph /\ o[i].score = Passed(score)
             \/ <<o[i].file, f>> \in graph /\ o[i].score = Back(Passed(score))
  BY NeighborsOver
<1>2. b[f] \in Nat /\ \A g \in File : c[g] \in Nat
  <2>1. Most \in Nat
    BY SMT DEF Most, Unit
  <2>2. QED
    BY <2>1 DEF Scores
<1>3. /\ Passed(score) \in Nat /\ Passed(b[f]) \in Nat /\ Passed(score) <= Passed(b[f])
  BY <1>2, PassedOn, PassedMore
<1>4. /\ Back(Passed(score)) \in Nat /\ Back(Passed(b[f])) \in Nat
      /\ Back(Passed(score)) <= Back(Passed(b[f]))
  BY <1>3, PassedOn, PassedMore
<1>5. SUFFICES ASSUME NEW i \in DOMAIN o PROVE o[i].score <= c[o[i].file]
  BY DEF Under
<1> DEFINE g == o[i].file
           s == o[i].score
<1>6. g \in File /\ s \in Nat
  <2>1. o[i] \in Candidate
    BY <1>1
  <2>2. QED
    BY <2>1 DEF Candidate
<1>7. \/ <<f, g>> \in graph /\ s = Passed(score)
      \/ <<g, f>> \in graph /\ s = Back(Passed(score))
  BY <1>1
<1> HIDE DEF g, s
<1>8. c[g] \in Nat
  BY <1>2, <1>6
<1>9. s <= c[g]
  <2>1. CASE <<f, g>> \in graph /\ s = Passed(score)
    <3>1. Passed(b[f]) <= c[g]
      BY <1>6, <2>1
    <3>2. QED
      BY <1>3, <1>8, <2>1, <3>1
  <2>2. CASE <<g, f>> \in graph /\ s = Back(Passed(score))
    <3>1. Back(Passed(b[f])) <= c[g]
      BY <1>6, <2>2
    <3>2. QED
      BY <1>4, <1>8, <2>2, <3>1
  <2>3. QED
    BY <1>7, <2>1, <2>2
<1>10. QED
  BY <1>9 DEF g, s

\* A list that names no file twice is no longer than there are files.
LEMMA FewVisited ==
    ASSUME NEW v \in Seq(Candidate), Distinct(v)
    PROVE  Len(v) \in 0..N
<1>1. N \in Nat /\ Len(v) \in Nat /\ DOMAIN v = 1..Len(v)
  BY ConstantsAssumption
<1>2. IsFiniteSet(File) /\ Cardinality(File) = N
  BY <1>1, FirstNumbers DEF File
<1>3. \A a \in DOMAIN v : v[a].file \in File
  <2>1. \A a \in DOMAIN v : v[a] \in Candidate
    OBVIOUS
  <2>2. QED
    BY <2>1 DEF Candidate
<1>4. Cardinality(DOMAIN v) <= Cardinality(File)
  <2> DEFINE A == DOMAIN v
  <2>1. A \in SUBSET DOMAIN v /\ \A a \in A : v[a].file \in File
    BY <1>3
  <2> HIDE DEF A
  <2>2. Cardinality(A) <= Cardinality(File)
    BY <1>2, <2>1, FewNames
  <2>3. QED
    BY <2>2 DEF A
<1>5. Cardinality(DOMAIN v) = Len(v)
  BY <1>1, FirstNumbers
<1>6. QED
  BY <1>1, <1>2, <1>4, <1>5

LEMMA AgainUnder ==
    ASSUME InputOK, WalkOK, VisitAgain, NEW b, Under(b, queue), Under(b, visited)
    PROVE  Len(visited') = Len(visited) /\ Under(b, queue') /\ Under(b, visited')
<1>1. /\ queue \in Seq(Candidate) /\ queue # <<>> /\ visited \in Seq(Candidate)
      /\ visited' = Raise(visited, Current) /\ queue' = Tail(queue)
      /\ Current \in Candidate /\ Current = queue[1]
  BY AgainStep DEF WalkOK
<1>2. /\ 1 \in DOMAIN queue
      /\ \A i \in DOMAIN queue' : i + 1 \in DOMAIN queue /\ queue'[i] = queue[i + 1]
  BY <1>1, QueueIs
<1>3. /\ DOMAIN visited' = DOMAIN visited /\ Len(visited') = Len(visited)
      /\ \A i \in DOMAIN visited : visited'[i] = visited[i] \/ visited'[i] = Current
  BY <1>1, RaiseIs
<1>4. QED
  BY <1>1, <1>2, <1>3 DEF Under

\* What is visited was reached over no more edges than files were visited
\* before it.
LEMMA VisitUnder ==
    ASSUME InputOK, WalkOK, Visit, NEW B \in [0..N -> Scores], Paths(B),
           Under(B[Len(visited)], queue), Under(B[Len(visited)], visited)
    PROVE  Under(B[Len(visited')], queue') /\ Under(B[Len(visited')], visited')
<1>1. /\ WalkOK' /\ queue \in Seq(Candidate) /\ queue # <<>> /\ visited \in Seq(Candidate)
      /\ Distinct(visited) /\ visited' \in Seq(Candidate) /\ Distinct(visited')
      /\ visited' = Append(visited, Current)
      /\ Current \in Candidate /\ Current = queue[1]
  BY VisitStep DEF WalkOK, Distinct
<1>2. /\ 1 \in DOMAIN queue /\ Tail(queue) \in Seq(Candidate)
      /\ \A i \in DOMAIN Tail(queue) : i + 1 \in DOMAIN queue /\ Tail(queue)[i] = queue[i + 1]
  BY <1>1, QueueIs
<1>3. /\ Len(visited') = Len(visited) + 1
      /\ \A i \in DOMAIN visited' : \/ i \in DOMAIN visited /\ visited'[i] = visited[i]
                                    \/ visited'[i] = Current
  BY <1>1, AppendIs
<1> DEFINE k == Len(visited)
           b == B[k]
           c == B[k + 1]
<1>4. k \in 0..N /\ k + 1 \in 0..N
  BY <1>1, <1>3, FewVisited
<1>5. b \in Scores /\ c \in Scores
  BY <1>4
<1>6. \A f, g \in File : /\ b[f] <= c[f]
                         /\ <<g, f>> \in graph => Passed(b[g]) <= c[f]
                         /\ <<f, g>> \in graph => Back(Passed(b[g])) <= c[f]
  BY <1>4 DEF Paths
<1>7. Under(b, queue) /\ Under(b, visited) /\ B[Len(visited')] = c
  BY <1>3
<1> HIDE DEF k, b, c
<1>8. \A f \in File : b[f] \in Nat /\ c[f] \in Nat
  <2>1. Most \in Nat
    BY SMT DEF Most, Unit
  <2>2. QED
    BY <1>5, <2>1 DEF Scores
<1>9. ASSUME NEW s \in Candidate, s.score <= b[s.file] PROVE s.score <= c[s.file]
  <2>1. s.score \in Nat /\ s.file \in File
    BY DEF Candidate
  <2>2. b[s.file] <= c[s.file] /\ b[s.file] \in Nat /\ c[s.file] \in Nat
    BY <1>6, <1>8, <2>1
  <2>3. QED
    BY <1>9, <2>1, <2>2
<1>10. Current.score <= b[Current.file]
  BY <1>1, <1>2, <1>7 DEF Under
<1>11. Under(c, visited')
  <2>1. \A i \in DOMAIN visited : visited[i] \in Candidate
    BY <1>1
  <2>2. \A i \in DOMAIN visited' : /\ visited'[i] \in Candidate
                                   /\ visited'[i].score <= b[visited'[i].file]
    BY <1>1, <1>3, <1>7, <1>10, <2>1 DEF Under
  <2>3. QED
    BY <1>9, <2>2 DEF Under
<1>12. Under(c, Tail(queue))
  <2>1. \A i \in DOMAIN Tail(queue) : /\ Tail(queue)[i] \in Candidate
                                      /\ Tail(queue)[i].score <= b[Tail(queue)[i].file]
    BY <1>2, <1>7 DEF Under
  <2>2. QED
    BY <1>9, <2>1 DEF Under
<1>13. Under(c, queue')
  <2>1. CASE queue' = <<>>
    BY <2>1 DEF Under
  <2>2. CASE queue' = Tail(queue)
    BY <1>12, <2>2
  <2>3. CASE \E new \in Neighbors(Current.file, Current.score, Visited \union {Current.file}) :
                 queue' = Tail(queue) \o new
    <3>1. PICK new \in Neighbors(Current.file, Current.score, Visited \union {Current.file}) :
               queue' = Tail(queue) \o new
      BY <2>3
    <3>2. Current.file \in File /\ Current.score \in Nat
      BY <1>1 DEF Candidate
    <3>3. Under(c, new)
      BY <1>5, <1>6, <1>10, <3>2, NeighborsUnder
    <3>4. new \in Seq(Candidate)
      BY <3>2, NeighborsAre
    <3>5. \A i \in DOMAIN queue' :
              \/ i \in DOMAIN Tail(queue) /\ queue'[i] = Tail(queue)[i]
              \/ /\ i - Len(Tail(queue)) \in DOMAIN new
                 /\ queue'[i] = new[i - Len(Tail(queue))]
      BY <1>2, <3>1, <3>4, ConcatIs
    <3>6. QED
      BY <1>12, <3>3, <3>5 DEF Under
  <2>4. QED
    BY <2>1, <2>2, <2>3 DEF Visit
<1>14. QED
  BY <1>7, <1>11, <1>13

-----------------------------------------------------------------------------
(* What a seed has and passes over one edge arrives. *)

\* Every file keeps what it has as a seed.
SeedsKeep(v) ==
    \A i \in DOMAIN v, j \in DOMAIN Seeds :
        v[i].file = Seeds[j].file => v[i].score >= Seeds[j].score

\* The seeds are visited first, in their order, as they are.
InTurn(v, q) ==
    /\ Len(v) < Len(Seeds)
    /\ \A i \in 1..Len(v) : v[i] = Seeds[i]
    /\ \A i \in 1..(Len(Seeds) - Len(v)) : i \in DOMAIN q /\ q[i] = Seeds[Len(v) + i]

SeedsFirst(v, q) == Full(v) \/ FilesOf(Seeds) \subseteq FilesOf(v) \/ InTurn(v, q)

\* Visited or waiting, with that score at least.
Comes(v, q, f, score) ==
    \/ \E i \in DOMAIN v : v[i].file = f /\ v[i].score >= score
    \/ \E i \in DOMAIN q : q[i].file = f /\ q[i].score >= score

\* What a visited seed passes over one edge is on its way.
OneEdge(v, q) ==
    ~Full(v) =>
        \A j \in DOMAIN Seeds, f \in File :
            Seeds[j].file \in FilesOf(v) /\ Passed(Seeds[j].score) >= Floor =>
                /\ <<Seeds[j].file, f>> \in graph => Comes(v, q, f, Passed(Seeds[j].score))
                /\ <<f, Seeds[j].file>> \in graph => Comes(v, q, f, Back(Passed(Seeds[j].score)))

\* The walk is not cut while a file waits.
LEMMA GoesOn ==
    ASSUME InputOK, WalkOK, queue # <<>>
    PROVE  ~Full(visited)
<1>1. Len(visited) \in Nat /\ Len(visited) < 2 * n /\ n \in Nat
  BY DEF InputOK, WalkOK, NotCut
<1>2. QED
  BY <1>1 DEF Full

\* While not all seeds are visited the next one to visit is a seed, and it was
\* not visited.
LEMMA NextSeed ==
    ASSUME InputOK, WalkOK, queue # <<>>, SeedsFirst(visited, queue),
           ~(FilesOf(Seeds) \subseteq FilesOf(visited))
    PROVE  /\ InTurn(visited, queue) /\ Len(visited) + 1 \in DOMAIN Seeds
           /\ Current = Seeds[Len(visited) + 1] /\ Current.file \notin FilesOf(visited)
<1>1. InTurn(visited, queue)
  BY GoesOn DEF SeedsFirst
<1> DEFINE k == Len(visited)
           m == Len(Seeds)
<1>2. /\ visited \in Seq(Candidate) /\ queue \in Seq(Candidate) /\ Seeds \in Seq(Candidate)
      /\ Distinct(Seeds)
  BY SeedsAre DEF WalkOK
<1>3. /\ k \in Nat /\ m \in Nat /\ DOMAIN visited = 1..k /\ DOMAIN Seeds = 1..m /\ k < m
  BY <1>1, <1>2 DEF InTurn
<1>4. /\ \A i \in 1..k : visited[i] = Seeds[i]
      /\ \A i \in 1..(m - k) : i \in DOMAIN queue /\ queue[i] = Seeds[k + i]
  BY <1>1 DEF InTurn
<1> HIDE DEF k, m
<1>5. k + 1 \in DOMAIN Seeds /\ 1 \in 1..(m - k)
  BY <1>3
<1>6. Current = queue[1]
  BY <1>2, QueueIs DEF Current
<1>7. Current = Seeds[k + 1]
  BY <1>4, <1>5, <1>6
<1>8. ASSUME Current.file \in FilesOf(visited) PROVE FALSE
  <2>1. PICK i \in DOMAIN visited : visited[i].file = Current.file
    BY <1>8 DEF FilesOf
  <2>2. i \in DOMAIN Seeds /\ Seeds[i].file = Seeds[k + 1].file
    BY <1>3, <1>4, <1>7, <2>1
  <2>3. i = k + 1
    BY <1>2, <1>5, <2>2 DEF Distinct
  <2>4. QED
    BY <1>3, <2>1, <2>3
<1>9. QED
  BY <1>1, <1>5, <1>7, <1>8 DEF k

\* A file found again was visited after all seeds.
LEMMA AgainSeeds ==
    ASSUME InputOK, WalkOK, VisitAgain, SeedsKeep(visited), SeedsFirst(visited, queue),
           OneEdge(visited, queue)
    PROVE  /\ SeedsKeep(visited') /\ SeedsFirst(visited', queue')
           /\ OneEdge(visited', queue')
<1>1. /\ queue \in Seq(Candidate) /\ queue # <<>> /\ visited \in Seq(Candidate)
      /\ visited' = Raise(visited, Current) /\ queue' = Tail(queue)
      /\ Current \in Candidate /\ Current = queue[1]
      /\ FilesOf(visited') = FilesOf(visited)
  BY AgainStep DEF WalkOK
<1>2. /\ DOMAIN visited' = DOMAIN visited /\ Len(visited') = Len(visited)
      /\ \A i \in DOMAIN visited :
             /\ visited'[i].file = visited[i].file
             /\ visited'[i].score >= visited[i].score
             /\ Current.file = visited[i].file => visited'[i].score >= Current.score
             /\ visited'[i] = visited[i] \/ visited'[i] = Current
  BY <1>1, RaiseIs
<1>3. \A i \in DOMAIN visited : visited'[i].score \in Nat /\ visited[i].score \in Nat
  <2>1. \A i \in DOMAIN visited : visited[i] \in Candidate /\ visited'[i] \in Candidate
    BY <1>1, <1>2
  <2>2. QED
    BY <2>1 DEF Candidate
<1>4. SeedsKeep(visited')
  <2>1. SUFFICES ASSUME NEW i \in DOMAIN visited', NEW j \in DOMAIN Seeds,
                        visited'[i].file = Seeds[j].file
                 PROVE  visited'[i].score >= Seeds[j].score
    BY DEF SeedsKeep
  <2>2. i \in DOMAIN visited /\ visited[i].file = Seeds[j].file
    BY <1>2, <2>1
  <2>3. visited[i].score >= Seeds[j].score /\ Seeds[j].score \in Nat
    BY <2>2, SeedsHigh DEF SeedsKeep
  <2>4. QED
    BY <1>2, <1>3, <2>2, <2>3
<1>5. FilesOf(Seeds) \subseteq FilesOf(visited')
  <2>1. Current.file \in FilesOf(visited)
    BY DEF VisitAgain, Visited
  <2>2. QED
    BY <1>1, <2>1, NextSeed
<1>6. ASSUME NEW f, NEW score \in Nat, Comes(visited, queue, f, score)
      PROVE  Comes(visited', queue', f, score)
  <2>1. CASE \E i \in DOMAIN visited : visited[i].file = f /\ visited[i].score >= score
    <3>1. PICK i \in DOMAIN visited : visited[i].file = f /\ visited[i].score >= score
      BY <2>1
    <3>2. visited'[i].file = f /\ visited'[i].score >= score /\ i \in DOMAIN visited'
      BY <1>2, <1>3, <3>1
    <3>3. QED
      BY <3>2 DEF Comes
  <2>2. CASE \E i \in DOMAIN queue : queue[i].file = f /\ queue[i].score >= score
    <3>1. PICK i \in DOMAIN queue : queue[i].file = f /\ queue[i].score >= score
      BY <2>2
    <3>2. CASE i = 1
      <4>1. Current.file = f /\ Current.score >= score /\ Current.score \in Nat
        BY <1>1, <3>1, <3>2 DEF Candidate
      <4>2. PICK j \in DOMAIN visited : visited[j].file = f
        BY <4>1 DEF VisitAgain, Visited, FilesOf
      <4>3. j \in DOMAIN visited' /\ visited'[j].file = f /\ visited'[j].score >= score
        BY <1>2, <1>3, <4>1, <4>2
      <4>4. QED
        BY <4>3 DEF Comes
    <3>3. CASE i > 1
      <4>1. i - 1 \in DOMAIN queue' /\ queue'[i - 1] = queue[i]
        BY <1>1, <3>1, <3>3, QueueIs
      <4>2. QED
        BY <3>1, <4>1 DEF Comes
    <3>4. QED
      BY <1>1, <3>1, <3>2, <3>3
  <2>3. QED
    BY <1>6, <2>1, <2>2 DEF Comes
<1>7. OneEdge(visited', queue')
  <2>1. SUFFICES ASSUME NEW j \in DOMAIN Seeds, NEW f \in File,
                        Seeds[j].file \in FilesOf(visited'), Passed(Seeds[j].score) >= Floor
                 PROVE  /\ <<Seeds[j].file, f>> \in graph =>
                               Comes(visited', queue', f, Passed(Seeds[j].score))
                        /\ <<f, Seeds[j].file>> \in graph =>
                               Comes(visited', queue', f, Back(Passed(Seeds[j].score)))
    BY DEF OneEdge
  <2>2. /\ <<Seeds[j].file, f>> \in graph =>
               Comes(visited, queue, f, Passed(Seeds[j].score))
        /\ <<f, Seeds[j].file>> \in graph =>
               Comes(visited, queue, f, Back(Passed(Seeds[j].score)))
    BY <1>1, <2>1, GoesOn DEF OneEdge
  <2>3. Passed(Seeds[j].score) \in Nat /\ Back(Passed(Seeds[j].score)) \in Nat
    BY SeedsHigh, PassedOn
  <2>4. QED
    BY <1>6, <2>2, <2>3
<1>8. QED
  BY <1>4, <1>5, <1>7 DEF SeedsFirst

\* A seed keeps its own score; visiting it sends what it passes on to every file
\* over an edge that is not visited, and those that are have more already.
LEMMA VisitSeeds ==
    ASSUME InputOK, WalkOK, Visit, SeedsKeep(visited), SeedsFirst(visited, queue),
           OneEdge(visited, queue)
    PROVE  /\ SeedsKeep(visited') /\ SeedsFirst(visited', queue')
           /\ OneEdge(visited', queue')
<1>1. /\ queue \in Seq(Candidate) /\ queue # <<>> /\ visited \in Seq(Candidate)
      /\ visited' = Append(visited, Current)
      /\ Current \in Candidate /\ Current = queue[1]
      /\ FilesOf(visited') = FilesOf(visited) \union {Current.file}
      /\ n' = n
  BY VisitStep DEF WalkOK, Visit, input
<1>2. /\ Len(visited') = Len(visited) + 1 /\ Len(visited) \in Nat
      /\ Len(visited) + 1 \in DOMAIN visited' /\ visited'[Len(visited) + 1] = Current
      /\ DOMAIN visited = 1..Len(visited)
      /\ \A i \in DOMAIN visited : i \in DOMAIN visited' /\ visited'[i] = visited[i]
      /\ \A i \in DOMAIN visited' : \/ i \in DOMAIN visited /\ visited'[i] = visited[i]
                                    \/ i = Len(visited) + 1 /\ visited'[i] = Current
  BY <1>1, AppendIs
<1>3. /\ Tail(queue) \in Seq(Candidate)
      /\ \A i \in DOMAIN queue : i > 1 => /\ i - 1 \in DOMAIN Tail(queue)
                                          /\ Tail(queue)[i - 1] = queue[i]
  BY <1>1, QueueIs
<1>4. Current.file \in File /\ Current.score \in Nat
  BY <1>1 DEF Candidate
<1>5. Current.file \notin FilesOf(visited)
  BY DEF Visit, Visited
<1>6. /\ Seeds \in Seq(Candidate) /\ Distinct(Seeds)
      /\ \A j \in DOMAIN Seeds : Seeds[j].score \in Nat
  BY SeedsAre, SeedsHigh
<1> DEFINE k == Len(visited)
\* If what is visited is a seed's, it is that seed, and before it were seeds.
<1>7. ASSUME NEW j \in DOMAIN Seeds, Seeds[j].file = Current.file
      PROVE  Current = Seeds[j] /\ InTurn(visited, queue)
  <2>1. ~(FilesOf(Seeds) \subseteq FilesOf(visited))
    BY <1>5, <1>7 DEF FilesOf
  <2>2. InTurn(visited, queue) /\ k + 1 \in DOMAIN Seeds /\ Current = Seeds[k + 1]
    BY <1>1, <2>1, NextSeed
  <2>3. QED
    BY <1>6, <1>7, <2>2 DEF Distinct
<1>8. SeedsKeep(visited')
  <2>1. SUFFICES ASSUME NEW i \in DOMAIN visited', NEW j \in DOMAIN Seeds,
                        visited'[i].file = Seeds[j].file
                 PROVE  visited'[i].score >= Seeds[j].score
    BY DEF SeedsKeep
  <2>2. CASE i \in DOMAIN visited /\ visited'[i] = visited[i]
    BY <2>1, <2>2 DEF SeedsKeep
  <2>3. CASE visited'[i] = Current
    <3>1. Current = Seeds[j]
      BY <1>7, <2>1, <2>3
    <3>2. QED
      BY <1>6, <2>3, <3>1
  <2>4. QED
    BY <1>2, <2>2, <2>3
<1> DEFINE reached == Neighbors(Current.file, Current.score, Visited \union {Current.file})
\* What waited still waits, unless the walk is cut.
<1>9. ASSUME ~Full(visited')
      PROVE  \A i \in DOMAIN queue : i > 1 => i - 1 \in DOMAIN queue' /\ queue'[i - 1] = queue[i]
  <2>1. CASE queue' = Tail(queue)
    BY <1>3, <2>1
  <2>2. CASE \E new \in reached : queue' = Tail(queue) \o new
    <3>1. PICK new \in reached : queue' = Tail(queue) \o new
      BY <2>2
    <3>2. new \in Seq(Candidate)
      BY <1>4, NeighborsAre
    <3>3. \A i \in DOMAIN Tail(queue) : i \in DOMAIN queue' /\ queue'[i] = Tail(queue)[i]
      BY <1>3, <3>1, <3>2, ConcatIs
    <3>4. QED
      BY <1>3, <3>3
  <2>3. QED
    BY <1>9, <2>1, <2>2 DEF Visit
<1>10. SeedsFirst(visited', queue')
  <2>1. CASE FilesOf(Seeds) \subseteq FilesOf(visited)
    BY <1>1, <2>1 DEF SeedsFirst
  <2>2. CASE ~(FilesOf(Seeds) \subseteq FilesOf(visited)) /\ ~Full(visited')
    <3> DEFINE m == Len(Seeds)
    <3>1. /\ k + 1 \in DOMAIN Seeds /\ Current = Seeds[k + 1]
          /\ InTurn(visited, queue)
      BY <1>1, <2>2, NextSeed
    <3>2. /\ \A i \in 1..k : visited[i] = Seeds[i]
          /\ \A i \in 1..(m - k) : i \in DOMAIN queue /\ queue[i] = Seeds[k + i]
      BY <3>1 DEF InTurn
    <3>3. k \in Nat /\ m \in Nat /\ DOMAIN Seeds = 1..m /\ k + 1 <= m
      BY <1>2, <1>6, <3>1
    <3>4. Len(visited') = k + 1 /\ DOMAIN visited = 1..k
      BY <1>2
    <3>5. visited'[k + 1] = Seeds[k + 1] /\ \A i \in 1..k : visited'[i] = Seeds[i]
      BY <1>2, <3>1, <3>2
    <3> HIDE DEF k, m
    <3>6. \A i \in 1..k + 1 : visited'[i] = Seeds[i]
      <4>1. \A i \in 1..k + 1 : i \in 1..k \/ i = k + 1
        BY <3>3
      <4>2. QED
        BY <3>5, <4>1
    <3>7. CASE k + 1 = m
      <4>1. \A i \in DOMAIN Seeds : i \in DOMAIN visited' /\ visited'[i] = Seeds[i]
        BY <1>2, <3>3, <3>4, <3>6, <3>7 DEF k
      <4>2. QED
        BY <4>1 DEF SeedsFirst, FilesOf
    <3>8. CASE k + 1 < m
      <4>1. ASSUME NEW i \in 1..(m - (k + 1))
            PROVE  i \in DOMAIN queue' /\ queue'[i] = Seeds[(k + 1) + i]
        <5>1. i + 1 \in 1..(m - k) /\ i + 1 > 1 /\ (i + 1) - 1 = i /\ k + (i + 1) = (k + 1) + i
          BY <3>3
        <5>2. i + 1 \in DOMAIN queue /\ queue[i + 1] = Seeds[k + (i + 1)]
          BY <3>2, <5>1
        <5>3. QED
          BY <1>9, <2>2, <5>1, <5>2
      <4>2. QED
        BY <3>4, <3>6, <3>8, <4>1 DEF SeedsFirst, InTurn, m
    <3>9. QED
      BY <3>3, <3>7, <3>8
  <2>3. QED
    BY <2>1, <2>2 DEF SeedsFirst
<1>11. ASSUME ~Full(visited'), NEW f, NEW score \in Nat, Comes(visited, queue, f, score)
       PROVE  Comes(visited', queue', f, score)
  <2>1. CASE \E i \in DOMAIN visited : visited[i].file = f /\ visited[i].score >= score
    BY <1>2, <2>1 DEF Comes
  <2>2. CASE \E i \in DOMAIN queue : queue[i].file = f /\ queue[i].score >= score
    <3>1. PICK i \in DOMAIN queue : queue[i].file = f /\ queue[i].score >= score
      BY <2>2
    <3>2. CASE i = 1
      BY <1>1, <1>2, <3>1, <3>2 DEF Comes
    <3>3. CASE i > 1
      BY <1>9, <1>11, <3>1, <3>3 DEF Comes
    <3>4. QED
      BY <1>1, <3>1, <3>2, <3>3
  <2>3. QED
    BY <1>11, <2>1, <2>2 DEF Comes
\* What the seed being visited passes on.
<1>12. ASSUME NEW j \in DOMAIN Seeds, Seeds[j].file = Current.file, ~Full(visited'),
              Passed(Seeds[j].score) >= Floor, NEW f \in File
       PROVE  /\ <<Seeds[j].file, f>> \in graph =>
                     Comes(visited', queue', f, Passed(Seeds[j].score))
              /\ <<f, Seeds[j].file>> \in graph =>
                     Comes(visited', queue', f, Back(Passed(Seeds[j].score)))
  <2>1. Current = Seeds[j] /\ InTurn(visited, queue)
    BY <1>7, <1>12
  <2>2. CASE f \in FilesOf(visited')
    <3>1. PICK i \in DOMAIN visited' : visited'[i].file = f
      BY <2>2 DEF FilesOf
    <3>2. \E l \in DOMAIN Seeds : visited'[i] = Seeds[l]
      <4>1. CASE i \in DOMAIN visited /\ visited'[i] = visited[i]
        <5>1. visited[i] = Seeds[i] /\ i \in 1..Len(Seeds) /\ DOMAIN Seeds = 1..Len(Seeds)
          BY <1>2, <1>6, <2>1, <4>1 DEF InTurn
        <5>2. QED
          BY <4>1, <5>1
      <4>2. CASE visited'[i] = Current
        BY <2>1, <4>2
      <4>3. QED
        BY <1>2, <4>1, <4>2
    <3>3. /\ visited'[i].score >= Passed(Seeds[j].score)
          /\ visited'[i].score >= Back(Passed(Seeds[j].score))
      <4>1. PICK l \in DOMAIN Seeds : visited'[i] = Seeds[l]
        BY <3>2
      <4> DEFINE x == Passed(Seeds[j].score)
                 y == Back(Passed(Seeds[j].score))
                 z == Seeds[l].score
      <4>2. x <= z /\ y <= z /\ z \in Nat /\ x \in Nat /\ y \in Nat
        BY <1>6, SeedsHigh, PassedOn
      <4>3. visited'[i].score = z
        BY <4>1
      <4> HIDE DEF x, y, z
      <4>4. visited'[i].score >= x /\ visited'[i].score >= y
        BY <4>2, <4>3
      <4>5. QED
        BY <4>4 DEF x, y
    <3>4. QED
      BY <3>1, <3>3 DEF Comes
  <2>3. CASE f \notin FilesOf(visited')
    <3>1. PICK new \in reached : queue' = Tail(queue) \o new
      <4>1. Passed(Current.score) >= Floor /\ Passed(Current.score) \in Nat /\ Floor \in Nat
        BY <1>4, <1>12, <2>1, PassedOn, ConstantsAssumption
      <4>2. ~(Passed(Current.score) < Floor)
        BY <4>1
      <4>3. QED
        BY <1>12, <4>2 DEF Visit
    <3>2. /\ new \in Seq(Candidate)
          /\ <<Current.file, f>> \in graph =>
                 \E i \in DOMAIN new : new[i].file = f /\ new[i].score = Passed(Current.score)
          /\ <<f, Current.file>> \in graph =>
                 \E i \in DOMAIN new : /\ new[i].file = f
                                       /\ new[i].score = Back(Passed(Current.score))
      <4> DEFINE seen == Visited \union {Current.file}
      <4>1. f \in File \ seen
        BY <1>1, <2>3 DEF Visited
      <4>2. new \in Neighbors(Current.file, Current.score, seen)
        OBVIOUS
      <4> HIDE DEF seen
      <4>3. QED
        BY <1>4, <4>1, <4>2, NeighborsOver
    <3>3. \A i \in DOMAIN new : \E l \in DOMAIN queue' : queue'[l] = new[i]
      <4>1. \A i \in DOMAIN new : /\ Len(Tail(queue)) + i \in DOMAIN (Tail(queue) \o new)
                                  /\ (Tail(queue) \o new)[Len(Tail(queue)) + i] = new[i]
        BY <1>3, <3>2, ConcatIs
      <4>2. QED
        BY <3>1, <4>1
    <3>4. Passed(Current.score) \in Nat /\ Back(Passed(Current.score)) \in Nat
      BY <1>4, PassedOn
    <3>5. ASSUME NEW score \in Nat, \E i \in DOMAIN new : new[i].file = f /\ new[i].score = score
          PROVE  Comes(visited', queue', f, score)
      BY <3>3, <3>5 DEF Comes
    <3>6. QED
      BY <2>1, <3>2, <3>4, <3>5
  <2>4. QED
    BY <2>2, <2>3
<1>13. OneEdge(visited', queue')
  <2>1. SUFFICES ASSUME ~Full(visited'), NEW j \in DOMAIN Seeds, NEW f \in File,
                        Seeds[j].file \in FilesOf(visited'), Passed(Seeds[j].score) >= Floor
                 PROVE  /\ <<Seeds[j].file, f>> \in graph =>
                               Comes(visited', queue', f, Passed(Seeds[j].score))
                        /\ <<f, Seeds[j].file>> \in graph =>
                               Comes(visited', queue', f, Back(Passed(Seeds[j].score)))
    BY DEF OneEdge
  <2>2. CASE Seeds[j].file = Current.file
    BY <1>12, <2>1, <2>2
  <2>3. CASE Seeds[j].file \in FilesOf(visited)
    <3>1. /\ <<Seeds[j].file, f>> \in graph =>
                 Comes(visited, queue, f, Passed(Seeds[j].score))
          /\ <<f, Seeds[j].file>> \in graph =>
                 Comes(visited, queue, f, Back(Passed(Seeds[j].score)))
      BY <1>1, <2>1, <2>3, GoesOn DEF OneEdge
    <3>2. Passed(Seeds[j].score) \in Nat /\ Back(Passed(Seeds[j].score)) \in Nat
      BY <1>6, PassedOn
    <3>3. QED
      BY <1>11, <2>1, <3>1, <3>2
  <2>4. QED
    BY <1>1, <2>1, <2>2, <2>3
<1>14. QED
  BY <1>8, <1>10, <1>13

-----------------------------------------------------------------------------
(* Scores mean paths *)

\* While the walk is on and when it has ended.
OnPaths ==
    pc \in {"walk", "keywords"} =>
        /\ pc = "keywords" => queue = <<>>
        /\ SeedsKeep(visited) /\ SeedsFirst(visited, queue) /\ OneEdge(visited, queue)
        /\ \A B \in [0..N -> Scores] : Paths(B) =>
               Under(B[Len(visited)], queue) /\ Under(B[Len(visited)], visited)

\* The same input, the same seeds and paths.
LEMMA SameSeeds == UNCHANGED input => Seeds' = Seeds
BY DEF input, Seeds, Known, Scored, InOrder

LEMMA SamePaths ==
    ASSUME UNCHANGED input, NEW B, Paths(B)' PROVE Paths(B)
BY SameSeeds DEF Paths, input

LEMMA OnPathsNext ==
    ASSUME UNCHANGED input, pc' = "keywords" => queue' = <<>>,
           SeedsKeep(visited'), SeedsFirst(visited', queue'), OneEdge(visited', queue'),
           \A B \in [0..N -> Scores] : Paths(B) =>
               Under(B[Len(visited')], queue') /\ Under(B[Len(visited')], visited')
    PROVE  OnPaths'
<1>1. Seeds' = Seeds /\ graph' = graph /\ n' = n
  BY SameSeeds DEF input
<1>2. SeedsKeep(visited)'
  BY <1>1 DEF SeedsKeep
<1>3. SeedsFirst(visited, queue)'
  BY <1>1 DEF SeedsFirst, InTurn, Full, FilesOf
<1>4. OneEdge(visited, queue)'
  BY <1>1 DEF OneEdge, Full, FilesOf, Comes
<1>5. (\A B \in [0..N -> Scores] : Paths(B) =>
           Under(B[Len(visited)], queue) /\ Under(B[Len(visited)], visited))'
  BY SamePaths DEF Under
<1>6. QED
  BY <1>2, <1>3, <1>4, <1>5 DEF OnPaths

LEMMA OnPathsInit == Init => OnPaths
BY DEF Init, OnPaths

LEMMA OnPathsStep == Inductive /\ OnPaths /\ [Next]_vars => OnPaths'
<1> SUFFICES ASSUME Inductive, OnPaths, [Next]_vars PROVE OnPaths'
  OBVIOUS
<1>1. InputOK /\ WalkOK /\ Begun
  BY DEF Inductive
<1>2. CASE Seed
  <2>1. /\ queue' = Seeds /\ visited' = <<>>
        /\ pc' = IF Seeds = <<>> THEN "bm25" ELSE "walk"
    BY <1>1, <1>2, SeedStep
  <2>2. CASE Seeds = <<>>
    BY <2>1, <2>2 DEF OnPaths
  <2>3. CASE Seeds # <<>>
    <3>1. SeedsKeep(visited') /\ OneEdge(visited', queue')
      BY <2>1 DEF SeedsKeep, OneEdge, FilesOf
    <3>2. SeedsFirst(visited', queue')
      <4>1. Seeds \in Seq(Candidate)
        BY <1>1, SeedsAre
      <4>2. Len(Seeds) \in Nat /\ Len(Seeds) > 0 /\ DOMAIN Seeds = 1..Len(Seeds)
        BY <2>3, <4>1
      <4>3. Len(visited') = 0
        BY <2>1
      <4>4. InTurn(visited', queue')
        BY <2>1, <4>2, <4>3 DEF InTurn
      <4>5. QED
        BY <4>4 DEF SeedsFirst
    <3>3. ASSUME NEW B \in [0..N -> Scores], Paths(B)
          PROVE  Under(B[Len(visited')], queue') /\ Under(B[Len(visited')], visited')
      <4>1. Len(visited') = 0
        BY <2>1
      <4>2. QED
        BY <2>1, <3>3, <4>1 DEF Under, Paths
    <3>4. UNCHANGED input /\ pc' = "walk"
      BY <1>2, <2>1, <2>3 DEF Seed
    <3>5. QED
      BY <3>1, <3>2, <3>3, <3>4, OnPathsNext
  <2>4. QED
    BY <2>2, <2>3
<1>3. CASE VisitAgain
  <2>1. /\ UNCHANGED input /\ pc = "walk" /\ pc' = "walk"
        /\ SeedsKeep(visited) /\ SeedsFirst(visited, queue) /\ OneEdge(visited, queue)
    BY <1>3 DEF VisitAgain, OnPaths
  <2>2. /\ SeedsKeep(visited') /\ SeedsFirst(visited', queue')
        /\ OneEdge(visited', queue')
    BY <1>1, <1>3, <2>1, AgainSeeds
  <2>3. ASSUME NEW B \in [0..N -> Scores], Paths(B)
        PROVE  Under(B[Len(visited')], queue') /\ Under(B[Len(visited')], visited')
    <3>1. Under(B[Len(visited)], queue) /\ Under(B[Len(visited)], visited)
      BY <2>1, <2>3 DEF OnPaths
    <3> DEFINE b == B[Len(visited)]
    <3>2. Under(b, queue) /\ Under(b, visited) /\ b = B[Len(visited)]
      BY <3>1
    <3> HIDE DEF b
    <3>3. Len(visited') = Len(visited) /\ Under(b, queue') /\ Under(b, visited')
      BY <1>1, <1>3, <3>2, AgainUnder
    <3>4. QED
      BY <3>2, <3>3
  <2>4. QED
    BY <2>1, <2>2, <2>3, OnPathsNext
<1>4. CASE Visit
  <2>1. /\ UNCHANGED input /\ pc = "walk" /\ pc' = "walk"
        /\ SeedsKeep(visited) /\ SeedsFirst(visited, queue) /\ OneEdge(visited, queue)
    BY <1>4 DEF Visit, OnPaths
  <2>2. /\ SeedsKeep(visited') /\ SeedsFirst(visited', queue')
        /\ OneEdge(visited', queue')
    BY <1>1, <1>4, <2>1, VisitSeeds
  <2>3. ASSUME NEW B \in [0..N -> Scores], Paths(B)
        PROVE  Under(B[Len(visited')], queue') /\ Under(B[Len(visited')], visited')
    <3>1. Under(B[Len(visited)], queue) /\ Under(B[Len(visited)], visited)
      BY <2>1, <2>3 DEF OnPaths
    <3>2. QED
      BY <1>1, <1>4, <2>3, <3>1, VisitUnder
  <2>4. QED
    BY <2>1, <2>2, <2>3, OnPathsNext
<1>5. CASE EndWalk
  <2>1. /\ UNCHANGED input /\ pc = "walk" /\ queue' = <<>>
        /\ visited' = visited /\ queue' = queue
    BY <1>5 DEF EndWalk
  <2>2. /\ SeedsKeep(visited') /\ SeedsFirst(visited', queue') /\ OneEdge(visited', queue')
        /\ \A B \in [0..N -> Scores] : Paths(B) =>
               Under(B[Len(visited')], queue') /\ Under(B[Len(visited')], visited')
    BY <2>1 DEF OnPaths
  <2>3. QED
    BY <2>1, <2>2, OnPathsNext
<1>6. CASE \E S \in Matches : Inject(S)
  BY <1>6 DEF Inject, OnPaths
<1>7. CASE \E answer \in Bm25Answers : QueryIfSparse(answer)
  BY <1>7 DEF QueryIfSparse, OnPaths
<1>8. CASE \E m \in Multipliers : Multiply(m)
  BY <1>8 DEF Multiply, OnPaths
<1>9. CASE UNCHANGED vars
  <2>1. UNCHANGED input /\ pc' = pc /\ queue' = queue /\ visited' = visited
    BY <1>9 DEF vars
  <2>2. CASE pc \in {"walk", "keywords"}
    <3>1. /\ pc' = "keywords" => queue' = <<>>
          /\ SeedsKeep(visited') /\ SeedsFirst(visited', queue') /\ OneEdge(visited', queue')
          /\ \A B \in [0..N -> Scores] : Paths(B) =>
                 Under(B[Len(visited')], queue') /\ Under(B[Len(visited')], visited')
      BY <2>1, <2>2 DEF OnPaths
    <3>2. QED
      BY <2>1, <3>1, OnPathsNext
  <2>3. CASE pc \notin {"walk", "keywords"}
    BY <2>1, <2>3 DEF OnPaths
  <2>4. QED
    BY <2>2, <2>3
<1>10. QED
  BY <1>2, <1>3, <1>4, <1>5, <1>6, <1>7, <1>8, <1>9, StepKinds

\* Scores climb with the edges.
LEMMA Climbs ==
    ASSUME NEW B \in [0..N -> Scores], Paths(B), NEW k \in 0..N, NEW f \in File
    PROVE  B[k][f] <= B[N][f]
<1>1. N \in Nat
  BY ConstantsAssumption
<1>2. \A i \in 0..N : B[i][f] \in Nat
  <2>1. Most \in Nat
    BY SMT DEF Most, Unit
  <2>2. QED
    BY <2>1 DEF Scores
<1> DEFINE S == {i \in 0..N : i >= k => B[k][f] <= B[i][f]}
<1>3. 0 \in S
  BY <1>1, <1>2
<1>4. \A i \in 0..N : i + 1 \in 0..N /\ i \in S => i + 1 \in S
  <2>1. SUFFICES ASSUME NEW i \in 0..N, i + 1 \in 0..N, i \in S, i + 1 >= k
                 PROVE  B[k][f] <= B[i + 1][f]
    OBVIOUS
  <2>2. B[i][f] <= B[i + 1][f]
    BY <2>1 DEF Paths
  <2>3. CASE i + 1 = k
    BY <1>2, <2>1, <2>3
  <2>4. CASE i >= k
    BY <1>2, <2>1, <2>2, <2>4
  <2>5. QED
    BY <2>1, <2>3, <2>4
<1>5. S \in SUBSET (0..N)
  OBVIOUS
<1> HIDE DEF S
<1>6. S = 0..N
  BY <1>1, <1>3, <1>4, <1>5, UpTo
<1>7. N \in S /\ N >= k
  BY <1>1, <1>6
<1>8. QED
  BY <1>7 DEF S

LEMMA BestByPaths ==
    ASSUME InputOK
    PROVE  BestBy \in [0..N -> Scores] /\ Paths(BestBy)
<1> DEFINE B == BestBy
<1>1. /\ B \in [0..N -> Scores] /\ B[0] = Base
      /\ \A k \in 0..N : k + 1 \in 0..N => B[k + 1] = Over(B[k])
  BY BestByIs
<1> HIDE DEF B
<1>2. \A i \in DOMAIN Seeds : Seeds[i].score <= B[0][Seeds[i].file]
  BY <1>1, BaseIs
<1>3. ASSUME NEW k \in 0..N, k + 1 \in 0..N, NEW f \in File, NEW g \in File
      PROVE  /\ B[k][f] <= B[k + 1][f]
             /\ <<g, f>> \in graph => Passed(B[k][g]) <= B[k + 1][f]
             /\ <<f, g>> \in graph => Back(Passed(B[k][g])) <= B[k + 1][f]
  <2> DEFINE b == B[k]
  <2>1. b \in Scores /\ B[k + 1] = Over(b)
    BY <1>1, <1>3
  <2> HIDE DEF b
  <2>2. /\ b[f] <= Over(b)[f]
        /\ g \in ImportedBy(f) => Passed(b[g]) <= Over(b)[f]
        /\ g \in Imports(f) => Back(Passed(b[g])) <= Over(b)[f]
    BY <2>1, OverIs
  <2>3. /\ <<g, f>> \in graph => g \in ImportedBy(f)
        /\ <<f, g>> \in graph => g \in Imports(f)
    BY DEF Imports, ImportedBy
  <2>4. QED
    BY <2>1, <2>2, <2>3 DEF b
<1>4. Paths(B)
  BY <1>2, <1>3 DEF Paths
<1>5. QED
  BY <1>1, <1>4 DEF B

\* What an edge from a seed gives comes from a seed, or is too little to count.
LEMMA OneEdgeFrom ==
    ASSUME InputOK, NEW f \in File, BestBy[1][f] >= Floor
    PROVE  \E j \in DOMAIN Seeds :
               \/ Seeds[j].file = f /\ BestBy[1][f] = Seeds[j].score
               \/ /\ <<Seeds[j].file, f>> \in graph /\ Passed(Seeds[j].score) >= Floor
                  /\ BestBy[1][f] = Passed(Seeds[j].score)
               \/ /\ <<f, Seeds[j].file>> \in graph /\ Passed(Seeds[j].score) >= Floor
                  /\ BestBy[1][f] = Back(Passed(Seeds[j].score))
<1> DEFINE b == Base
           x == BestBy[1][f]
<1>1. 0 \in 0..N /\ 0 + 1 \in 0..N
  BY ConstantsAssumption DEF File
<1>2. BestBy[1] = Over(b)
  BY <1>1, BestByIs
<1>3. /\ b \in Scores
      /\ \A g \in File : b[g] = 0 \/ \E j \in DOMAIN Seeds : /\ Seeds[j].file = g
                                                             /\ b[g] = Seeds[j].score
  BY BaseIs
<1> HIDE DEF b
<1>4. \/ x = b[f]
      \/ \E g \in ImportedBy(f) : x = Passed(b[g])
      \/ \E g \in Imports(f) : x = Back(Passed(b[g]))
  BY <1>2, <1>3, OverIs
<1>5. x >= Floor
  OBVIOUS
<1> HIDE DEF x
<1>6. Floor \in Nat /\ Floor >= 20
  BY ConstantsAssumption
<1>7. Passed(0) = 0
  BY DEF Passed
<1>8. CASE x = b[f]
  <2>1. b[f] # 0
    BY <1>5, <1>6, <1>8
  <2>2. QED
    BY <1>3, <1>8, <2>1 DEF x
<1>9. CASE \E g \in ImportedBy(f) : x = Passed(b[g])
  <2>1. PICK g \in File : <<g, f>> \in graph /\ x = Passed(b[g])
    BY <1>9 DEF ImportedBy
  <2>2. b[g] # 0
    BY <1>5, <1>6, <1>7, <2>1
  <2>3. PICK j \in DOMAIN Seeds : Seeds[j].file = g /\ b[g] = Seeds[j].score
    BY <1>3, <2>2
  <2>4. Passed(Seeds[j].score) >= Floor
    BY <1>5, <2>1, <2>3
  <2>5. QED
    BY <2>1, <2>3, <2>4 DEF x
<1>10. CASE \E g \in Imports(f) : x = Back(Passed(b[g]))
  <2>1. PICK g \in File : <<f, g>> \in graph /\ x = Back(Passed(b[g]))
    BY <1>10 DEF Imports
  <2>2. b[g] \in Nat
    <3>1. Most \in Nat
      BY SMT DEF Most, Unit
    <3>2. QED
      BY <1>3, <3>1 DEF Scores
  <2>3. /\ Passed(b[g]) \in Nat /\ Back(Passed(b[g])) \in Nat
        /\ Back(Passed(b[g])) <= Passed(b[g])
    BY <2>2, PassedOn
  <2>4. Passed(b[g]) >= Floor
    BY <1>5, <1>6, <2>1, <2>3
  <2>5. b[g] # 0
    BY <1>6, <1>7, <2>4
  <2>6. PICK j \in DOMAIN Seeds : Seeds[j].file = g /\ b[g] = Seeds[j].score
    BY <1>3, <2>5
  <2>7. QED
    BY <2>1, <2>4, <2>6 DEF x
<1>11. QED
  BY <1>4, <1>8, <1>9, <1>10

\* The walk never rates a file above its best path, a seed keeps its own score
\* or better, and unless the walk was cut what a seed passes over one edge
\* arrives: for every graph, although scores are passed on before they are
\* final (_bfs).
THEOREM ScoresArePaths == Spec => []ScoresMeanPaths
<1>1. ASSUME Inductive, OnPaths, pc = "keywords"
      PROVE  /\ \A i \in DOMAIN visited : visited[i].score <= BestBy[N][visited[i].file]
             /\ \A i \in DOMAIN visited : visited[i].score >= BestBy[0][visited[i].file]
             /\ ~Full(visited) =>
                   \A f \in File : BestBy[1][f] >= Floor =>
                       \E i \in DOMAIN visited : /\ visited[i].file = f
                                                 /\ visited[i].score >= BestBy[1][f]
  <2>1. /\ InputOK /\ visited \in Seq(Candidate) /\ Distinct(visited) /\ queue = <<>>
        /\ SeedsKeep(visited) /\ SeedsFirst(visited, queue) /\ OneEdge(visited, queue)
    BY <1>1 DEF Inductive, WalkOK, OnPaths
  <2>2. \A i \in DOMAIN visited : visited[i].file \in File /\ visited[i].score \in Nat
    <3>1. \A i \in DOMAIN visited : visited[i] \in Candidate
      BY <2>1
    <3>2. QED
      BY <3>1 DEF Candidate
  <2>3. BestBy \in [0..N -> Scores] /\ Paths(BestBy)
    BY <2>1, BestByPaths
  <2>4. \A k \in 0..N, f \in File : BestBy[k][f] \in Nat
    <3>1. Most \in Nat
      BY SMT DEF Most, Unit
    <3>2. QED
      BY <2>3, <3>1 DEF Scores
  <2>5. ASSUME NEW i \in DOMAIN visited PROVE visited[i].score <= BestBy[N][visited[i].file]
    <3> DEFINE k == Len(visited)
               f == visited[i].file
               B == BestBy
    <3>1. k \in 0..N /\ N \in 0..N
      BY <2>1, FewVisited, ConstantsAssumption
    <3>2. Under(B[k], visited)
      BY <1>1, <2>3 DEF OnPaths
    <3>3. visited[i].score <= B[k][f]
      BY <3>2 DEF Under
    <3>4. B[k][f] <= B[N][f]
      BY <2>2, <2>3, <3>1, Climbs
    <3>5. B[k][f] \in Nat /\ B[N][f] \in Nat /\ visited[i].score \in Nat
      BY <2>2, <2>4, <3>1
    <3> HIDE DEF k, f, B
    <3>6. visited[i].score <= B[N][f]
      BY <3>3, <3>4, <3>5
    <3>7. QED
      BY <3>6 DEF f, B
  <2>6. ASSUME NEW i \in DOMAIN visited PROVE visited[i].score >= BestBy[0][visited[i].file]
    <3> DEFINE f == visited[i].file
    <3>1. BestBy[0] = Base /\ f \in File
      BY <2>1, <2>2, BestByIs
    <3>2. Base[f] = 0 \/ \E j \in DOMAIN Seeds : Seeds[j].file = f /\ Base[f] = Seeds[j].score
      BY <2>1, <3>1, BaseIs
    <3>3. QED
      BY <2>1, <2>2, <3>1, <3>2 DEF SeedsKeep
  <2>7. ASSUME ~Full(visited), NEW f \in File, BestBy[1][f] >= Floor
        PROVE  \E i \in DOMAIN visited : visited[i].file = f /\ visited[i].score >= BestBy[1][f]
    <3>1. FilesOf(Seeds) \subseteq FilesOf(visited)
      <4>1. Seeds \in Seq(Candidate)
        BY <2>1, SeedsAre
      <4>2. Len(Seeds) \in Nat /\ Len(visited) \in Nat /\ DOMAIN queue = {}
        BY <2>1, <4>1
      <4>3. ASSUME InTurn(visited, queue) PROVE FALSE
        <5>1. 1 \in 1..(Len(Seeds) - Len(visited))
          BY <4>2, <4>3 DEF InTurn
        <5>2. QED
          BY <4>2, <4>3, <5>1 DEF InTurn
      <4>4. QED
        BY <2>1, <2>7, <4>3 DEF SeedsFirst
    <3>2. PICK j \in DOMAIN Seeds :
              \/ Seeds[j].file = f /\ BestBy[1][f] = Seeds[j].score
              \/ /\ <<Seeds[j].file, f>> \in graph /\ Passed(Seeds[j].score) >= Floor
                 /\ BestBy[1][f] = Passed(Seeds[j].score)
              \/ /\ <<f, Seeds[j].file>> \in graph /\ Passed(Seeds[j].score) >= Floor
                 /\ BestBy[1][f] = Back(Passed(Seeds[j].score))
      BY <2>1, <2>7, OneEdgeFrom
    <3>3. Seeds[j].file \in FilesOf(visited)
      BY <3>1 DEF FilesOf
    <3>4. CASE Seeds[j].file = f /\ BestBy[1][f] = Seeds[j].score
      <4>1. PICK i \in DOMAIN visited : visited[i].file = f
        BY <3>3, <3>4 DEF FilesOf
      <4>2. visited[i].score >= Seeds[j].score
        BY <2>1, <3>4, <4>1 DEF SeedsKeep
      <4>3. QED
        BY <3>4, <4>1, <4>2
    <3>5. CASE /\ Passed(Seeds[j].score) >= Floor
               /\ ~(Seeds[j].file = f /\ BestBy[1][f] = Seeds[j].score)
      <4>1. Comes(visited, queue, f, BestBy[1][f])
        BY <2>1, <2>7, <3>2, <3>3, <3>5 DEF OneEdge
      <4>2. QED
        BY <2>1, <4>1 DEF Comes
    <3>6. QED
      BY <3>2, <3>4, <3>5
  <2>8. QED
    BY <2>5, <2>6, <2>7
<1>2. Inductive /\ OnPaths => ScoresMeanPaths
  BY <1>1 DEF ScoresMeanPaths
<1>3. Init => OnPaths
  BY OnPathsInit
<1>4. Inductive /\ OnPaths /\ [Next]_vars => OnPaths'
  BY OnPathsStep
<1>5. QED
  BY <1>2, <1>3, <1>4, AlwaysInductive, PTL DEF Spec
=============================================================================
