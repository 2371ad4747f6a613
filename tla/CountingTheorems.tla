--------------------------- MODULE CountingTheorems ---------------------------
(***************************************************************************)
(* What the models count and add up: sums over finite sets and sequences,  *)
(* by the least-number principle, and the order of the elements of a set.  *)
(***************************************************************************)
EXTENDS Sums, Sorting, FiniteSetTheorems, WellFoundedInduction, TLAPS

\* Every set of natural numbers that is not empty has a least one.
LEMMA Least ==
  ASSUME NEW T, T \subseteq Nat, T # {}
  PROVE  \E m \in T : \A n \in T : m <= n
  <1>1. IsWellFoundedOn(OpToRel(<,Nat), Nat)
    BY NatLessThanWellFounded
  <1>2. PICK m \in T : \A n \in T : ~(<<n, m>> \in OpToRel(<,Nat))
    BY <1>1, WFMin
  <1>3. ASSUME NEW n \in T PROVE m <= n
    <2>1. ~(<<n, m>> \in {ss \in Nat \X Nat : ss[1] < ss[2]})
      BY <1>2 DEF OpToRel
    <2> QED BY <2>1
  <1> QED BY <1>3

(***************************************************************************)
(* Sums over finite sets. Adds says that iter is the table of sums over    *)
(* the subsets of D that the fold builds, one picked element at a time.    *)
(***************************************************************************)
Pick(s) == CHOOSE x \in s : TRUE
Adds(iter, v, D) ==
  iter = [s \in SUBSET D |-> IF s = {} THEN 0 ELSE v[Pick(s)] + iter[s \ {Pick(s)}]]

LEMMA PickIsIn ==
  ASSUME NEW s, s # {}
  PROVE  Pick(s) \in s
  BY DEF Pick

\* A set without its picked element is smaller.
LEMMA Smaller ==
  ASSUME NEW s, IsFiniteSet(s), NEW x \in s
  PROVE  /\ IsFiniteSet(s \ {x})
         /\ Cardinality(s) \in Nat /\ Cardinality(s \ {x}) \in Nat
         /\ Cardinality(s \ {x}) = Cardinality(s) - 1
  BY FS_RemoveElement, FS_CardinalityType

\* Two tables agree on a set where their values do.
LEMMA AddsAgree ==
  ASSUME NEW i, NEW j, NEW v, NEW w, NEW D, NEW E, Adds(i, v, D), Adds(j, w, E),
         NEW S, IsFiniteSet(S), S \subseteq D, S \subseteq E, \A x \in S : v[x] = w[x]
  PROVE  i[S] = j[S]
  <1> DEFINE T == {n \in Nat : \E s \in SUBSET S : Cardinality(s) = n /\ i[s] # j[s]}
  <1> SUFFICES ASSUME i[S] # j[S]
               PROVE  FALSE
    OBVIOUS
  <1>1. Cardinality(S) \in T
    BY FS_CardinalityType
  <1>2. PICK m \in T : \A n \in T : m <= n
    BY <1>1, Least
  <1>3. PICK s \in SUBSET S : Cardinality(s) = m /\ i[s] # j[s]
    OBVIOUS
  <1> DEFINE p == Pick(s)
             rest == s \ {p}
  <1>4. /\ i[s] = (IF s = {} THEN 0 ELSE v[p] + i[rest])
        /\ j[s] = (IF s = {} THEN 0 ELSE w[p] + j[rest])
    BY DEF Adds
  <1>5. s # {} /\ p \in s
    BY <1>3, <1>4, PickIsIn
  <1>6. v[p] = w[p]
    BY <1>5
  <1>7. i[rest] # j[rest]
    BY <1>3, <1>4, <1>5, <1>6
  <1>8. Cardinality(rest) \in Nat /\ Cardinality(rest) = m - 1
    BY <1>3, <1>5, Smaller, FS_Subset
  <1>9. Cardinality(rest) \in T /\ m \in Nat
    BY <1>7, <1>8
  <1> HIDE DEF T
  <1>10. m <= Cardinality(rest)
    BY <1>2, <1>9
  <1> QED BY <1>8, <1>9, <1>10

LEMMA AddsExists ==
  ASSUME NEW v, NEW D, IsFiniteSet(D)
  PROVE  \E iter : Adds(iter, v, D)
  <1> DEFINE T == {n \in Nat : \E s \in SUBSET D : Cardinality(s) = n /\ ~\E iter : Adds(iter, v, s)}
  <1> SUFFICES ASSUME ~\E iter : Adds(iter, v, D)
               PROVE  FALSE
    OBVIOUS
  <1>1. Cardinality(D) \in T
    BY FS_CardinalityType
  <1>2. PICK m \in T : \A n \in T : m <= n
    BY <1>1, Least
  <1>3. PICK S \in SUBSET D : Cardinality(S) = m /\ ~\E iter : Adds(iter, v, S)
    OBVIOUS
  <1>f. IsFiniteSet(S) /\ \A s \in SUBSET S : IsFiniteSet(s)
    BY FS_Subset
  <1> DEFINE table(s) == CHOOSE iter : Adds(iter, v, s)
             sum(s) == table(s)[s]
  <1>4. ASSUME NEW s \in SUBSET S, s # S
        PROVE  Adds(table(s), v, s)
    <2>1. PICK x \in S : x \notin s
      BY <1>4
    <2>2. Cardinality(s) <= Cardinality(S \ {x}) /\ Cardinality(s) \in Nat
      BY <1>f, <2>1, FS_Subset, FS_CardinalityType
    <2>3. Cardinality(s) < m
      BY <1>3, <1>f, <2>2, Smaller
    <2>4. ~(Cardinality(s) \in T)
      BY <1>2, <2>2, <2>3
    <2>5. \E iter : Adds(iter, v, s)
      BY <2>2, <2>4
    <2> QED BY <2>5
  <1> HIDE DEF table, T
  <1>5. ASSUME NEW s \in SUBSET S, s # S, s # {}
        PROVE  sum(s) = v[Pick(s)] + sum(s \ {Pick(s)})
    <2> DEFINE rest == s \ {Pick(s)}
    <2>1. rest \in SUBSET S /\ rest # S /\ rest \in SUBSET s
      BY <1>5
    <2>2. Adds(table(s), v, s) /\ Adds(table(rest), v, rest)
      BY <1>4, <1>5, <2>1
    <2>3. table(s)[s] = v[Pick(s)] + table(s)[rest]
      BY <1>5, <2>2 DEF Adds
    <2>4. table(s)[rest] = table(rest)[rest]
      BY <1>f, <2>1, <2>2, AddsAgree
    <2> QED BY <2>3, <2>4
  <1>6. S # {} => sum({}) = 0
    BY <1>4 DEF Adds
  <1> HIDE DEF sum
  <1> DEFINE iter == [s \in SUBSET S |-> IF s = {} THEN 0 ELSE v[Pick(s)] + sum(s \ {Pick(s)})]
  <1>7. ASSUME NEW s \in SUBSET S, s # {}
        PROVE  iter[s \ {Pick(s)}] = sum(s \ {Pick(s)})
    <2> DEFINE rest == s \ {Pick(s)}
    <2>1. rest \in SUBSET S /\ rest # S /\ S # {}
      BY <1>7, PickIsIn
    <2>2. iter[rest] = (IF rest = {} THEN 0 ELSE v[Pick(rest)] + sum(rest \ {Pick(rest)}))
      BY <2>1
    <2> QED BY <1>5, <1>6, <2>1, <2>2
  <1>8. Adds(iter, v, S)
    <2>1. iter = [s \in SUBSET S |-> IF s = {} THEN 0 ELSE v[Pick(s)] + iter[s \ {Pick(s)}]]
      BY <1>7
    <2> QED BY <2>1 DEF Adds
  <1> QED BY <1>3, <1>8

LEMMA SumIsATable ==
  ASSUME NEW v, NEW S, IsFiniteSet(S)
  PROVE  \E iter : Adds(iter, v, S) /\ SumOver(v, S) = iter[S]
  <1> DEFINE table == CHOOSE iter : Adds(iter, v, S)
  <1>1. Adds(table, v, S)
    BY AddsExists
  <1>2. SumOver(v, S) = table[S]
    BY Zenon DEF SumOver, FoldFunctionOnSet, MapThenFoldSet, Adds, Pick
  <1> QED BY <1>1, <1>2

LEMMA SumOfNone ==
  ASSUME NEW v
  PROVE  SumOver(v, {}) = 0
  <1>1. PICK i : Adds(i, v, {}) /\ SumOver(v, {}) = i[{}]
    BY SumIsATable, FS_EmptySet
  <1>2. i[{}] = 0
    BY <1>1 DEF Adds
  <1> QED BY <1>1, <1>2

LEMMA SumPicks ==
  ASSUME NEW v, NEW S, IsFiniteSet(S), S # {}
  PROVE  SumOver(v, S) = v[Pick(S)] + SumOver(v, S \ {Pick(S)})
  <1> DEFINE rest == S \ {Pick(S)}
  <1>1. PICK i : Adds(i, v, S) /\ SumOver(v, S) = i[S]
    BY SumIsATable
  <1>2. IsFiniteSet(rest)
    BY FS_Subset
  <1>3. PICK j : Adds(j, v, rest) /\ SumOver(v, rest) = j[rest]
    BY <1>2, SumIsATable
  <1>4. i[rest] = j[rest]
    BY <1>1, <1>2, <1>3, AddsAgree
  <1>5. i[S] = v[Pick(S)] + i[rest]
    BY <1>1 DEF Adds
  <1> QED BY <1>1, <1>3, <1>4, <1>5

\* Equal values have equal sums.
LEMMA SumOfSame ==
  ASSUME NEW v, NEW w, NEW S, IsFiniteSet(S), \A x \in S : v[x] = w[x]
  PROVE  SumOver(v, S) = SumOver(w, S)
  BY SumIsATable, AddsAgree

\* A sum takes its elements in any order.
LEMMA SumWithout ==
  ASSUME NEW v, NEW S, IsFiniteSet(S), \A x \in S : v[x] \in Int
  PROVE  /\ SumOver(v, S) \in Int
         /\ \A x \in S : SumOver(v, S) = v[x] + SumOver(v, S \ {x})
  <1> DEFINE Fine(s) == /\ SumOver(v, s) \in Int
                        /\ \A x \in s : SumOver(v, s) = v[x] + SumOver(v, s \ {x})
             T == {n \in Nat : \E s \in SUBSET S : Cardinality(s) = n /\ ~Fine(s)}
  <1> SUFFICES ASSUME ~Fine(S)
               PROVE  FALSE
    OBVIOUS
  <1> HIDE DEF Fine
  <1>1. Cardinality(S) \in T
    BY FS_CardinalityType
  <1>2. PICK m \in T : \A n \in T : m <= n
    BY <1>1, Least
  <1>3. PICK s \in SUBSET S : Cardinality(s) = m /\ ~Fine(s)
    OBVIOUS
  <1>f. IsFiniteSet(s)
    BY FS_Subset
  <1>4. \A r \in SUBSET s : r # s => Fine(r)
    <2> SUFFICES ASSUME NEW r \in SUBSET s, r # s
                 PROVE  Fine(r)
      OBVIOUS
    <2>1. PICK x \in s : x \notin r
      OBVIOUS
    <2>2. Cardinality(s \ {x}) \in Nat /\ Cardinality(s \ {x}) = m - 1 /\ m \in Nat
      BY <1>3, <1>f, Smaller
    <2>3. Cardinality(r) \in Nat /\ Cardinality(r) <= Cardinality(s \ {x})
      BY <1>f, <2>1, FS_Subset, FS_CardinalityType
    <2>4. Cardinality(r) \in T => m <= Cardinality(r)
      BY <1>2
    <2>5. ~(Cardinality(r) \in T)
      BY <2>2, <2>3, <2>4
    <2> QED BY <2>3, <2>5
  <1> USE DEF Fine
  <1>5. s # {}
    BY <1>3, SumOfNone
  <1> DEFINE p == Pick(s)
  <1>6. p \in s /\ SumOver(v, s) = v[p] + SumOver(v, s \ {p}) /\ v[p] \in Int
    BY <1>5, <1>f, PickIsIn, SumPicks
  <1> HIDE DEF p
  <1>7. SumOver(v, s) \in Int
    BY <1>4, <1>6
  <1>8. ASSUME NEW x \in s, x # p
        PROVE  SumOver(v, s) = v[x] + SumOver(v, s \ {x})
    <2>1. (s \ {p}) \ {x} = (s \ {x}) \ {p}
      OBVIOUS
    <2>2. SumOver(v, s \ {p}) = v[x] + SumOver(v, (s \ {p}) \ {x})
      BY <1>4, <1>6, <1>8
    <2>3. SumOver(v, s \ {x}) = v[p] + SumOver(v, (s \ {x}) \ {p})
      BY <1>4, <1>6, <1>8
    <2>4. SumOver(v, s \ {p}) \in Int /\ SumOver(v, s \ {x}) \in Int /\ v[x] \in Int
      BY <1>4, <1>6
    <2>5. SumOver(v, (s \ {p}) \ {x}) \in Int
      <3>1. (s \ {p}) \ {x} \in SUBSET s /\ (s \ {p}) \ {x} # s
        BY <1>6
      <3> QED BY <1>4, <3>1
    <2> DEFINE both == SumOver(v, (s \ {p}) \ {x})
    <2>6. /\ SumOver(v, s \ {p}) = v[x] + both /\ SumOver(v, s \ {x}) = v[p] + both
          /\ both \in Int
      BY <2>1, <2>2, <2>3, <2>5
    <2> HIDE DEF both
    <2> QED BY <1>6, <2>4, <2>6
  <1> QED BY <1>3, <1>6, <1>7, <1>8

LEMMA SumWith ==
  ASSUME NEW v, NEW S, IsFiniteSet(S), NEW x, x \notin S, \A y \in S \cup {x} : v[y] \in Int
  PROVE  SumOver(v, S \cup {x}) = v[x] + SumOver(v, S)
  <1>1. IsFiniteSet(S \cup {x}) /\ (S \cup {x}) \ {x} = S
    BY FS_AddElement
  <1> QED BY <1>1, SumWithout

LEMMA SumGrows ==
  ASSUME NEW v, NEW w, NEW S, IsFiniteSet(S), NEW x, x \notin S, w[x] \in Int,
         \A y \in S : v[y] \in Int /\ w[y] = v[y]
  PROVE  SumOver(w, S \cup {x}) = w[x] + SumOver(v, S)
  <1>1. SumOver(w, S \cup {x}) = w[x] + SumOver(w, S)
    BY SumWith
  <1>2. SumOver(w, S) = SumOver(v, S)
    BY SumOfSame
  <1> QED BY <1>1, <1>2

\* A sum of values that are not negative is not below any of its parts.
LEMMA SumOfNaturals ==
  ASSUME NEW v, NEW S, IsFiniteSet(S), \A x \in S : v[x] \in Nat
  PROVE  /\ SumOver(v, S) \in Nat
         /\ \A x \in S : v[x] <= SumOver(v, S)
  <1> DEFINE T == {n \in Nat : \E s \in SUBSET S : Cardinality(s) = n /\ ~(SumOver(v, s) \in Nat)}
  <1>1. ASSUME T # {}
        PROVE  FALSE
    <2>1. PICK m \in T : \A n \in T : m <= n
      BY <1>1, Least
    <2>2. PICK s \in SUBSET S : Cardinality(s) = m /\ ~(SumOver(v, s) \in Nat)
      OBVIOUS
    <2>3. IsFiniteSet(s) /\ s # {}
      <3>1. SumOver(v, {}) \in Nat
        BY SumOfNone
      <3>2. IsFiniteSet(s)
        BY FS_Subset
      <3> QED BY <2>2, <3>1, <3>2
    <2>4. PICK x \in s : TRUE
      BY <2>3
    <2>5. SumOver(v, s) = v[x] + SumOver(v, s \ {x}) /\ v[x] \in Nat
      BY <2>3, SumWithout
    <2>6. Cardinality(s \ {x}) \in Nat /\ Cardinality(s \ {x}) = m - 1 /\ m \in Nat
      BY <2>2, <2>3, Smaller
    <2>7. ~(Cardinality(s \ {x}) \in T)
      BY <2>1, <2>6
    <2>8. SumOver(v, s \ {x}) \in Nat
      BY <2>6, <2>7
    <2> QED BY <2>2, <2>5, <2>8
  <1>2. ASSUME NEW s \in SUBSET S
        PROVE  SumOver(v, s) \in Nat
    <2>1. Cardinality(s) \in Nat
      BY FS_Subset, FS_CardinalityType
    <2> QED BY <1>1, <2>1
  <1>3. ASSUME NEW x \in S
        PROVE  v[x] <= SumOver(v, S)
    <2>1. SumOver(v, S) = v[x] + SumOver(v, S \ {x})
      BY SumWithout
    <2>2. SumOver(v, S \ {x}) \in Nat /\ v[x] \in Nat
      BY <1>2
    <2> QED BY <2>1, <2>2
  <1> QED BY <1>2, <1>3

(***************************************************************************)
(* Sums along sequences.                                                   *)
(***************************************************************************)
LEMMA AlongType ==
  ASSUME NEW E, NEW size \in [E -> Nat], NEW s \in Seq(E)
  PROVE  SumAlong(size, s) \in Nat
  <1> DEFINE v == [i \in DOMAIN s |-> size[s[i]]]
  <1>1. IsFiniteSet(DOMAIN s) /\ \A i \in DOMAIN s : v[i] \in Nat
    BY FS_Interval
  <1> HIDE DEF v
  <1>2. SumOver(v, DOMAIN s) \in Nat
    BY <1>1, SumOfNaturals
  <1> QED BY <1>2 DEF SumAlong, v

LEMMA AlongNone ==
  ASSUME NEW size
  PROVE  SumAlong(size, <<>>) = 0
  <1>1. DOMAIN <<>> = {}
    OBVIOUS
  <1> QED BY <1>1, SumOfNone DEF SumAlong

LEMMA AlongAppend ==
  ASSUME NEW E, NEW size \in [E -> Nat], NEW s \in Seq(E), NEW e \in E
  PROVE  SumAlong(size, Append(s, e)) = SumAlong(size, s) + size[e]
  <1> DEFINE t == Append(s, e)
             v == [i \in DOMAIN s |-> size[s[i]]]
             w == [i \in DOMAIN t |-> size[t[i]]]
             n == Len(s) + 1
  <1>1. /\ DOMAIN s = 1..Len(s) /\ Len(s) \in Nat /\ n \notin DOMAIN s
        /\ DOMAIN t = DOMAIN s \cup {n} /\ t[n] = e /\ \A i \in DOMAIN s : t[i] = s[i]
        /\ \A i \in DOMAIN s : s[i] \in E
    OBVIOUS
  <1>2. IsFiniteSet(DOMAIN s)
    BY <1>1, FS_Interval
  <1> HIDE DEF t, n
  <1>3. /\ \A i \in DOMAIN s : v[i] = w[i]
        /\ \A i \in DOMAIN s \cup {n} : w[i] \in Int
        /\ w[n] = size[e] /\ size[e] \in Nat
    BY <1>1
  <1> HIDE DEF v, w
  <1>4. SumOver(w, DOMAIN t) = w[n] + SumOver(w, DOMAIN s)
    <2> DEFINE D == DOMAIN s
    <2>1. IsFiniteSet(D) /\ n \notin D /\ \A i \in D \cup {n} : w[i] \in Int
      BY <1>1, <1>2, <1>3
    <2>2. DOMAIN t = D \cup {n}
      BY <1>1
    <2> HIDE DEF D
    <2>3. SumOver(w, D \cup {n}) = w[n] + SumOver(w, D)
      BY ONLY <2>1, SumWith
    <2> QED BY <2>2, <2>3 DEF D
  <1>5. SumOver(w, DOMAIN s) = SumOver(v, DOMAIN s)
    BY <1>2, <1>3, SumOfSame
  <1>6. SumAlong(size, t) = SumOver(w, DOMAIN t) /\ SumAlong(size, s) = SumOver(v, DOMAIN s)
    BY DEF SumAlong, v, w
  <1>7. SumAlong(size, s) \in Nat
    BY AlongType
  <1>8. SumAlong(size, t) = SumAlong(size, s) + size[e]
    BY <1>3, <1>4, <1>5, <1>6, <1>7
  <1> QED BY <1>8 DEF t

LEMMA AppendToConcat ==
  ASSUME NEW E, NEW s \in Seq(E), NEW r \in Seq(E), NEW e \in E
  PROVE  s \o Append(r, e) = Append(s \o r, e)
  <1> DEFINE a == s \o Append(r, e)
             b == Append(s \o r, e)
  <1>1. Append(r, e) \in Seq(E) /\ Len(Append(r, e)) = Len(r) + 1
    OBVIOUS
  <1>2. s \o r \in Seq(E) /\ Len(s \o r) = Len(s) + Len(r) /\ Len(s) \in Nat /\ Len(r) \in Nat
    OBVIOUS
  <1>3. a \in Seq(E) /\ b \in Seq(E) /\ Len(a) = Len(s) + Len(r) + 1 /\ Len(b) = Len(a)
    BY <1>1, <1>2
  <1>4. ASSUME NEW i \in 1..Len(a)
        PROVE  a[i] = b[i]
    BY <1>1, <1>2, <1>3
  <1> HIDE DEF a, b
  <1>5. a = b
    BY <1>3, <1>4
  <1> QED BY <1>5 DEF a, b

\* The sizes of two sequences add up, whatever their lengths.
LEMMA AlongConcat ==
  ASSUME NEW E, NEW size \in [E -> Nat], NEW s \in Seq(E), NEW t \in Seq(E)
  PROVE  SumAlong(size, s \o t) = SumAlong(size, s) + SumAlong(size, t)
  <1> DEFINE Adding(u) == SumAlong(size, s \o u) = SumAlong(size, s) + SumAlong(size, u)
             T == {n \in Nat : \E u \in Seq(E) : Len(u) = n /\ ~Adding(u)}
  <1>1. ASSUME T # {}
        PROVE  FALSE
    <2> HIDE DEF Adding
    <2>1. PICK m \in T : \A n \in T : m <= n
      BY <1>1, Least
    <2>2. PICK u \in Seq(E) : Len(u) = m /\ ~Adding(u)
      OBVIOUS
    <2>3. u # <<>>
      <3>1. s \o <<>> = s
        OBVIOUS
      <3>2. Adding(<<>>)
        BY <3>1, AlongNone, AlongType DEF Adding
      <3> QED BY <2>2, <3>2
    <2>4. PICK r \in Seq(E) : \E e \in E : u = Append(r, e) /\ Len(r) = m - 1
      <3>1. /\ SubSeq(u, 1, m - 1) \in Seq(E) /\ Len(SubSeq(u, 1, m - 1)) = m - 1
            /\ u = Append(SubSeq(u, 1, m - 1), u[m]) /\ u[m] \in E
        BY <2>2, <2>3
      <3> QED BY <3>1
    <2>5. PICK e \in E : u = Append(r, e) /\ Len(r) = m - 1
      BY <2>4
    <2>6. Len(r) \in Nat /\ m \in Nat
      BY <2>2
    <2>7. ~(Len(r) \in T)
      BY <2>1, <2>5, <2>6
    <2>8. SumAlong(size, s \o r) = SumAlong(size, s) + SumAlong(size, r)
      BY <2>6, <2>7 DEF Adding
    <2>9. s \o u = Append(s \o r, e) /\ s \o r \in Seq(E)
      BY <2>5, AppendToConcat
    <2>10. SumAlong(size, s \o u) = SumAlong(size, s \o r) + size[e]
      BY <2>9, AlongAppend
    <2>11. SumAlong(size, u) = SumAlong(size, r) + size[e]
      BY <2>5, AlongAppend
    <2>12. SumAlong(size, s) \in Nat /\ SumAlong(size, r) \in Nat /\ size[e] \in Nat
      BY AlongType
    <2>13. Adding(u)
      BY <2>8, <2>10, <2>11, <2>12 DEF Adding
    <2> QED BY <2>2, <2>13
  <1>2. Len(t) \in Nat
    OBVIOUS
  <1> HIDE DEF Adding
  <1>3. Adding(t)
    BY <1>1, <1>2
  <1> QED BY <1>3 DEF Adding

-----------------------------------------------------------------------------
(***************************************************************************)
(* Sorted sorts: it lists the set, each element once, in ascending ranks.  *)
(***************************************************************************)
\* The number of elements below one is its place, counted from 0.
LEMMA PlacesCount ==
  ASSUME NEW D, IsFiniteSet(D), NEW rank \in [D -> Int],
         \A x, y \in D : rank[x] = rank[y] => x = y
  PROVE  LET n == Cardinality(D)
             f == [x \in D |-> Cardinality(Below(rank, x))]
             s == Sorted(rank)
         IN /\ n \in Nat /\ f \in [D -> 0..n - 1]
            /\ \A x, y \in D : rank[x] < rank[y] => f[x] < f[y]
            /\ \A x, y \in D : f[x] = f[y] => x = y
            /\ \A k \in 1..n : s[k] \in D /\ f[s[k]] = k - 1
  <1> DEFINE n == Cardinality(D)
             f == [x \in D |-> Cardinality(Below(rank, x))]
             s == Sorted(rank)
  <1>1. n \in Nat
    BY FS_CardinalityType
  <1>2. ASSUME NEW x \in D
        PROVE  IsFiniteSet(Below(rank, x)) /\ Below(rank, x) \subseteq D \ {x}
    <2>1. Below(rank, x) \subseteq D \ {x}
      BY DEF Below
    <2> QED BY <2>1, FS_Subset
  <1>3. ASSUME NEW x \in D
        PROVE  f[x] \in 0..n - 1
    <2>1. IsFiniteSet(D \ {x}) /\ Cardinality(D \ {x}) = n - 1
      BY FS_RemoveElement
    <2>2. Cardinality(Below(rank, x)) <= n - 1 /\ Cardinality(Below(rank, x)) \in Nat
      BY <1>2, <2>1, FS_Subset, FS_CardinalityType
    <2> QED BY <1>1, <2>2
  <1>4. ASSUME NEW x \in D, NEW y \in D, rank[x] < rank[y]
        PROVE  f[x] < f[y]
    <2>1. Below(rank, x) \cup {x} \subseteq Below(rank, y)
      BY <1>4 DEF Below
    <2>2. x \notin Below(rank, x)
      BY <1>2
    <2>3. /\ IsFiniteSet(Below(rank, x) \cup {x})
          /\ Cardinality(Below(rank, x) \cup {x}) = f[x] + 1
      BY <1>2, <2>2, FS_AddElement
    <2>4. Cardinality(Below(rank, x) \cup {x}) <= f[y]
      BY <1>2, <2>1, FS_Subset
    <2> QED BY <1>1, <1>3, <2>3, <2>4
  <1> HIDE DEF f
  <1>5. \A x, y \in D : f[x] = f[y] => x = y
    <2> SUFFICES ASSUME NEW x \in D, NEW y \in D, x # y
                 PROVE  f[x] # f[y]
      OBVIOUS
    <2>1. rank[x] < rank[y] \/ rank[y] < rank[x]
      OBVIOUS
    <2> QED BY <1>1, <1>3, <1>4, <2>1
  <1>6. f \in Injection(D, 0..n - 1)
    BY <1>3, <1>5 DEF Injection, IsInjective, f
  <1>7. f \in Surjection(D, 0..n - 1)
    <2>1. IsFiniteSet(0..n - 1) /\ Cardinality(0..n - 1) = n
      BY <1>1, FS_Interval
    <2> QED BY <1>6, <2>1, FS_Injection
  <1>8. ASSUME NEW k \in 1..n
        PROVE  s[k] \in D /\ f[s[k]] = k - 1
    <2>1. k - 1 \in 0..n - 1
      BY <1>1
    <2>2. \E x \in D : f[x] = k - 1
      BY <1>7, <2>1 DEF Surjection
    <2>3. \E x \in D : Cardinality(Below(rank, x)) = k - 1
      BY <2>2 DEF f
    <2>4. s[k] \in D /\ Cardinality(Below(rank, s[k])) = k - 1
      BY <2>3 DEF Sorted
    <2> QED BY <2>4 DEF f
  <1>9. f \in [D -> 0..n - 1]
    BY <1>6 DEF Injection
  <1> HIDE DEF s, n
  <1> QED BY <1>1, <1>4, <1>5, <1>8, <1>9 DEF f, n, s

LEMMA SortedSorts ==
  ASSUME NEW D, IsFiniteSet(D), NEW rank \in [D -> Int],
         \A x, y \in D : rank[x] = rank[y] => x = y
  PROVE  LET s == Sorted(rank) IN
         /\ s \in Seq(D) /\ Len(s) = Cardinality(D)
         /\ \A k, l \in 1..Len(s) : k < l => rank[s[k]] < rank[s[l]]
         /\ \A x \in D : \E k \in 1..Len(s) : s[k] = x
  <1> DEFINE n == Cardinality(D)
             f == [x \in D |-> Cardinality(Below(rank, x))]
             s == Sorted(rank)
  <1>1. n \in Nat /\ f \in [D -> 0..n - 1]
    BY PlacesCount
  <1>3. \A x \in D : f[x] \in 0..n - 1
    BY <1>1
  <1>4. \A x, y \in D : rank[x] < rank[y] => f[x] < f[y]
    BY PlacesCount
  <1>5. \A x, y \in D : f[x] = f[y] => x = y
    BY PlacesCount
  <1>8. \A k \in 1..n : s[k] \in D /\ f[s[k]] = k - 1
    BY PlacesCount
  <1> HIDE DEF f, n
  <1>9. s \in Seq(D) /\ Len(s) = n
    <2>1. s = [k \in 1..n |-> s[k]]
      BY DEF Sorted, n
    <2> HIDE DEF s
    <2>2. s \in [1..n -> D]
      BY <1>8, <2>1
    <2> QED BY <1>1, <2>2
  <1> HIDE DEF s
  <1>10. ASSUME NEW k \in 1..n, NEW l \in 1..n, k < l
         PROVE  rank[s[k]] < rank[s[l]]
    <2>1. f[s[k]] < f[s[l]] /\ s[k] \in D /\ s[l] \in D
      BY <1>1, <1>8, <1>10
    <2>2. ~(rank[s[l]] < rank[s[k]])
      BY <1>1, <1>3, <1>4, <2>1
    <2>3. rank[s[l]] # rank[s[k]]
      BY <1>1, <1>3, <2>1
    <2> QED BY <2>1, <2>2, <2>3
  <1>11. ASSUME NEW x \in D
         PROVE  \E k \in 1..n : s[k] = x
    <2>1. f[x] + 1 \in 1..n /\ f[x] = (f[x] + 1) - 1
      BY <1>1, <1>3
    <2> QED BY <1>5, <1>8, <2>1
  <1> QED BY <1>9, <1>10, <1>11 DEF s, n

\* Two sets that g matches, rank for rank, are listed alike.
Tieless(D, rank) == \A x, y \in D : rank[x] = rank[y] => x = y
Onto(D, E, g) == \A y \in E : \E x \in D : g[x] = y
Alike(D, rank, other, g) == \A x, y \in D : rank[x] < rank[y] <=> other[g[x]] < other[g[y]]

LEMMA SortedAlong ==
  ASSUME NEW D, IsFiniteSet(D), NEW rank, rank \in [D -> Int], Tieless(D, rank),
         NEW E, NEW other, other \in [E -> Int], NEW g, g \in [D -> E], Onto(D, E, g),
         Alike(D, rank, other, g)
  PROVE  /\ DOMAIN Sorted(other) = 1..Cardinality(D)
         /\ \A k \in 1..Cardinality(D) : Sorted(other)[k] = g[Sorted(rank)[k]]
  <1> DEFINE n == Cardinality(D)
             s == Sorted(rank)
  <1> USE DEF Tieless, Onto, Alike
  <1>1. \A x, y \in D : g[x] = g[y] => x = y
    <2> SUFFICES ASSUME NEW x \in D, NEW y \in D, x # y
                 PROVE  g[x] # g[y]
      OBVIOUS
    <2>1. rank[x] < rank[y] \/ rank[y] < rank[x]
      OBVIOUS
    <2>2. other[g[x]] \in Int /\ other[g[y]] \in Int
      OBVIOUS
    <2> QED BY <2>1, <2>2
  <1>2. g \in Bijection(D, E)
    BY <1>1 DEF Bijection, Injection, Surjection, IsInjective
  <1>3. Cardinality(E) = n
    BY <1>2, FS_Bijection DEF ExistsBijection
  <1>4. ASSUME NEW x \in D
        PROVE  Cardinality(Below(other, g[x])) = Cardinality(Below(rank, x))
    <2> DEFINE A == Below(rank, x)
               B == Below(other, g[x])
               h == [y \in A |-> g[y]]
    <2>1. A \subseteq D /\ \A y \in D : y \in A <=> g[y] \in B
      BY DEF Below
    <2>2. \A z \in B : \E y \in A : g[y] = z
      BY <2>1 DEF Below
    <2>3. IsFiniteSet(A)
      BY <2>1, FS_Subset
    <2> HIDE DEF A, B
    <2>4. h \in Bijection(A, B)
      BY <1>1, <2>1, <2>2 DEF Bijection, Injection, Surjection, IsInjective
    <2> HIDE DEF h
    <2>5. Cardinality(B) = Cardinality(A)
      BY <2>3, <2>4, FS_Bijection DEF ExistsBijection
    <2> QED BY <2>5 DEF A, B
  <1>5. ASSUME NEW k \in 1..n
        PROVE  (CHOOSE y \in E : Cardinality(Below(other, y)) = k - 1) = g[s[k]]
    <2> DEFINE f == [x \in D |-> Cardinality(Below(rank, x))]
    <2>0. /\ \A x, y \in D : f[x] = f[y] => x = y
          /\ s[k] \in D /\ f[s[k]] = k - 1
      BY PlacesCount
    <2> HIDE DEF s, n
    <2>1. s[k] \in D /\ Cardinality(Below(rank, s[k])) = k - 1
      BY <2>0
    <2>2. \A x \in D : Cardinality(Below(rank, x)) = k - 1 => x = s[k]
      BY <2>0
    <2>3. \A y \in E : Cardinality(Below(other, y)) = k - 1 <=> y = g[s[k]]
      BY <1>4, <2>1, <2>2
    <2>4. g[s[k]] \in E
      BY <2>1
    <2> QED BY <2>3, <2>4
  <1> HIDE DEF s, n
  <1>6. Sorted(other) =
          [k \in 1..n |-> CHOOSE y \in E : Cardinality(Below(other, y)) = k - 1]
    <2>1. DOMAIN other = E
      OBVIOUS
    <2> QED BY <1>3, <2>1 DEF Sorted
  <1>7. Sorted(other) = [k \in 1..n |-> g[s[k]]]
    BY <1>5, <1>6
  <1> QED BY <1>7 DEF s, n
===============================================================================
