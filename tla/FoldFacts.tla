------------------------------ MODULE FoldFacts ------------------------------
(***************************************************************************)
(* What FoldLeft computes, for one operator op and one start value base.   *)
(* The installed provers cannot instantiate a theorem over every operator; *)
(* a module that folds instantiates this one instead, with its operator in *)
(* the place of op.                                                        *)
(***************************************************************************)
EXTENDS Integers, SequencesExt, WellFoundedInduction, TLAPS

CONSTANTS
  op(_, _), \* the operator folded with
  base      \* the value it starts from

-----------------------------------------------------------------------------
\* A non-empty set of naturals has a least element.
LEMMA LeastElement ==
  ASSUME NEW S \in SUBSET Nat, S # {}
  PROVE  \E m \in S : \A n \in S : m <= n
<1>1. PICK m \in S : \A n \in S : <<n, m>> \notin OpToRel(<, Nat)
  BY WFMin, NatLessThanWellFounded
<1>2. \A n \in S : ~(n < m)
  BY <1>1 DEF OpToRel
<1> QED
  BY <1>2

\* Induction over the naturals, with the set of those that have the property.
LEMMA SetInduction ==
  ASSUME NEW S, 0 \in S, \A n \in Nat : n \in S => n + 1 \in S
  PROVE  Nat \subseteq S
<1> SUFFICES ASSUME NEW k \in Nat, k \notin S PROVE FALSE
  OBVIOUS
<1> DEFINE T == {n \in Nat : n \notin S}
<1>1. PICK m \in T : \A n \in T : m <= n
  <2>1. T \in SUBSET Nat /\ T # {}
    OBVIOUS
  <2> HIDE DEF T
  <2> QED
    BY <2>1, LeastElement
<1>2. m \in Nat /\ m \notin S /\ m # 0
  OBVIOUS
<1>3. m - 1 \in Nat /\ (m - 1) + 1 = m /\ ~(m <= m - 1)
  BY <1>2
<1>4. m - 1 \notin S
  BY <1>2, <1>3
<1>5. m - 1 \in T
  BY <1>3, <1>4
<1> QED
  BY <1>1, <1>3, <1>5

\* The greatest of a set of integers.
LEMMA MaxIsGreatest ==
  ASSUME NEW S \in SUBSET Int, NEW n \in S, \A m \in S : m <= n
  PROVE  Max(S) = n
<1>1. Max(S) \in S /\ \A m \in S : Max(S) >= m
  <2> DEFINE P(x) == \A y \in S : x >= y
  <2>1. \E x \in S : P(x)
    OBVIOUS
  <2>2. (CHOOSE x \in S : P(x)) \in S /\ P(CHOOSE x \in S : P(x))
    <3> HIDE DEF P
    <3> QED
      BY <2>1
  <2> QED
    BY <2>2 DEF Max
<1>2. \A x \in S : x >= n /\ n >= x => x = n
  OBVIOUS
<1> QED
  BY <1>1, <1>2

-----------------------------------------------------------------------------
\* The table of intermediate results that FoldLeft is defined by.
IsTable(table, seq, n) ==
  table = [s \in SUBSET (1 .. n) |->
             IF s = {} THEN base ELSE op(table[s \ {Max(s)}], seq[Max(s)])]

\* Every sequence has such a table: that of its first n elements is extended
\* by the subsets with n + 1 in them.
LEMMA TableExists ==
  ASSUME NEW seq
  PROVE  \A n \in Nat : \E table : IsTable(table, seq, n)
<1> DEFINE S == {n \in Nat : \E table : IsTable(table, seq, n)}
<1>1. 0 \in S
  <2>1. 1 .. 0 = {}
    OBVIOUS
  <2>2. IsTable([s \in SUBSET (1 .. 0) |-> base], seq, 0)
    BY <2>1 DEF IsTable
  <2> QED
    BY <2>2
<1>2. ASSUME NEW n \in Nat, n \in S PROVE n + 1 \in S
  <2>1. PICK old : IsTable(old, seq, n)
    BY <1>2
  <2> DEFINE new == [s \in SUBSET (1 .. n + 1) |->
                       IF n + 1 \in s THEN op(old[s \ {n + 1}], seq[n + 1]) ELSE old[s]]
             Entry(s) == IF s = {} THEN base ELSE op(new[s \ {Max(s)}], seq[Max(s)])
  <2>2. ASSUME NEW s \in SUBSET (1 .. n + 1), n + 1 \in s
        PROVE  new[s] = Entry(s)
    <3>1. s \in SUBSET Int /\ \A m \in s : m <= n + 1
      OBVIOUS
    <3>2. Max(s) = n + 1
      BY <2>2, <3>1, MaxIsGreatest
    <3>3. s \ {n + 1} \in SUBSET (1 .. n + 1) /\ n + 1 \notin s \ {n + 1}
      OBVIOUS
    <3>4. new[s \ {n + 1}] = old[s \ {n + 1}]
      BY <3>3
    <3>5. new[s] = op(old[s \ {n + 1}], seq[n + 1]) /\ s # {}
      BY <2>2
    <3> HIDE DEF new
    <3> QED
      BY <3>2, <3>4, <3>5
  <2>3. ASSUME NEW s \in SUBSET (1 .. n + 1), n + 1 \notin s
        PROVE  new[s] = Entry(s)
    <3>1. s \in SUBSET (1 .. n) /\ new[s] = old[s]
      BY <2>3
    <3>2. /\ s \ {Max(s)} \in SUBSET (1 .. n + 1) /\ n + 1 \notin s \ {Max(s)}
      BY <2>3
    <3>3. new[s \ {Max(s)}] = old[s \ {Max(s)}]
      BY <3>2
    <3>4. old[s] = IF s = {} THEN base ELSE op(old[s \ {Max(s)}], seq[Max(s)])
      BY <2>1, <3>1 DEF IsTable
    <3> HIDE DEF new
    <3> QED
      BY <3>1, <3>3, <3>4
  <2>4. new = [s \in SUBSET (1 .. n + 1) |-> Entry(s)]
    <3>1. \A s \in SUBSET (1 .. n + 1) : new[s] = Entry(s)
      BY <2>2, <2>3
    <3>2. new = [s \in SUBSET (1 .. n + 1) |-> new[s]]
      OBVIOUS
    <3> HIDE DEF new, Entry
    <3> QED
      BY <3>1, <3>2
  <2>5. IsTable(new, seq, n + 1)
    BY <2>4 DEF IsTable
  <2> HIDE DEF new
  <2> QED
    BY <2>5
<1>3. Nat \subseteq S
  <2> HIDE DEF S
  <2> QED
    BY <1>1, <1>2, SetInduction
<1> QED
  BY <1>3

\* The results acc of folding seq up to each position.
Runs(acc, seq, n) ==
  acc[0] = base /\ \A i \in 1 .. n : acc[i] = op(acc[i - 1], seq[i])

\* FoldLeft starts from base, applies op to one element after the other, and
\* returns the last result.
LEMMA FoldRuns ==
  \A n \in Nat : \A seq : DOMAIN seq = 1 .. n =>
    \E acc : Runs(acc, seq, n) /\ FoldLeft(op, base, seq) = acc[n]
<1> SUFFICES ASSUME NEW n \in Nat, NEW seq, DOMAIN seq = 1 .. n
             PROVE  \E acc : Runs(acc, seq, n) /\ FoldLeft(op, base, seq) = acc[n]
  OBVIOUS
<1> DEFINE table == CHOOSE t : IsTable(t, seq, n)
<1>1. IsTable(table, seq, n)
  BY TableExists
<1>2. FoldLeft(op, base, seq) = table[1 .. n]
  <2>1. FoldLeft(op, base, seq) = (CHOOSE t : IsTable(t, seq, n))[DOMAIN seq]
    BY Zenon DEF FoldLeft, MapThenFoldSet, IsTable
  <2> QED
    BY <2>1
<1> HIDE DEF table
<1> DEFINE acc == [i \in 0 .. n |-> table[1 .. i]]
<1>3. acc[0] = base
  <2>1. 1 .. 0 = {} /\ 0 \in 0 .. n
    OBVIOUS
  <2> QED
    BY <1>1, <2>1 DEF IsTable
<1>4. ASSUME NEW i \in 1 .. n PROVE acc[i] = op(acc[i - 1], seq[i])
  <2>1. /\ 1 .. i \in SUBSET (1 .. n) /\ i \in 1 .. i
        /\ i \in 0 .. n /\ i - 1 \in 0 .. n
    OBVIOUS
  <2>2. (1 .. i) \ {i} = 1 .. (i - 1)
    <3>1. \A k \in Int : k \in (1 .. i) \ {i} <=> k \in 1 .. (i - 1)
      OBVIOUS
    <3>2. (1 .. i) \ {i} \subseteq Int /\ 1 .. (i - 1) \subseteq Int
      OBVIOUS
    <3> QED
      BY <3>1, <3>2, Zenon
  <2>3. Max(1 .. i) = i
    <3>1. 1 .. i \in SUBSET Int /\ i \in 1 .. i /\ \A m \in 1 .. i : m <= i
      OBVIOUS
    <3> QED
      BY <3>1, MaxIsGreatest
  <2>4. table[1 .. i] = op(table[1 .. (i - 1)], seq[i])
    BY <1>1, <2>1, <2>2, <2>3 DEF IsTable
  <2> QED
    BY <2>1, <2>4
<1>5. acc[n] = table[1 .. n]
  OBVIOUS
<1> HIDE DEF acc
<1> QED
  BY <1>2, <1>3, <1>4, <1>5 DEF Runs
=============================================================================
