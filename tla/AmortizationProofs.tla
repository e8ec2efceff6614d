------------------------- MODULE AmortizationProofs -------------------------
(***************************************************************************)
(* What the amortization engine computes for every loan: the payment is a  *)
(* natural number that covers the interest, and no row of a schedule has a *)
(* negative portion.  The recursive functions are reasoned about by        *)
(* induction, which rests on every nonempty set of naturals having a least *)
(* member: the sets below hold the numbers for which a statement is true.  *)
(***************************************************************************)
EXTENDS Amortization, FiniteSetTheorems, WellFoundedInduction, TLAPS

\* Every nonempty set of natural numbers has a least member.
LEMMA LeastNatural ==
  ASSUME NEW T, T \subseteq Nat, T # {}
  PROVE  \E m \in T : \A k \in T : m <= k
<1> DEFINE R == {p \in Nat \X Nat : p[1] < p[2]}
<1>1. IsWellFoundedOn(R, Nat)
  BY NatLessThanWellFounded DEF OpToRel
<1>2. PICK m \in T : \A k \in T : ~(<<k, m>> \in R)
  BY <1>1, WFMin
<1>3. ASSUME NEW k \in T PROVE m <= k
  <2>1. m \in Nat /\ k \in Nat
    OBVIOUS
  <2>2. ~(k < m)
    BY <1>2, <2>1
  <2> QED
    BY <2>1, <2>2
<1> QED
  BY <1>3

\* Induction: a set that has 0, and with a number the next, has all of them.
LEMMA InductiveSet ==
  ASSUME NEW T, 0 \in T, \A n \in Nat : n \in T => n + 1 \in T
  PROVE  Nat \subseteq T
<1>1. SUFFICES ASSUME Nat \ T # {} PROVE FALSE
  OBVIOUS
<1>2. PICK m \in Nat \ T : \A k \in Nat \ T : m <= k
  BY <1>1, LeastNatural
<1>3. m # 0 /\ m - 1 \in Nat
  BY <1>2
<1>4. m - 1 \in T
  BY <1>2, <1>3
<1> QED
  BY <1>2, <1>3, <1>4

\* The same up to a bound.
LEMMA InductionTo ==
  ASSUME NEW n \in Nat, NEW T, 0 \in T, \A k \in 0 .. n - 1 : k \in T => k + 1 \in T
  PROVE  0 .. n \subseteq T
<1> DEFINE U == {k \in Nat : k <= n => k \in T}
<1>1. \A k \in Nat : k \in U => k + 1 \in U
  OBVIOUS
<1>2. Nat \subseteq U
  <2>1. 0 \in U
    OBVIOUS
  <2> HIDE DEF U
  <2> QED
    BY <1>1, <2>1, InductiveSet
<1> QED
  BY <1>2

-----------------------------------------------------------------------------
(* Sums over a finite set, of the weight w[p] of each member *)

Pick(rows) == CHOOSE p \in rows : TRUE
SumStep(w, f, s) == IF s = {} THEN 0 ELSE w[Pick(s)] + f[s \ {Pick(s)}]

\* f gives the sums of all subsets of rows that have at most n members.
SumsUpTo(w, f, rows, n) ==
  f = [s \in {s \in SUBSET rows : Cardinality(s) <= n} |-> SumStep(w, f, s)]
AreSums(w, f, rows) == f = [s \in SUBSET rows |-> SumStep(w, f, s)]

\* The sum of the weights of rows, by taking one member after the other out.
Total(w, rows) == (CHOOSE f : AreSums(w, f, rows))[rows]

\* A finite set without one of its members has one member less.
LEMMA SmallerSubset ==
  ASSUME NEW rows, IsFiniteSet(rows), NEW s \in SUBSET rows, NEW p \in s
  PROVE  /\ s \ {p} \in SUBSET rows /\ IsFiniteSet(s)
         /\ Cardinality(s) \in Nat \ {0} /\ Cardinality(s \ {p}) = Cardinality(s) - 1
<1>1. IsFiniteSet(s)
  BY FS_Subset
<1>2. Cardinality(s) \in Nat /\ Cardinality(s \ {p}) = Cardinality(s) - 1
  BY <1>1, FS_CardinalityType, FS_RemoveElement
<1>3. Cardinality(s) # 0
  BY <1>1, FS_EmptySet
<1> QED
  BY <1>1, <1>2, <1>3

\* A finite set has sums: what the recursive equation asks for exists.
LEMMA SumsDefined ==
  ASSUME NEW w, NEW rows, IsFiniteSet(rows)
  PROVE  \E f : AreSums(w, f, rows)
<1> DEFINE T == {n \in Nat : \E f : SumsUpTo(w, f, rows, n)}
<1>1. 0 \in T
  <2> DEFINE f == [s \in {s \in SUBSET rows : Cardinality(s) <= 0} |-> 0]
  <2>1. ASSUME NEW s \in SUBSET rows, Cardinality(s) <= 0 PROVE s = {}
    <3>1. SUFFICES ASSUME NEW p \in s PROVE FALSE
      OBVIOUS
    <3>2. Cardinality(s) \in Nat \ {0}
      BY SmallerSubset
    <3> QED
      BY <2>1, <3>2
  <2>2. SumsUpTo(w, f, rows, 0)
    BY <2>1 DEF SumsUpTo, SumStep
  <2> QED
    BY <2>2
<1>2. ASSUME NEW n \in Nat, n \in T PROVE n + 1 \in T
  <2>1. PICK f : SumsUpTo(w, f, rows, n)
    BY <1>2
  <2> DEFINE Small == {s \in SUBSET rows : Cardinality(s) <= n}
             Next1 == {s \in SUBSET rows : Cardinality(s) <= n + 1}
             g == [s \in Next1 |-> SumStep(w, f, s)]
  <2>2. ASSUME NEW s \in Next1, s # {} PROVE Pick(s) \in s /\ s \ {Pick(s)} \in Small
    <3>1. Pick(s) \in s
      BY <2>2 DEF Pick
    <3> QED
      BY <3>1, SmallerSubset
  <2>3. \A s \in Small : s \in Next1 /\ g[s] = f[s]
    <3>1. ASSUME NEW s \in Small PROVE s \in Next1
      <4>1. Cardinality(s) \in Nat
        BY FS_Subset, FS_CardinalityType
      <4> QED
        BY <4>1
    <3>2. \A s \in Small : f[s] = SumStep(w, f, s)
      BY <2>1 DEF SumsUpTo
    <3> QED
      BY <3>1, <3>2
  <2>4. \A s \in Next1 : SumStep(w, f, s) = SumStep(w, g, s)
    <3> HIDE DEF g, Small
    <3> QED
      BY <2>2, <2>3 DEF SumStep
  <2>5. g = [s \in Next1 |-> SumStep(w, g, s)]
    <3>1. g = [s \in Next1 |-> SumStep(w, f, s)]
      OBVIOUS
    <3> HIDE DEF g
    <3> QED
      BY <2>4, <3>1
  <2>6. SumsUpTo(w, g, rows, n + 1)
    BY <2>5 DEF SumsUpTo
  <2> HIDE DEF g
  <2> QED
    BY <2>6
<1> HIDE DEF T
<1>3. \E f : AreSums(w, f, rows)
  <2>1. Cardinality(rows) \in Nat
    BY FS_CardinalityType
  <2>2. Cardinality(rows) \in T
    BY <1>1, <1>2, <2>1, InductiveSet
  <2>3. PICK f : SumsUpTo(w, f, rows, Cardinality(rows))
    BY <2>2 DEF T
  <2>4. {s \in SUBSET rows : Cardinality(s) <= Cardinality(rows)} = SUBSET rows
    BY FS_Subset
  <2> QED
    BY <2>3, <2>4 DEF SumsUpTo, AreSums
<1> QED
  BY <1>3

\* The sums of two sets agree on the subsets that they share.
LEMMA SumsAgree ==
  ASSUME NEW w, NEW rows, IsFiniteSet(rows), NEW f, AreSums(w, f, rows),
         NEW part \in SUBSET rows, NEW g, AreSums(w, g, part)
  PROVE  \A s \in SUBSET part : g[s] = f[s]
<1> DEFINE T == {n \in Nat : \A s \in SUBSET part : Cardinality(s) <= n => g[s] = f[s]}
<1>1. \A s \in SUBSET part : g[s] = SumStep(w, g, s) /\ f[s] = SumStep(w, f, s)
  BY DEF AreSums
<1>2. \A s \in SUBSET part : s # {} =>
        /\ Pick(s) \in s /\ s \ {Pick(s)} \in SUBSET part
        /\ Cardinality(s) \in Nat \ {0} /\ Cardinality(s \ {Pick(s)}) = Cardinality(s) - 1
  <2> SUFFICES ASSUME NEW s \in SUBSET part, s # {}
               PROVE  /\ Pick(s) \in s /\ s \ {Pick(s)} \in SUBSET part
                      /\ Cardinality(s) \in Nat \ {0}
                      /\ Cardinality(s \ {Pick(s)}) = Cardinality(s) - 1
    OBVIOUS
  <2>1. Pick(s) \in s /\ IsFiniteSet(part)
    BY FS_Subset DEF Pick
  <2> QED
    BY <2>1, SmallerSubset
<1>3. 0 \in T
  <2>1. ASSUME NEW s \in SUBSET part, Cardinality(s) <= 0 PROVE g[s] = f[s]
    <3>1. CASE s # {}
      <4>1. Cardinality(s) \in Nat \ {0}
        BY <1>2, <3>1
      <4> QED
        BY <2>1, <4>1
    <3> QED
      BY <1>1, <3>1 DEF SumStep
  <2> QED
    BY <2>1
<1>4. ASSUME NEW n \in Nat, n \in T PROVE n + 1 \in T
  <2>1. ASSUME NEW s \in SUBSET part, Cardinality(s) <= n + 1 PROVE g[s] = f[s]
    <3>1. CASE s = {}
      BY <1>1, <3>1 DEF SumStep
    <3>2. CASE s # {}
      <4>1. Cardinality(s \ {Pick(s)}) <= n /\ s \ {Pick(s)} \in SUBSET part
        BY <1>2, <2>1, <3>2
      <4>2. g[s \ {Pick(s)}] = f[s \ {Pick(s)}]
        BY <1>4, <4>1
      <4> QED
        BY <1>1, <4>2, <3>2 DEF SumStep
    <3> QED
      BY <3>1, <3>2
  <2> QED
    BY <2>1
<1>5. Nat \subseteq T
  <2> HIDE DEF T
  <2> QED
    BY <1>3, <1>4, InductiveSet
<1>6. ASSUME NEW s \in SUBSET part PROVE g[s] = f[s]
  <2>1. IsFiniteSet(s)
    BY FS_Subset
  <2>2. Cardinality(s) \in Nat
    BY <2>1, FS_CardinalityType
  <2> QED
    BY <1>5, <2>2
<1> QED
  BY <1>6

\* Any member may be taken out of a sum first.
LEMMA SumsSplit ==
  ASSUME NEW w, NEW rows, IsFiniteSet(rows), \A p \in rows : w[p] \in Int,
         NEW f, AreSums(w, f, rows)
  PROVE  \A s \in SUBSET rows :
           f[s] \in Int /\ \A p \in s : f[s] = w[p] + f[s \ {p}]
<1> DEFINE Splits(s) ==
             f[s] \in Int /\ \A p \in s : f[s] = w[p] + f[s \ {p}]
           T == {n \in Nat : \A s \in SUBSET rows : Cardinality(s) <= n => Splits(s)}
<1>1. \A s \in SUBSET rows : f[s] = SumStep(w, f, s)
  BY DEF AreSums
<1>2. Splits({})
  <2>1. f[{}] = SumStep(w, f, {})
    BY <1>1
  <2> QED
    BY <2>1 DEF SumStep
<1>3. 0 \in T
  <2>1. ASSUME NEW s \in SUBSET rows, Cardinality(s) <= 0 PROVE s = {}
    <3>1. SUFFICES ASSUME NEW p \in s PROVE FALSE
      OBVIOUS
    <3>2. Cardinality(s) \in Nat \ {0}
      BY SmallerSubset
    <3> QED
      BY <2>1, <3>2
  <2> HIDE DEF Splits
  <2> QED
    BY <1>2, <2>1
<1>4. ASSUME NEW n \in Nat, n \in T PROVE n + 1 \in T
  <2>1. ASSUME NEW s \in SUBSET rows, Cardinality(s) <= n + 1, s # {} PROVE Splits(s)
    <3> DEFINE c == Pick(s)
    <3>1. c \in s
      BY <2>1 DEF Pick
    <3> HIDE DEF c
    <3>2. ASSUME NEW t \in SUBSET rows, NEW p \in t, Cardinality(t) <= n + 1
          PROVE  t \ {p} \in SUBSET rows /\ Splits(t \ {p})
                 /\ Cardinality(t \ {p}) <= n
      <4>1. t \ {p} \in SUBSET rows /\ Cardinality(t \ {p}) <= n
        BY <3>2, SmallerSubset
      <4> HIDE DEF Splits
      <4> QED
        BY <1>4, <4>1
    <3>3. f[s] = w[c] + f[s \ {c}]
      BY <1>1, <2>1 DEF SumStep, c
    <3>4. f[s \ {c}] \in Int /\ w[c] \in Int
      BY <2>1, <3>1, <3>2
    <3>5. ASSUME NEW p \in s, p # c PROVE f[s] = w[p] + f[s \ {p}]
      <4>1. f[s \ {c}] = w[p] + f[(s \ {c}) \ {p}]
        <5>1. p \in s \ {c} /\ Splits(s \ {c})
          BY <2>1, <3>1, <3>2, <3>5
        <5> QED
          BY <5>1
      <4>2. f[s \ {p}] = w[c] + f[(s \ {p}) \ {c}]
        <5>1. c \in s \ {p} /\ Splits(s \ {p})
          BY <2>1, <3>1, <3>2, <3>5
        <5> QED
          BY <5>1
      <4>3. (s \ {p}) \ {c} = (s \ {c}) \ {p}
        OBVIOUS
      <4>4. (s \ {c}) \ {p} \in SUBSET rows /\ f[(s \ {c}) \ {p}] \in Int
        <5>1. p \in s \ {c} /\ s \ {c} \in SUBSET rows /\ Cardinality(s \ {c}) <= n + 1
          BY <2>1, <3>1, <3>2, <3>5, FS_CardinalityType, FS_Subset
        <5>2. Splits((s \ {c}) \ {p})
          BY <5>1, <3>2
        <5> QED
          BY <5>2
      <4>5. w[p] \in Int
        OBVIOUS
      <4> DEFINE rest == f[(s \ {c}) \ {p}]
      <4>6. rest \in Int /\ f[s \ {p}] = w[c] + rest
        BY <4>2, <4>3, <4>4
      <4>7. f[s] = w[c] + (w[p] + rest)
        BY <3>3, <4>1
      <4> HIDE DEF rest
      <4> QED
        BY <3>4, <4>5, <4>6, <4>7
    <3>6. f[s] \in Int
      BY <3>3, <3>4
    <3>7. \A p \in s : f[s] = w[p] + f[s \ {p}]
      BY <3>3, <3>5
    <3> QED
      BY <3>6, <3>7
  <2> HIDE DEF Splits
  <2> QED
    BY <1>2, <2>1
<1>5. Nat \subseteq T
  <2> HIDE DEF T
  <2> QED
    BY <1>3, <1>4, InductiveSet
<1>6. ASSUME NEW s \in SUBSET rows PROVE Splits(s)
  <2>1. IsFiniteSet(s)
    BY FS_Subset
  <2>2. Cardinality(s) \in Nat
    BY <2>1, FS_CardinalityType
  <2> HIDE DEF Splits
  <2> QED
    BY <1>5, <2>2
<1> QED
  BY <1>6

\* The sum of no weights is 0.
LEMMA TotalNone ==
  ASSUME NEW w
  PROVE  Total(w, {}) = 0
<1>1. IsFiniteSet({})
  BY FS_EmptySet
<1> DEFINE f == CHOOSE sums : AreSums(w, sums, {})
<1>2. AreSums(w, f, {})
  BY <1>1, SumsDefined
<1> HIDE DEF f
<1>3. f[{}] = 0
  BY <1>2 DEF AreSums, SumStep
<1> QED
  BY <1>3 DEF Total, f

\* The sum of integers is an integer.
LEMMA TotalInteger ==
  ASSUME NEW w, NEW rows, IsFiniteSet(rows), \A p \in rows : w[p] \in Int
  PROVE  Total(w, rows) \in Int
<1> DEFINE f == CHOOSE sums : AreSums(w, sums, rows)
<1>1. AreSums(w, f, rows)
  BY SumsDefined
<1> HIDE DEF f
<1>2. f[rows] \in Int
  BY <1>1, SumsSplit
<1> QED
  BY <1>2 DEF Total, f

\* Weights that are all 0 add up to 0.
LEMMA TotalZero ==
  ASSUME NEW w, NEW rows, IsFiniteSet(rows), \A p \in rows : w[p] = 0
  PROVE  Total(w, rows) = 0
<1> DEFINE f == CHOOSE sums : AreSums(w, sums, rows)
           g == [s \in SUBSET rows |-> 0]
<1>1. AreSums(w, f, rows)
  BY SumsDefined
<1>2. AreSums(w, g, rows)
  <2>1. ASSUME NEW s \in SUBSET rows PROVE SumStep(w, g, s) = 0
    <3>1. s # {} => Pick(s) \in rows /\ s \ {Pick(s)} \in SUBSET rows
      BY DEF Pick
    <3> QED
      BY <3>1 DEF SumStep
  <2>2. g = [s \in SUBSET rows |-> SumStep(w, g, s)]
    BY <2>1
  <2> QED
    BY <2>2 DEF AreSums
<1>3. g[rows] = 0
  OBVIOUS
<1> HIDE DEF f, g
<1>4. \A s \in SUBSET rows : g[s] = f[s]
  BY <1>1, <1>2, SumsAgree
<1> QED
  BY <1>3, <1>4 DEF Total, f

\* Another member adds its weight.
LEMMA TotalMore ==
  ASSUME NEW w, NEW rows, IsFiniteSet(rows), \A q \in rows : w[q] \in Int,
         NEW p, p \notin rows, w[p] \in Int
  PROVE  Total(w, rows \cup {p}) = Total(w, rows) + w[p]
<1> DEFINE more == rows \cup {p}
           f == CHOOSE sums : AreSums(w, sums, more)
           g == CHOOSE sums : AreSums(w, sums, rows)
<1>1. IsFiniteSet(more) /\ rows \in SUBSET more /\ more \ {p} = rows /\ p \in more
      /\ \A q \in more : w[q] \in Int
  BY FS_AddElement
<1> HIDE DEF more
<1>2. AreSums(w, f, more) /\ AreSums(w, g, rows)
  BY <1>1, SumsDefined
<1>3. Total(w, more) = f[more] /\ Total(w, rows) = g[rows]
  BY DEF Total
<1> HIDE DEF f, g
<1>4. g[rows] = f[rows]
  <2>1. IsFiniteSet(more) /\ rows \in SUBSET more
    BY <1>1
  <2>2. AreSums(w, f, more) /\ AreSums(w, g, rows)
    BY <1>2
  <2>3. \A part \in SUBSET more :
          AreSums(w, g, part) => \A s \in SUBSET part : g[s] = f[s]
    BY <2>1, <2>2, SumsAgree
  <2> QED
    BY <2>1, <2>2, <2>3
<1>5. f[more] = w[p] + f[rows] /\ f[rows] \in Int
  BY <1>1, <1>2, SumsSplit
<1>6. f[more] = f[rows] + w[p]
  BY <1>5
<1> QED
  BY <1>3, <1>4, <1>6 DEF more

\* Induction over a finite set: a collection that has the empty set, and with a set
\* the set with one more member, has the whole set.
LEMMA InductiveSubsets ==
  ASSUME NEW rows, IsFiniteSet(rows), NEW C, {} \in C,
         \A s \in SUBSET rows, p \in rows : s \in C /\ p \notin s => s \cup {p} \in C
  PROVE  rows \in C
<1> DEFINE T == {n \in Nat : \A s \in SUBSET rows : Cardinality(s) <= n => s \in C}
<1>1. 0 \in T
  <2>1. ASSUME NEW s \in SUBSET rows, Cardinality(s) <= 0 PROVE s = {}
    <3>1. SUFFICES ASSUME NEW p \in s PROVE FALSE
      OBVIOUS
    <3>2. Cardinality(s) \in Nat \ {0}
      BY SmallerSubset
    <3> QED
      BY <2>1, <3>2
  <2> QED
    BY <2>1
<1>2. ASSUME NEW n \in Nat, n \in T PROVE n + 1 \in T
  <2>1. ASSUME NEW s \in SUBSET rows, Cardinality(s) <= n + 1, s # {} PROVE s \in C
    <3>1. PICK p : p \in s
      BY <2>1
    <3>2. s \ {p} \in SUBSET rows /\ Cardinality(s \ {p}) <= n
      BY <2>1, <3>1, SmallerSubset
    <3>3. s \ {p} \in C /\ (s \ {p}) \cup {p} = s
      BY <1>2, <3>1, <3>2
    <3>4. p \in rows /\ p \notin s \ {p}
      BY <3>1
    <3>5. (s \ {p}) \cup {p} \in C
      BY <3>2, <3>3, <3>4
    <3> QED
      BY <3>3, <3>5
  <2>2. \A s \in SUBSET rows : Cardinality(s) <= n + 1 => s \in C
    BY <2>1
  <2> QED
    BY <2>2
<1> HIDE DEF T
<1>3. Cardinality(rows) \in T
  BY <1>1, <1>2, InductiveSet, FS_CardinalityType
<1> QED
  BY <1>3, FS_CardinalityType DEF T

\* The sum of natural weights is a natural number, and no smaller than any of them.
LEMMA TotalNatural ==
  ASSUME NEW w, NEW rows, IsFiniteSet(rows), \A p \in rows : w[p] \in Nat
  PROVE  Total(w, rows) \in Nat /\ \A p \in rows : w[p] <= Total(w, rows)
<1> DEFINE C == {s \in SUBSET rows : Total(w, s) \in Nat}
<1>1. \A s \in SUBSET rows : IsFiniteSet(s)
  BY FS_Subset
<1>2. {} \in C
  BY TotalNone
<1>3. ASSUME NEW s \in SUBSET rows, NEW p \in rows, s \in C, p \notin s
      PROVE  s \cup {p} \in C
  <2>1. Total(w, s \cup {p}) = Total(w, s) + w[p]
    BY <1>1, <1>3, TotalMore
  <2> QED
    BY <1>3, <2>1
<1> HIDE DEF C
<1>4. \A part \in SUBSET rows : part \in C
  <2> SUFFICES ASSUME NEW part \in SUBSET rows PROVE part \in C
    OBVIOUS
  <2>1. \A s \in SUBSET part, p \in part : s \in C /\ p \notin s => s \cup {p} \in C
    BY <1>3
  <2> QED
    BY <1>1, <1>2, <2>1, InductiveSubsets
<1>5. ASSUME NEW p \in rows PROVE w[p] <= Total(w, rows)
  <2> DEFINE rest == rows \ {p}
  <2>1. rest \in SUBSET rows /\ rest \cup {p} = rows /\ p \notin rest
    OBVIOUS
  <2> HIDE DEF rest
  <2>2. Total(w, rest) \in Nat
    BY <1>4, <2>1 DEF C
  <2>3. Total(w, rest \cup {p}) = Total(w, rest) + w[p]
    BY <1>1, <2>1, TotalMore
  <2>4. Total(w, rows) = Total(w, rest) + w[p]
    BY <2>1, <2>3
  <2>5. w[p] \in Nat
    OBVIOUS
  <2> QED
    BY <2>2, <2>4, <2>5
<1> QED
  BY <1>4, <1>5 DEF C

\* Sums depend on the weights of their members only.
LEMMA TotalSame ==
  ASSUME NEW w, NEW v, NEW rows, IsFiniteSet(rows), \A p \in rows : v[p] = w[p]
  PROVE  Total(v, rows) = Total(w, rows)
<1> DEFINE f == CHOOSE sums : AreSums(w, sums, rows)
           g == CHOOSE sums : AreSums(v, sums, rows)
<1>1. AreSums(w, f, rows) /\ AreSums(v, g, rows)
  BY SumsDefined
<1> HIDE DEF f, g
<1>2. AreSums(w, g, rows)
  <2>1. ASSUME NEW s \in SUBSET rows PROVE SumStep(v, g, s) = SumStep(w, g, s)
    <3>1. s # {} => Pick(s) \in rows
      BY DEF Pick
    <3> QED
      BY <3>1 DEF SumStep
  <2>2. [s \in SUBSET rows |-> SumStep(v, g, s)] = [s \in SUBSET rows |-> SumStep(w, g, s)]
    BY <2>1
  <2> QED
    BY <1>1, <2>2 DEF AreSums
<1>3. f[rows] = g[rows]
  BY <1>1, <1>2, SumsAgree
<1> QED
  BY <1>3 DEF Total, f, g

\* The sum over two sets that have no member in common.
LEMMA TotalApart ==
  ASSUME NEW w, NEW rows, IsFiniteSet(rows), NEW others, IsFiniteSet(others),
         rows \cap others = {}, \A p \in rows \cup others : w[p] \in Int
  PROVE  Total(w, rows \cup others) = Total(w, rows) + Total(w, others)
<1> DEFINE C == {s \in SUBSET others : Total(w, rows \cup s) = Total(w, rows) + Total(w, s)}
<1>1. \A s \in SUBSET others : IsFiniteSet(s) /\ IsFiniteSet(rows \cup s)
  BY FS_Subset, FS_Union
<1>2. Total(w, rows) \in Int /\ \A s \in SUBSET others : Total(w, s) \in Int
  BY <1>1, TotalInteger
<1>3. {} \in C
  <2>1. rows \cup {} = rows
    OBVIOUS
  <2> QED
    BY <1>2, <2>1, TotalNone
<1>4. ASSUME NEW s \in SUBSET others, NEW p \in others, s \in C, p \notin s
      PROVE  s \cup {p} \in C
  <2>1. Total(w, s \cup {p}) = Total(w, s) + w[p]
    BY <1>1, <1>4, TotalMore
  <2>2. p \notin rows \cup s /\ \A q \in rows \cup s : w[q] \in Int
    BY <1>4
  <2>3. Total(w, (rows \cup s) \cup {p}) = Total(w, rows \cup s) + w[p]
    BY <1>1, <2>2, TotalMore
  <2>4. (rows \cup s) \cup {p} = rows \cup (s \cup {p})
    OBVIOUS
  <2>5. Total(w, rows \cup s) = Total(w, rows) + Total(w, s)
    BY <1>4
  <2>6. Total(w, rows \cup (s \cup {p})) = Total(w, rows) + Total(w, s \cup {p})
    <3> DEFINE a == Total(w, rows)
               b == Total(w, s)
    <3>1. a \in Int /\ b \in Int /\ w[p] \in Int
      BY <1>2
    <3>2. Total(w, rows \cup (s \cup {p})) = (a + b) + w[p]
      BY <2>3, <2>4, <2>5
    <3>3. Total(w, s \cup {p}) = b + w[p]
      BY <2>1
    <3> HIDE DEF a, b
    <3>4. (a + b) + w[p] = a + (b + w[p])
      BY <3>1
    <3> QED
      BY <3>2, <3>3, <3>4 DEF a
  <2> QED
    BY <2>6
<1> HIDE DEF C
<1>5. others \in C
  BY <1>3, <1>4, InductiveSubsets
<1> QED
  BY <1>5 DEF C

\* The sum of the opposite weights is the opposite sum.
LEMMA TotalOpposite ==
  ASSUME NEW w, NEW v, NEW rows, IsFiniteSet(rows),
         \A p \in rows : w[p] \in Int /\ v[p] = -w[p]
  PROVE  Total(v, rows) = -Total(w, rows)
<1> DEFINE C == {s \in SUBSET rows : Total(v, s) = -Total(w, s)}
<1>1. \A s \in SUBSET rows : IsFiniteSet(s)
  BY FS_Subset
<1>2. {} \in C
  BY TotalNone
<1>3. ASSUME NEW s \in SUBSET rows, NEW p \in rows, s \in C, p \notin s
      PROVE  s \cup {p} \in C
  <2>1. /\ Total(w, s \cup {p}) = Total(w, s) + w[p]
        /\ Total(v, s \cup {p}) = Total(v, s) + v[p]
        /\ Total(w, s) \in Int
    BY <1>1, <1>3, TotalMore, TotalInteger
  <2>2. Total(v, s) = -Total(w, s) /\ w[p] \in Int /\ v[p] = -w[p]
    BY <1>3
  <2> QED
    BY <2>1, <2>2
<1> HIDE DEF C
<1>4. rows \in C
  BY <1>2, <1>3, InductiveSubsets
<1> QED
  BY <1>4 DEF C

-----------------------------------------------------------------------------
(* Powers *)

IsPower(f, base, n) == f = [k \in 0 .. n |-> IF k = 0 THEN 1 ELSE base * f[k - 1]]

\* Powers are what their recursive equation says.
LEMMA PowerDefined ==
  ASSUME NEW base \in Nat, NEW n \in Nat
  PROVE  \E f : IsPower(f, base, n) /\ Power(base, n) = f[n]
<1> DEFINE T == {m \in Nat : \E f : IsPower(f, base, m)}
<1>1. 0 \in T
  <2> DEFINE f == [k \in 0 .. 0 |-> 1]
  <2>1. IsPower(f, base, 0)
    BY DEF IsPower
  <2> QED
    BY <2>1
<1>2. ASSUME NEW m \in Nat, m \in T PROVE m + 1 \in T
  <2>1. PICK f : IsPower(f, base, m)
    BY <1>2
  <2> DEFINE g == [k \in 0 .. m + 1 |-> IF k = 0 THEN 1 ELSE base * f[k - 1]]
  <2>2. \A k \in 0 .. m : g[k] = f[k]
    BY <2>1 DEF IsPower
  <2>3. g = [k \in 0 .. m + 1 |-> IF k = 0 THEN 1 ELSE base * g[k - 1]]
    <3>1. \A k \in 0 .. m + 1 : k # 0 => k - 1 \in 0 .. m
      OBVIOUS
    <3> QED
      BY <2>2, <3>1
  <2>4. IsPower(g, base, m + 1)
    BY <2>3 DEF IsPower
  <2> HIDE DEF g
  <2> QED
    BY <2>4
<1>3. n \in T
  <2> HIDE DEF T
  <2> QED
    BY <1>1, <1>2, InductiveSet
<1> DEFINE power == CHOOSE f : f = [k \in 0 .. n |-> IF k = 0 THEN 1 ELSE base * f[k - 1]]
<1>4. power = CHOOSE f : IsPower(f, base, n)
  BY DEF IsPower
<1>5. Power(base, n) = power[n]
  BY DEF Power
<1> HIDE DEF power
<1>6. IsPower(power, base, n)
  BY <1>3, <1>4
<1> QED
  BY <1>5, <1>6

\* A power of a positive number is positive, and that of a larger one larger.
LEMMA PowerGrows ==
  ASSUME NEW a \in Nat \ {0}, NEW b \in Nat \ {0}, a < b, NEW n \in Nat \ {0}
  PROVE  Power(a, n) \in Nat \ {0} /\ Power(b, n) \in Nat \ {0} /\ Power(a, n) < Power(b, n)
<1>1. PICK f : IsPower(f, a, n) /\ Power(a, n) = f[n]
  BY PowerDefined
<1>2. PICK g : IsPower(g, b, n) /\ Power(b, n) = g[n]
  BY PowerDefined
<1> DEFINE T == {k \in 0 .. n : /\ f[k] \in Nat \ {0} /\ g[k] \in Nat \ {0}
                                /\ f[k] <= g[k] /\ (k # 0 => f[k] < g[k])}
<1>3. 0 \in T
  BY <1>1, <1>2 DEF IsPower
<1>4. ASSUME NEW k \in 0 .. n - 1, k \in T PROVE k + 1 \in T
  <2>1. k + 1 \in 0 .. n /\ k + 1 # 0 /\ (k + 1) - 1 = k
    OBVIOUS
  <2>2. f[k + 1] = a * f[k] /\ g[k + 1] = b * g[k]
    BY <1>1, <1>2, <2>1 DEF IsPower
  <2>3. ASSUME NEW x \in Nat \ {0}, NEW y \in Nat \ {0}, x <= y
        PROVE  a * x \in Nat \ {0} /\ b * y \in Nat \ {0} /\ a * x < b * y
    <3>1. a * x < b * x
      BY <2>3
    <3>2. b * x <= b * y
      BY <2>3
    <3> QED
      BY <2>3, <3>1, <3>2
  <2> QED
    BY <1>4, <2>1, <2>2, <2>3
<1>5. n \in T
  <2> HIDE DEF T
  <2> QED
    BY <1>3, <1>4, InductionTo
<1> QED
  BY <1>1, <1>2, <1>5

-----------------------------------------------------------------------------
(* Rounding *)

\* What rounding down loses is less than the divisor.
LEMMA DivisionBounds ==
  ASSUME NEW a \in Nat, NEW b \in Nat \ {0}
  PROVE  /\ a \div b \in Nat /\ b * (a \div b) <= a /\ a < b * ((a \div b) + 1)
OBVIOUS

\* A factor that is positive can be taken off both sides.
LEMMA FactorOff ==
  ASSUME NEW x \in Int, NEW y \in Int, NEW z \in Nat \ {0}
  PROVE  /\ x * z <= y * z => x <= y
         /\ x * z < y * z => x < y
OBVIOUS

\* The share of the interest in a payment, rounded to nearest, is within the payment.
LEMMA ShareWithin ==
  ASSUME NEW amount \in Nat, NEW interest \in Nat, NEW payment \in Nat \ {0},
         interest <= payment
  PROVE  (amount * interest + payment \div 2) \div payment \in 0 .. amount
<1> DEFINE half == payment \div 2
           top == amount * interest + half
<1>1. half \in Nat /\ half < payment
  OBVIOUS
<1>2. amount * interest \in Nat /\ amount * interest <= amount * payment
  OBVIOUS
<1> HIDE DEF half
<1>3. top \in Nat /\ top < amount * payment + payment
  BY <1>1, <1>2
<1> HIDE DEF top
<1> DEFINE q == top \div payment
<1>4. q \in Nat /\ payment * q <= top
  BY <1>3, DivisionBounds
<1> HIDE DEF q
<1>5. q * payment < (amount + 1) * payment
  <2>1. (amount + 1) * payment = amount * payment + payment
    OBVIOUS
  <2>2. q * payment <= top /\ q * payment \in Nat /\ amount * payment \in Nat
    BY <1>4
  <2> QED
    BY <1>3, <2>1, <2>2
<1>6. q < amount + 1
  BY <1>4, <1>5, FactorOff
<1> QED
  BY <1>4, <1>6 DEF q, top, half

\* Rounding up gives the least number that is enough.
LEMMA CeilDivLeast ==
  ASSUME NEW a \in Nat, NEW b \in Nat \ {0}
  PROVE  /\ CeilDiv(a, b) \in Nat /\ a <= CeilDiv(a, b) * b
         /\ \A c \in Nat : a <= c * b => CeilDiv(a, b) <= c
<1> DEFINE q == (a + b - 1) \div b
<1>1. q \in Nat /\ b * q <= a + b - 1 /\ a + b - 1 < b * (q + 1)
  BY DivisionBounds
<1> HIDE DEF q
<1>2. b * (q + 1) = q * b + b
  BY <1>1
<1>3. a <= q * b
  BY <1>1, <1>2
<1>4. ASSUME NEW c \in Nat, a <= c * b PROVE q <= c
  <2>1. q * b < (c + 1) * b
    <3>1. (c + 1) * b = c * b + b
      OBVIOUS
    <3>2. q * b = b * q /\ c * b \in Nat /\ q * b \in Nat
      BY <1>1
    <3> QED
      BY <1>1, <1>4, <3>1, <3>2
  <2>2. q < c + 1
    BY <1>1, <2>1, FactorOff
  <2> QED
    BY <1>1, <2>2
<1> QED
  BY <1>1, <1>3, <1>4 DEF q, CeilDiv

-----------------------------------------------------------------------------
(* The payment *)

\* The fixed payment of a loan is a natural number, and rounding it up is enough
\* for it to cover the interest of any balance up to the principal, rounded up too.
LEMMA PaymentCoversInterest ==
  ASSUME NEW loan \in LoanType
  PROVE  /\ PeriodicPayment(loan) \in Nat
         /\ loan.rate # 0 => \A r \in 0 .. loan.principal_minor :
              CeilDiv(r * loan.rate, RateDen) <= PeriodicPayment(loan)
<1> DEFINE P == loan.principal_minor
           rate == loan.rate
           n == loan.num_periods
<1>1. P \in Nat \ {0} /\ rate \in Nat /\ n \in Nat \ {0} /\ RateDen \in Nat \ {0}
  BY RateAssumption DEF LoanType
<1>2. CASE rate = 0
  <2>1. PeriodicPayment(loan) = CeilDiv(P, n)
    BY <1>2 DEF PeriodicPayment
  <2> QED
    BY <1>1, <1>2, <2>1, CeilDivLeast
<1>3. CASE rate # 0
  <2> DEFINE grown == Power(RateDen + rate, n)
             even == Power(RateDen, n)
             gain == grown - even
             payment == PeriodicPayment(loan)
  <2>1. payment = CeilDiv(P * rate * grown, RateDen * gain)
    BY <1>3 DEF PeriodicPayment
  <2>2. grown \in Nat \ {0} /\ even \in Nat \ {0} /\ even < grown
    <3>1. RateDen + rate \in Nat \ {0} /\ RateDen < RateDen + rate
      BY <1>1, <1>3
    <3> HIDE DEF n, rate
    <3> QED
      BY <1>1, <3>1, PowerGrows
  <2> HIDE DEF grown, even, payment, P, rate, n
  <2>3. gain \in Nat \ {0} /\ gain < grown
    BY <2>2
  <2> HIDE DEF gain
  <2>4. RateDen * gain \in Nat \ {0} /\ P * rate * grown \in Nat
    BY <1>1, <2>2, <2>3
  <2>5. payment \in Nat /\ P * rate * grown <= payment * (RateDen * gain)
    BY <2>1, <2>4, CeilDivLeast
  <2>6. ASSUME NEW r \in 0 .. P PROVE CeilDiv(r * rate, RateDen) <= payment
    <3>1. r \in Nat /\ r <= P /\ r * rate \in Nat
      BY <1>1
    <3>2. r * rate <= P * rate
      BY <1>1, <3>1
    <3>3. (r * rate) * gain <= (P * rate) * grown
      <4>1. ASSUME NEW x \in Nat, NEW y \in Nat, x <= y PROVE x * gain <= y * grown
        <5>1. x * gain <= y * gain
          BY <2>3, <4>1
        <5>2. y * gain <= y * grown
          BY <2>2, <2>3
        <5> QED
          BY <2>2, <2>3, <5>1, <5>2
      <4> QED
        BY <1>1, <3>1, <3>2, <4>1
    <3>4. payment * (RateDen * gain) = (payment * RateDen) * gain
      BY <1>1, <2>3, <2>5
    <3>5. (r * rate) * gain <= (payment * RateDen) * gain
      BY <2>4, <2>5, <3>1, <3>3, <3>4, <2>3, <1>1
    <3>6. r * rate <= payment * RateDen
      BY <1>1, <2>3, <2>5, <3>1, <3>5, FactorOff
    <3> QED
      BY <1>1, <2>5, <3>1, <3>6, CeilDivLeast
  <2> QED
    BY <2>5, <2>6 DEF P, rate, payment
<1> QED
  BY <1>2, <1>3

-----------------------------------------------------------------------------
(* The rows *)

\* No portion of a row is negative, the principal is not more than remains, and the
\* last row repays all of it.
LEMMA RowPortions ==
  ASSUME NEW loan \in LoanType, NEW i \in Nat, NEW r \in 0 .. loan.principal_minor
  PROVE  /\ Interest(loan, i, r) \in Nat
         /\ PrincipalPortion(loan, i, r) \in 0 .. r
         /\ IsLast(loan, i) => PrincipalPortion(loan, i, r) = r
<1> DEFINE payment == PeriodicPayment(loan)
           interest == Interest(loan, i, r)
<1>1. /\ payment \in Nat
      /\ loan.rate # 0 => CeilDiv(r * loan.rate, RateDen) <= payment
  BY PaymentCoversInterest
<1>2. loan.rate \in Nat /\ loan.principal_minor \in Nat /\ RateDen \in Nat \ {0}
  BY RateAssumption DEF LoanType
<1>3. CeilDiv(r * loan.rate, RateDen) \in Nat
  <2>1. r * loan.rate \in Nat
    BY <1>2
  <2> QED
    BY <1>2, <2>1, CeilDivLeast
<1> HIDE DEF payment
<1>4. interest \in Nat /\ (~IsLast(loan, i) => interest <= payment)
  BY <1>1, <1>2, <1>3 DEF Interest, payment
<1> HIDE DEF interest
<1>5. PrincipalPortion(loan, i, r) =
        IF r <= 0 THEN 0
        ELSE LET portion == IF IsLast(loan, i) THEN r ELSE payment - interest
             IN  IF portion > r THEN r ELSE portion
  BY DEF PrincipalPortion, payment, interest
<1>6. r \in Nat
  BY <1>2
<1> QED
  BY <1>1, <1>4, <1>5, <1>6 DEF interest

\* A row of a schedule, with the balance it leaves.
SoundRow(loan, row) ==
  /\ row.interest_minor \in Nat /\ row.principal_minor \in Nat
  /\ row.payment_minor = row.principal_minor + row.interest_minor
  /\ row.remaining_minor \in 0 .. loan.principal_minor

\* A row computed from a remaining balance within the principal is sound.
LEMMA ScheduleRowSound ==
  ASSUME NEW loan \in LoanType, NEW i \in Nat, NEW r \in 0 .. loan.principal_minor
  PROVE  SoundRow(loan, ScheduleRow(loan, i, r))
<1> DEFINE principal == PrincipalPortion(loan, i, r)
           interest == Interest(loan, i, r)
<1>1. ScheduleRow(loan, i, r) =
        [payment_minor |-> principal + interest, principal_minor |-> principal,
         interest_minor |-> interest, remaining_minor |-> r - principal]
  BY DEF ScheduleRow
<1>2. principal \in 0 .. r /\ interest \in Nat
  BY RowPortions
<1>3. loan.principal_minor \in Nat
  BY DEF LoanType
<1> HIDE DEF principal, interest
<1>4. principal \in Nat /\ r - principal \in 0 .. loan.principal_minor
  BY <1>2, <1>3
<1> QED
  BY <1>1, <1>2, <1>4 DEF SoundRow

\* The rows up to n, with the row 0 that stands for the start of the loan.
FirstRow(loan) ==
  [payment_minor |-> 0, principal_minor |-> 0, interest_minor |-> 0,
   remaining_minor |-> loan.principal_minor]
AreRows(f, loan, n) ==
  f = [i \in 0 .. n |-> IF i = 0 THEN FirstRow(loan)
                        ELSE ScheduleRow(loan, i, f[i - 1].remaining_minor)]

\* The rows of a schedule are what their recursive equation says.
LEMMA RowsDefined ==
  ASSUME NEW loan \in LoanType
  PROVE  \E f : /\ AreRows(f, loan, loan.num_periods)
                /\ GenerateSchedule(loan) = [i \in 1 .. loan.num_periods |-> f[i]]
<1> DEFINE T == {m \in Nat : \E f : AreRows(f, loan, m)}
           n == loan.num_periods
<1>1. 0 \in T
  <2> DEFINE f == [i \in 0 .. 0 |-> FirstRow(loan)]
  <2>1. AreRows(f, loan, 0)
    BY DEF AreRows
  <2> QED
    BY <2>1
<1>2. ASSUME NEW m \in Nat, m \in T PROVE m + 1 \in T
  <2>1. PICK f : AreRows(f, loan, m)
    BY <1>2
  <2> DEFINE g == [i \in 0 .. m + 1 |-> IF i = 0 THEN FirstRow(loan)
                                        ELSE ScheduleRow(loan, i, f[i - 1].remaining_minor)]
  <2>2. \A i \in 0 .. m : g[i] = f[i]
    BY <2>1 DEF AreRows
  <2>3. g = [i \in 0 .. m + 1 |-> IF i = 0 THEN FirstRow(loan)
                                  ELSE ScheduleRow(loan, i, g[i - 1].remaining_minor)]
    <3>1. \A i \in 0 .. m + 1 : i # 0 => i - 1 \in 0 .. m
      OBVIOUS
    <3>2. \A i \in 0 .. m + 1 : i # 0 => g[i - 1] = f[i - 1]
      BY <2>2, <3>1
    <3> QED
      BY <3>2
  <2>4. AreRows(g, loan, m + 1)
    BY <2>3 DEF AreRows
  <2> HIDE DEF g
  <2> QED
    BY <2>4
<1>3. n \in T
  <2>1. n \in Nat
    BY DEF LoanType
  <2> HIDE DEF T, n
  <2> QED
    BY <1>1, <1>2, <2>1, InductiveSet
<1> DEFINE row == CHOOSE f : f = [i \in 0 .. n |->
                    IF i = 0
                      THEN [payment_minor |-> 0, principal_minor |-> 0,
                            interest_minor |-> 0, remaining_minor |-> loan.principal_minor]
                      ELSE ScheduleRow(loan, i, f[i - 1].remaining_minor)]
<1>4. row = CHOOSE f : AreRows(f, loan, n)
  BY DEF AreRows, FirstRow
<1>5. GenerateSchedule(loan) = [i \in 1 .. n |-> row[i]]
  BY DEF GenerateSchedule
<1> HIDE DEF row
<1>6. AreRows(row, loan, n)
  BY <1>3, <1>4
<1> QED
  BY <1>5, <1>6

\* Every row of every schedule is sound: by induction along the rows.
LEMMA ScheduleSound ==
  ASSUME NEW loan \in LoanType, NEW i \in 1 .. loan.num_periods
  PROVE  SoundRow(loan, GenerateSchedule(loan)[i])
<1> DEFINE n == loan.num_periods
<1>1. PICK f : /\ AreRows(f, loan, n)
               /\ GenerateSchedule(loan) = [j \in 1 .. n |-> f[j]]
  BY RowsDefined
<1>2. n \in Nat /\ loan.principal_minor \in Nat
  BY DEF LoanType
<1> DEFINE T == {k \in 0 .. n : SoundRow(loan, f[k])}
<1>3. 0 \in T
  BY <1>1, <1>2 DEF AreRows, FirstRow, SoundRow
<1>4. ASSUME NEW k \in 0 .. n - 1, k \in T PROVE k + 1 \in T
  <2>1. k + 1 \in 0 .. n /\ k + 1 # 0 /\ (k + 1) - 1 = k /\ k + 1 \in Nat
    BY <1>2
  <2>2. f[k + 1] = ScheduleRow(loan, k + 1, f[k].remaining_minor)
    BY <1>1, <2>1 DEF AreRows
  <2>3. f[k].remaining_minor \in 0 .. loan.principal_minor
    BY <1>4 DEF SoundRow
  <2>4. SoundRow(loan, f[k + 1])
    BY <2>1, <2>2, <2>3, ScheduleRowSound
  <2> QED
    BY <2>1, <2>4
<1>5. i \in T
  <2>1. i \in 0 .. n
    BY <1>2
  <2> HIDE DEF T, n
  <2> QED
    BY <1>2, <1>3, <1>4, <2>1, InductionTo
<1> QED
  BY <1>1, <1>5
=============================================================================
