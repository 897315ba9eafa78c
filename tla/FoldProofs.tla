----------------------------- MODULE FoldProofs -----------------------------
(***************************************************************************)
(* What the proofs of several modules need of folds over finite data and   *)
(* no library states: two principles of induction, on naturals and on the  *)
(* subsets of a finite set, that take a set where the library's take an    *)
(* operator, and from them what a sum over a finite set is, that a finite  *)
(* set can be put in order, that a recursive function exists, and how long *)
(* a flattened sequence is.                                                *)
(***************************************************************************)
EXTENDS Integers, Sequences, FiniteSets, SequencesExt, FiniteSetsExt, Functions,
        FiniteSetTheorems, WellFoundedInduction, NaturalsInduction, TLAPS

\* A set of naturals that has 0 and, with a number, the next one, has them all.
LEMMA NaturalsAreIn ==
  ASSUME NEW A, 0 \in A, \A n \in Nat : n \in A => n + 1 \in A
  PROVE  \A n \in Nat : n \in A
<1> DEFINE S == {n \in Nat : n \notin A}
           R == OpToRel(<, Nat)
<1> SUFFICES ASSUME S # {} PROVE FALSE  OBVIOUS
<1>1. PICK x \in S : \A y \in S : ~(<<y, x>> \in R)
  BY NatLessThanWellFounded, WFMin, Zenon
<1>2. x \in Nat /\ x # 0 /\ x - 1 \in Nat  OBVIOUS
<1>3. <<x - 1, x>> \in R
  <2>1. R = {ss \in Nat \X Nat : ss[1] < ss[2]}  BY DEF OpToRel
  <2>2. <<x - 1, x>> \in Nat \X Nat /\ x - 1 < x  BY <1>2
  <2> HIDE DEF R
  <2> QED  BY <2>1, <2>2
<1>4. x - 1 \in S
  <2>1. (x - 1) + 1 = x  BY <1>2
  <2> QED  BY <1>2, <2>1
<1> QED  BY <1>1, <1>3, <1>4, Zenon

\* A set that has every subset whose smaller subsets it has.
LEMMA SubsetsAreIn ==
  ASSUME NEW S, IsFiniteSet(S), NEW Q,
         \A T \in SUBSET S : (\A U \in SUBSET T : U # T => U \in Q) => T \in Q
  PROVE  \A T \in SUBSET S : T \in Q
<1> DEFINE A == {n \in Nat : \A T \in SUBSET S : Cardinality(T) <= n => T \in Q}
<1>1. \A T \in SUBSET S : IsFiniteSet(T) /\ Cardinality(T) \in Nat
  BY FS_Subset, FS_CardinalityType
<1>2. 0 \in A
  <2> SUFFICES ASSUME NEW T \in SUBSET S, Cardinality(T) <= 0 PROVE T \in Q  OBVIOUS
  <2>1. T = {}  BY <1>1, FS_EmptySet
  <2> QED  BY <2>1
<1>3. ASSUME NEW n \in Nat, n \in A PROVE n + 1 \in A
  <2> SUFFICES ASSUME NEW T \in SUBSET S, Cardinality(T) <= n + 1 PROVE T \in Q  OBVIOUS
  <2> SUFFICES ASSUME NEW U \in SUBSET T, U # T PROVE U \in Q  OBVIOUS
  <2>1. U \in SUBSET S  OBVIOUS
  <2>2. Cardinality(U) <= Cardinality(T) /\ Cardinality(U) # Cardinality(T)
    BY <1>1, FS_Subset
  <2>3. Cardinality(U) <= n  BY <1>1, <2>1, <2>2
  <2> QED  BY <1>3, <2>1, <2>3
<1>4. \A n \in Nat : n \in A
  <2> HIDE DEF A
  <2> QED  BY <1>2, <1>3, NaturalsAreIn
<1> QED  BY <1>1, <1>4

-----------------------------------------------------------------------------
Chosen(s) == CHOOSE x \in s : TRUE

\* The sums of the subsets that a fold goes through.
SumsUp(g, f, D) == g = [s \in D |-> IF s = {} THEN 0 ELSE f[Chosen(s)] + g[s \ {Chosen(s)}]]

LEMMA SumIs ==
  ASSUME NEW S, NEW f PROVE SumFunctionOnSet(f, S) = (CHOOSE g : SumsUp(g, f, SUBSET S))[S]
BY DEF SumFunctionOnSet, FoldFunctionOnSet, MapThenFoldSet, Chosen, SumsUp

LEMMA ChosenIsIn == \A s : s # {} => Chosen(s) \in s
BY DEF Chosen

Small(S, n) == {s \in SUBSET S : Cardinality(s) <= n}
Tabled(f, S, n) == \E g \in [Small(S, n) -> Int] : SumsUp(g, f, Small(S, n))

LEMMA SumsExist ==
  ASSUME NEW S, IsFiniteSet(S), NEW f, \A x \in S : f[x] \in Int
  PROVE  \E g \in [SUBSET S -> Int] : SumsUp(g, f, SUBSET S)
<1> DEFINE A == {n \in Nat : Tabled(f, S, n)}
<1>1. \A T \in SUBSET S : IsFiniteSet(T) /\ Cardinality(T) \in Nat
  BY FS_Subset, FS_CardinalityType
<1>2. 0 \in A
  <2>1. \A s \in Small(S, 0) : s = {}  BY <1>1, FS_EmptySet DEF Small
  <2>2. [s \in Small(S, 0) |-> 0] \in [Small(S, 0) -> Int]  OBVIOUS
  <2>3. SumsUp([s \in Small(S, 0) |-> 0], f, Small(S, 0))  BY <2>1 DEF SumsUp
  <2> QED  BY <2>2, <2>3 DEF Tabled
<1>3. ASSUME NEW n \in Nat, n \in A PROVE n + 1 \in A
  <2>1. PICK g \in [Small(S, n) -> Int] : SumsUp(g, f, Small(S, n))  BY <1>3 DEF Tabled
  <2> DEFINE h == [s \in Small(S, n + 1) |-> IF s = {} THEN 0 ELSE f[Chosen(s)] + g[s \ {Chosen(s)}]]
  <2>2. ASSUME NEW s \in Small(S, n + 1), s # {}
        PROVE  /\ Chosen(s) \in S
               /\ s \ {Chosen(s)} \in Small(S, n)
    <3>1. Chosen(s) \in s  BY <2>2, ChosenIsIn
    <3>2. IsFiniteSet(s) /\ Cardinality(s) \in Nat /\ Cardinality(s) <= n + 1  BY <1>1 DEF Small
    <3>3. Cardinality(s \ {Chosen(s)}) = Cardinality(s) - 1
      BY <3>1, <3>2, FS_RemoveElement
    <3> QED  BY <3>1, <3>2, <3>3 DEF Small
  <2>3. h \in [Small(S, n + 1) -> Int]
    <3> SUFFICES ASSUME NEW s \in Small(S, n + 1), s # {} PROVE f[Chosen(s)] + g[s \ {Chosen(s)}] \in Int
      OBVIOUS
    <3> QED  BY <2>2, <2>1
  <2>4. \A s \in Small(S, n) : s \in Small(S, n + 1)  BY <1>1 DEF Small
  <2>5. \A s \in Small(S, n) : h[s] = g[s]
    BY <2>1, <2>4 DEF SumsUp
  <2>6. SumsUp(h, f, Small(S, n + 1))
    BY <2>2, <2>5 DEF SumsUp
  <2>7. \E k \in [Small(S, n + 1) -> Int] : SumsUp(k, f, Small(S, n + 1))
    <3> HIDE DEF h
    <3> QED  BY <2>3, <2>6
  <2> QED  BY <2>7 DEF Tabled
<1>4. \A n \in Nat : n \in A
  <2> HIDE DEF A
  <2> QED  BY <1>2, <1>3, NaturalsAreIn
<1>5. Small(S, Cardinality(S)) = SUBSET S /\ Cardinality(S) \in Nat
  BY <1>1, FS_Subset DEF Small
<1> QED  BY <1>4, <1>5 DEF Tabled

\* There is one such table, and a sum is read from it.
LEMMA SumsAgree ==
  ASSUME NEW S, IsFiniteSet(S), NEW f, NEW g, NEW h,
         SumsUp(g, f, SUBSET S), NEW T \in SUBSET S, SumsUp(h, f, SUBSET T)
  PROVE  h[T] = g[T]
<1> DEFINE Q == {s \in SUBSET T : h[s] = g[s]}
<1>1. ASSUME NEW s \in SUBSET T, \A U \in SUBSET s : U # s => U \in Q PROVE s \in Q
  <2>1. CASE s = {}  BY <2>1 DEF SumsUp
  <2>2. CASE s # {}
    <3>1. Chosen(s) \in s  BY <2>2, ChosenIsIn
    <3>2. s \ {Chosen(s)} \in Q  BY <1>1, <3>1
    <3> QED  BY <2>2, <3>2 DEF SumsUp
  <2> QED  BY <2>1, <2>2
<1>2. IsFiniteSet(T)  BY FS_Subset
<1>3. \A s \in SUBSET T : s \in Q
  <2> HIDE DEF Q
  <2> QED  BY <1>1, <1>2, SubsetsAreIn
<1> QED  BY <1>3

Table(g, f, S) == /\ SumsUp(g, f, SUBSET S)
                  /\ \A T \in SUBSET S : SumFunctionOnSet(f, T) = g[T]

LEMMA SumTable ==
  ASSUME NEW S, IsFiniteSet(S), NEW f, \A x \in S : f[x] \in Int
  PROVE  \E g \in [SUBSET S -> Int] : Table(g, f, S)
<1>1. PICK g \in [SUBSET S -> Int] : SumsUp(g, f, SUBSET S)  BY SumsExist
<1>2. ASSUME NEW T \in SUBSET S PROVE SumFunctionOnSet(f, T) = g[T]
  <2> DEFINE h == CHOOSE h : SumsUp(h, f, SUBSET T)
  <2>1. IsFiniteSet(T)  BY FS_Subset
  <2>2. \E k : SumsUp(k, f, SUBSET T)  BY <2>1, SumsExist
  <2>3. SumsUp(h, f, SUBSET T)  BY <2>2
  <2>4. SumFunctionOnSet(f, T) = h[T]  BY SumIs
  <2> HIDE DEF h
  <2> QED  BY <1>1, <2>3, <2>4, SumsAgree
<1> QED  BY <1>1, <1>2 DEF Table

\* A sum does not depend on the order.
LEMMA SumOf ==
  ASSUME NEW S, IsFiniteSet(S), NEW f, \A x \in S : f[x] \in Int
  PROVE  /\ SumFunctionOnSet(f, S) \in Int
         /\ S = {} => SumFunctionOnSet(f, S) = 0
         /\ \A x \in S : SumFunctionOnSet(f, S) = f[x] + SumFunctionOnSet(f, S \ {x})
<1>t. PICK g \in [SUBSET S -> Int] : Table(g, f, S)
  BY SumTable
<1>1. /\ SumsUp(g, f, SUBSET S)
      /\ \A T \in SUBSET S : SumFunctionOnSet(f, T) = g[T]
  BY <1>t DEF Table
<1>2. g[{}] = 0 /\ \A T \in SUBSET S : T # {} => g[T] = f[Chosen(T)] + g[T \ {Chosen(T)}]
  BY <1>1 DEF SumsUp
<1> DEFINE Q == {T \in SUBSET S : \A x \in T : g[T] = f[x] + g[T \ {x}]}
<1>3. ASSUME NEW T \in SUBSET S, \A U \in SUBSET T : U # T => U \in Q PROVE T \in Q
  <2> SUFFICES ASSUME NEW x \in T PROVE g[T] = f[x] + g[T \ {x}]  OBVIOUS
  <2> DEFINE c == Chosen(T)
  <2>1. c \in T  BY ChosenIsIn
  <2>2. g[T] = f[c] + g[T \ {c}]  BY <1>2
  <2>3. CASE x = c  BY <2>2, <2>3
  <2>4. CASE x # c
    <3> HIDE DEF c
    <3> DEFINE R == (T \ {c}) \ {x}
    <3>1. T \ {c} \in Q /\ T \ {x} \in Q  BY <1>3, <2>1
    <3>2. x \in T \ {c} /\ c \in T \ {x} /\ (T \ {x}) \ {c} = R  BY <2>1, <2>4
    <3>3. g[T \ {c}] = f[x] + g[R] /\ g[T \ {x}] = f[c] + g[R]  BY <3>1, <3>2
    <3>4. g[R] \in Int /\ f[c] \in Int /\ f[x] \in Int  BY <1>1, <2>1
    <3> HIDE DEF R
    <3> QED  BY <2>2, <3>3, <3>4
  <2> QED  BY <2>3, <2>4
<1>4. \A T \in SUBSET S : T \in Q
  <2> HIDE DEF Q
  <2> QED  BY <1>3, SubsetsAreIn
<1>5. \A x \in S : g[S] = f[x] + g[S \ {x}] /\ S \ {x} \in SUBSET S  BY <1>4
<1>6. SumFunctionOnSet(f, S) = g[S] /\ g[S] \in Int  BY <1>1
<1>7. \A x \in S : SumFunctionOnSet(f, S \ {x}) = g[S \ {x}]  BY <1>1
<1>8. S = {} => SumFunctionOnSet(f, S) = 0  BY <1>2, <1>6
<1>9. \A x \in S : SumFunctionOnSet(f, S) = f[x] + SumFunctionOnSet(f, S \ {x})
  BY <1>5, <1>6, <1>7
<1> QED  BY <1>6, <1>8, <1>9

\* Sums of the same numbers are the same.
LEMMA SumSame ==
  ASSUME NEW S, IsFiniteSet(S), NEW f, NEW g, \A x \in S : f[x] \in Int /\ f[x] = g[x]
  PROVE  SumFunctionOnSet(f, S) = SumFunctionOnSet(g, S)
<1> DEFINE Q == {T \in SUBSET S : SumFunctionOnSet(f, T) = SumFunctionOnSet(g, T)}
<1>1. ASSUME NEW T \in SUBSET S, \A U \in SUBSET T : U # T => U \in Q PROVE T \in Q
  <2>1. IsFiniteSet(T)  BY FS_Subset
  <2>2. CASE T = {}
    <3>1. SumFunctionOnSet(f, T) = 0  BY <2>1, <2>2, SumOf
    <3>2. SumFunctionOnSet(g, T) = 0  BY <2>1, <2>2, SumOf
    <3> QED  BY <3>1, <3>2
  <2>3. CASE T # {}
    <3>1. PICK x \in T : TRUE  BY <2>3
    <3>2. SumFunctionOnSet(f, T) = f[x] + SumFunctionOnSet(f, T \ {x})  BY <2>1, SumOf
    <3>3. SumFunctionOnSet(g, T) = g[x] + SumFunctionOnSet(g, T \ {x})  BY <2>1, SumOf
    <3>4. T \ {x} \in Q  BY <1>1
    <3> QED  BY <3>2, <3>3, <3>4
  <2> QED  BY <2>2, <2>3
<1>2. \A T \in SUBSET S : T \in Q
  <2> HIDE DEF Q
  <2> QED  BY <1>1, SubsetsAreIn
<1> QED  BY <1>2

\* One of the numbers changes.
LEMMA SumChange ==
  ASSUME NEW S, IsFiniteSet(S), NEW f, NEW g, NEW x \in S,
         \A y \in S : f[y] \in Int, g[x] \in Int, \A y \in S \ {x} : f[y] = g[y]
  PROVE  SumFunctionOnSet(g, S) = SumFunctionOnSet(f, S) + g[x] - f[x]
<1> DEFINE r == SumFunctionOnSet(f, S \ {x})
<1>1. IsFiniteSet(S \ {x})  BY FS_RemoveElement
<1>2. r = SumFunctionOnSet(g, S \ {x})  BY <1>1, SumSame
<1>3. SumFunctionOnSet(f, S) = f[x] + r  BY SumOf
<1>4. \A y \in S : g[y] \in Int  OBVIOUS
<1>5. SumFunctionOnSet(g, S) = g[x] + r  BY <1>2, <1>4, SumOf
<1>6. r \in Int  BY <1>1, SumOf
<1> HIDE DEF r
<1> QED  BY <1>3, <1>5, <1>6

\* A sum of naturals is at least each of them, and at most that of greater ones.
LEMMA SumOrder ==
  ASSUME NEW S, IsFiniteSet(S), NEW f, NEW g,
         \A x \in S : f[x] \in Int /\ g[x] \in Int /\ f[x] <= g[x]
  PROVE  SumFunctionOnSet(f, S) <= SumFunctionOnSet(g, S)
<1> DEFINE Q == {T \in SUBSET S : SumFunctionOnSet(f, T) <= SumFunctionOnSet(g, T)}
<1>1. ASSUME NEW T \in SUBSET S, \A U \in SUBSET T : U # T => U \in Q PROVE T \in Q
  <2>1. IsFiniteSet(T)  BY FS_Subset
  <2>2. CASE T = {}
    <3>1. SumFunctionOnSet(f, T) = 0  BY <2>1, <2>2, SumOf
    <3>2. SumFunctionOnSet(g, T) = 0  BY <2>1, <2>2, SumOf
    <3> QED  BY <3>1, <3>2
  <2>3. CASE T # {}
    <3>1. PICK x \in T : TRUE  BY <2>3
    <3>2. SumFunctionOnSet(f, T) = f[x] + SumFunctionOnSet(f, T \ {x})  BY <2>1, SumOf
    <3>3. SumFunctionOnSet(g, T) = g[x] + SumFunctionOnSet(g, T \ {x})  BY <2>1, SumOf
    <3>4. T \ {x} \in Q  BY <1>1
    <3>5. IsFiniteSet(T \ {x})  BY <2>1, FS_RemoveElement
    <3>6. SumFunctionOnSet(f, T \ {x}) \in Int  BY <3>5, SumOf
    <3>7. SumFunctionOnSet(g, T \ {x}) \in Int  BY <3>5, SumOf
    <3>8. f[x] \in Int /\ g[x] \in Int /\ f[x] <= g[x]  OBVIOUS
    <3> QED  BY <3>2, <3>3, <3>4, <3>6, <3>7, <3>8
  <2> QED  BY <2>2, <2>3
<1>2. \A T \in SUBSET S : T \in Q
  <2> HIDE DEF Q
  <2> QED  BY <1>1, SubsetsAreIn
<1> QED  BY <1>2

-----------------------------------------------------------------------------
(***************************************************************************)
(* Finite sets in order                                                    *)
(***************************************************************************)
\* R puts the members of S in one line.
InLine(S, R) ==
  /\ \A x, y \in S : <<x, y>> \in R \/ <<y, x>> \in R \/ x = y
  /\ \A x, y, z \in S : <<x, y>> \in R /\ <<y, z>> \in R => <<x, z>> \in R
  /\ \A x \in S : <<x, x>> \notin R

\* What is last in line.
LEMMA LastInLine ==
  ASSUME NEW S, IsFiniteSet(S), NEW R, InLine(S, R)
  PROVE  \A T \in SUBSET S : T # {} => \E x \in T : \A y \in T : y # x => <<y, x>> \in R
<1> DEFINE Q == {T \in SUBSET S : T # {} => \E x \in T : \A y \in T : y # x => <<y, x>> \in R}
<1>1. ASSUME NEW T \in SUBSET S, \A U \in SUBSET T : U # T => U \in Q PROVE T \in Q
  <2> SUFFICES ASSUME T # {} PROVE \E x \in T : \A y \in T : y # x => <<y, x>> \in R  OBVIOUS
  <2>1. PICK a \in T : TRUE  OBVIOUS
  <2>2. T \ {a} \in Q  BY <1>1
  <2>3. CASE T \ {a} = {}  BY <2>1, <2>3
  <2>4. CASE T \ {a} # {}
    <3>1. PICK x \in T \ {a} : \A y \in T \ {a} : y # x => <<y, x>> \in R  BY <2>2, <2>4
    <3>2. CASE <<a, x>> \in R  BY <3>1, <3>2
    <3>3. CASE <<x, a>> \in R
      <4>1. \A y \in T : y # a => <<y, a>> \in R
        <5> SUFFICES ASSUME NEW y \in T, y # a PROVE <<y, a>> \in R  OBVIOUS
        <5>1. CASE y = x  BY <3>3, <5>1
        <5>2. CASE y # x
          <6>1. <<y, x>> \in R  BY <3>1, <5>2
          <6>2. x \in S /\ y \in S /\ a \in S  OBVIOUS
          <6> QED  BY <3>3, <6>1, <6>2 DEF InLine
        <5> QED  BY <5>1, <5>2
      <4> QED  BY <4>1
    <3>4. x \in S /\ a \in S /\ x # a  OBVIOUS
    <3> QED  BY <3>2, <3>3, <3>4 DEF InLine
  <2> QED  BY <2>3, <2>4
<1>2. \A T \in SUBSET S : T \in Q
  <2> HIDE DEF Q
  <2> QED  BY <1>1, SubsetsAreIn
<1> QED  BY <1>2

Sorted(q, T, R) == /\ q \in [1..Cardinality(T) -> T]
                   /\ \A i, j \in 1..Cardinality(T) : i < j => <<q[i], q[j]>> \in R
Sortable(T, R) == \E q : Sorted(q, T, R)

LEMMA LinesCanBeSorted ==
  ASSUME NEW S, IsFiniteSet(S), NEW R, InLine(S, R)
  PROVE  \A T \in SUBSET S : Sortable(T, R)
<1> DEFINE Q == {T \in SUBSET S : Sortable(T, R)}
<1>1. ASSUME NEW T \in SUBSET S, \A U \in SUBSET T : U # T => U \in Q PROVE T \in Q
  <2>1. IsFiniteSet(T)  BY FS_Subset
  <2>2. CASE T = {}
    <3>1. Cardinality(T) = 0  BY <2>2, FS_EmptySet
    <3>2. Sorted([i \in 1..Cardinality(T) |-> 0], T, R)  BY <3>1 DEF Sorted
    <3> QED  BY <3>2 DEF Sortable
  <2>3. CASE T # {}
    <3>1. PICK x \in T : \A y \in T : y # x => <<y, x>> \in R  BY <2>3, LastInLine
    <3> DEFINE n == Cardinality(T)
    <3>2. n \in Nat /\ Cardinality(T \ {x}) = n - 1 /\ n - 1 \in Nat
      <4>1. IsFiniteSet(T \ {x})  BY <2>1, FS_RemoveElement
      <4>2. Cardinality(T \ {x}) \in Nat  BY <4>1, FS_CardinalityType
      <4>3. n \in Nat /\ Cardinality(T \ {x}) = n - 1
        BY <2>1, FS_RemoveElement, FS_CardinalityType
      <4> QED  BY <4>2, <4>3
    <3>3. T \ {x} \in Q  BY <1>1
    <3>4. PICK q : Sorted(q, T \ {x}, R)  BY <3>3 DEF Sortable
    <3>5. /\ q \in [1..(n - 1) -> T \ {x}]
          /\ \A i, j \in 1..(n - 1) : i < j => <<q[i], q[j]>> \in R
      BY <3>2, <3>4 DEF Sorted
    <3> DEFINE p == [i \in 1..n |-> IF i = n THEN x ELSE q[i]]
    <3> HIDE DEF n
    <3>6. \A i \in 1..n : i # n => i \in 1..(n - 1)  BY <3>2
    <3>7. p \in [1..n -> T]  BY <3>5, <3>6
    <3>8. ASSUME NEW i \in 1..n, NEW j \in 1..n, i < j PROVE <<p[i], p[j]>> \in R
      <4>1. i \in 1..(n - 1) /\ p[i] = q[i]  BY <3>2, <3>8
      <4>2. CASE j = n
        <5>1. p[j] = x  BY <4>2
        <5>2. q[i] \in T /\ q[i] # x  BY <3>5, <4>1
        <5> QED  BY <3>1, <4>1, <5>1, <5>2
      <4>3. CASE j # n
        <5>1. j \in 1..(n - 1) /\ p[j] = q[j]  BY <3>6, <4>3
        <5> QED  BY <3>5, <3>8, <4>1, <5>1
      <4> QED  BY <4>2, <4>3
    <3>9. Sorted(p, T, R)
      <4> HIDE DEF p
      <4> QED  BY <3>7, <3>8 DEF Sorted, n
    <3> QED  BY <3>9 DEF Sortable
  <2> QED  BY <2>2, <2>3
<1>2. \A T \in SUBSET S : T \in Q
  <2> HIDE DEF Q
  <2> QED  BY <1>1, SubsetsAreIn
<1> QED  BY <1>2

\* A sorted list of a set has every member, once.
LEMMA SortedHasAll ==
  ASSUME NEW S, IsFiniteSet(S), NEW R, InLine(S, R), NEW q, Sorted(q, S, R)
  PROVE  /\ q \in Seq(S) /\ Len(q) = Cardinality(S)
         /\ \A i, j \in 1..Len(q) : q[i] = q[j] => i = j
         /\ Range(q) = S
<1> DEFINE n == Cardinality(S)
<1>1. n \in Nat /\ q \in [1..n -> S]  BY FS_CardinalityType DEF Sorted
<1>2. \A i, j \in 1..n : i < j => <<q[i], q[j]>> \in R  BY DEF Sorted
<1> HIDE DEF n
<1>3. q \in Seq(S) /\ Len(q) = n /\ DOMAIN q = 1..n  BY <1>1
<1>4. ASSUME NEW i \in 1..n, NEW j \in 1..n, q[i] = q[j] PROVE i = j
  <2>1. q[i] \in S  BY <1>1
  <2>2. <<q[i], q[j]>> \notin R /\ <<q[j], q[i]>> \notin R  BY <1>4, <2>1 DEF InLine
  <2>3. ~(i < j) /\ ~(j < i)  BY <1>2, <2>2
  <2> QED  BY <1>1, <2>3
<1>5. q \in Injection(1..n, S)  BY <1>1, <1>4 DEF Injection, IsInjective
<1>6. Cardinality(1..n) = Cardinality(S)  BY <1>1, FS_Interval DEF n
<1>7. q \in Surjection(1..n, S)  BY <1>5, <1>6, FS_Injection
<1>8. Range(q) = S  BY <1>1, <1>3, <1>7 DEF Surjection, Range
<1> QED  BY <1>3, <1>4, <1>8 DEF n

-----------------------------------------------------------------------------
(***************************************************************************)
(* Recursive functions                                                     *)
(***************************************************************************)
\* A function that starts with a and takes each value from the one before.
Steps(f, a, g, b, n) == f = [i \in b..n |-> IF i = b THEN a ELSE g[<<f[i - 1], i>>]]
Stepped(X, a, g, b, n) == \E f \in [b..n -> X] : Steps(f, a, g, b, n)

LEMMA StepsExist ==
  ASSUME NEW b \in Int, NEW X, NEW a \in X, NEW g \in [X \X Int -> X]
  PROVE  \A m \in Nat : Stepped(X, a, g, b, b + m)
<1> DEFINE A == {m \in Nat : Stepped(X, a, g, b, b + m)}
<1>1. 0 \in A
  <2> DEFINE f == [i \in b..b |-> a]
  <2>1. f \in [b..b -> X]  OBVIOUS
  <2>2. Steps(f, a, g, b, b)  BY DEF Steps
  <2> HIDE DEF f
  <2>3. Stepped(X, a, g, b, b)  BY <2>1, <2>2 DEF Stepped
  <2>4. b + 0 = b  OBVIOUS
  <2> QED  BY <2>3, <2>4
<1>2. ASSUME NEW m \in Nat, m \in A PROVE m + 1 \in A
  <2> DEFINE n == b + m
  <2>0. n \in Int /\ b <= n /\ b + (m + 1) = n + 1  OBVIOUS
  <2>1. PICK f \in [b..n -> X] : Steps(f, a, g, b, n)  BY <1>2 DEF Stepped
  <2> HIDE DEF n
  <2> DEFINE h == [i \in b..(n + 1) |-> IF i = n + 1 THEN g[<<f[n], n + 1>>] ELSE f[i]]
  <2>2. \A i \in b..(n + 1) : i # n + 1 => i \in b..n  BY <2>0
  <2>3. n \in b..n  BY <2>0
  <2>4. h \in [b..(n + 1) -> X]  BY <2>0, <2>1, <2>2, <2>3
  <2>5. ASSUME NEW i \in b..(n + 1) PROVE h[i] = IF i = b THEN a ELSE g[<<h[i - 1], i>>]
    <3>1. CASE i = n + 1
      <4>1. i # b /\ i - 1 = n /\ n \in b..(n + 1) /\ n # n + 1  BY <2>0, <3>1
      <4>2. h[i - 1] = f[n]  BY <4>1
      <4>3. h[i] = g[<<f[n], n + 1>>]  BY <3>1
      <4> HIDE DEF h
      <4> QED  BY <3>1, <4>1, <4>2, <4>3
    <3>2. CASE i # n + 1
      <4>1. i \in b..n /\ h[i] = f[i]  BY <2>2, <3>2
      <4>2. f[i] = IF i = b THEN a ELSE g[<<f[i - 1], i>>]  BY <2>1, <4>1 DEF Steps
      <4>3. i # b => i - 1 \in b..(n + 1) /\ i - 1 # n + 1  BY <2>0, <4>1
      <4>4. i # b => h[i - 1] = f[i - 1]  BY <4>3
      <4> HIDE DEF h
      <4> QED  BY <4>1, <4>2, <4>4
    <3> QED  BY <3>1, <3>2
  <2>6. Steps(h, a, g, b, n + 1)
    <3>1. h \in [b..(n + 1) -> X]  BY <2>4
    <3> HIDE DEF h
    <3> QED  BY <2>5, <3>1 DEF Steps
  <2>7. Stepped(X, a, g, b, n + 1)
    <3> HIDE DEF h
    <3> QED  BY <2>4, <2>6 DEF Stepped
  <2> QED  BY <2>0, <2>7
<1>3. \A m \in Nat : m \in A
  <2> HIDE DEF A
  <2> QED  BY <1>1, <1>2, NaturalsAreIn
<1> QED  BY <1>3

\* FlattenSeq begins with its first sequence.
FlattenSteps(fl, seqs) ==
  fl = [i \in 1..Len(seqs) |-> IF i = 1 THEN seqs[i] ELSE fl[i - 1] \o seqs[i]]

LEMMA FlattenIs ==
  ASSUME NEW seqs, Len(seqs) # 0
  PROVE  FlattenSeq(seqs) = (CHOOSE fl : FlattenSteps(fl, seqs))[Len(seqs)]
BY DEF FlattenSeq, FlattenSteps

LEMMA FlattenExists ==
  ASSUME NEW Y, NEW n \in Nat, n # 0, NEW seqs \in [1..n -> Seq(Y)]
  PROVE  \E fl \in [1..n -> Seq(Y)] : FlattenSteps(fl, seqs)
<1> DEFINE s(i) == IF i \in 1..n THEN seqs[i] ELSE <<>>
<1>1. Len(seqs) = n  OBVIOUS
<1>2. \A i \in Int : s(i) \in Seq(Y)  OBVIOUS
<1> DEFINE g == [x \in Seq(Y) \X Int |-> x[1] \o s(x[2])]
<1>3. g \in [Seq(Y) \X Int -> Seq(Y)]
  <2> HIDE DEF s
  <2> SUFFICES ASSUME NEW x \in Seq(Y) \X Int PROVE x[1] \o s(x[2]) \in Seq(Y)  OBVIOUS
  <2>1. x[1] \in Seq(Y) /\ s(x[2]) \in Seq(Y)  BY <1>2
  <2> QED  BY <2>1
<1>4. seqs[1] \in Seq(Y)  OBVIOUS
<1>5. n - 1 \in Nat /\ 1 + (n - 1) = n  OBVIOUS
<1>6. Stepped(Seq(Y), seqs[1], g, 1, n)
  <2> HIDE DEF g
  <2> DEFINE N == n - 1
  <2>0. N \in Nat /\ 1 + N = n  BY <1>5
  <2> HIDE DEF N
  <2>1. \A m \in Nat : Stepped(Seq(Y), seqs[1], g, 1, 1 + m)
    <3>1. 1 \in Int  OBVIOUS
    <3> QED  BY <1>3, <1>4, <3>1, StepsExist, Zenon
  <2>2. Stepped(Seq(Y), seqs[1], g, 1, 1 + N)  BY <2>0, <2>1
  <2> QED  BY <2>0, <2>2
<1>7. PICK fl \in [1..n -> Seq(Y)] : Steps(fl, seqs[1], g, 1, n)
  <2> HIDE DEF g
  <2> QED  BY <1>6 DEF Stepped
<1>8. ASSUME NEW i \in 1..n PROVE fl[i] = IF i = 1 THEN seqs[i] ELSE fl[i - 1] \o seqs[i]
  <2>1. fl[i] = IF i = 1 THEN seqs[1] ELSE g[<<fl[i - 1], i>>]
    <3> HIDE DEF g
    <3> QED  BY <1>7 DEF Steps
  <2>2. i # 1 => fl[i - 1] \in Seq(Y)  OBVIOUS
  <2>3. i # 1 => <<fl[i - 1], i>> \in Seq(Y) \X Int  BY <2>2
  <2>4. i # 1 => g[<<fl[i - 1], i>>] = fl[i - 1] \o seqs[i]  BY <2>3
  <2> HIDE DEF g
  <2> QED  BY <2>1, <2>4
<1>9. FlattenSteps(fl, seqs)
  <2> HIDE DEF g
  <2>1. fl = [i \in 1..n |-> fl[i]]  OBVIOUS
  <2> QED  BY <1>1, <1>8, <2>1 DEF FlattenSteps
<1> QED  BY <1>9

LEMMA FlattenLength ==
  ASSUME NEW Y, NEW n \in Nat, n # 0, NEW seqs \in [1..n -> Seq(Y)]
  PROVE  FlattenSeq(seqs) \in Seq(Y) /\ Len(FlattenSeq(seqs)) >= Len(seqs[1])
<1> DEFINE fl == CHOOSE fl : FlattenSteps(fl, seqs)
           A == {m \in Nat : m + 1 \in 1..n => fl[m + 1] \in Seq(Y) /\ Len(fl[m + 1]) >= Len(seqs[1])}
<1>1. Len(seqs) = n  OBVIOUS
<1>2. FlattenSteps(fl, seqs)  BY FlattenExists
<1> HIDE DEF fl
<1>3. \A i \in 1..n : fl[i] = IF i = 1 THEN seqs[i] ELSE fl[i - 1] \o seqs[i]
  BY <1>1, <1>2 DEF FlattenSteps
<1>4. 0 \in A
  <2>1. fl[1] = seqs[1] /\ seqs[1] \in Seq(Y)  BY <1>3
  <2>2. 0 + 1 = 1 /\ Len(seqs[1]) \in Nat  BY <2>1
  <2> QED  BY <2>1, <2>2
<1>5. ASSUME NEW m \in Nat, m \in A PROVE m + 1 \in A
  <2> SUFFICES ASSUME (m + 1) + 1 \in 1..n
               PROVE  fl[(m + 1) + 1] \in Seq(Y) /\ Len(fl[(m + 1) + 1]) >= Len(seqs[1])
    OBVIOUS
  <2>1. m + 1 \in 1..n /\ (m + 1) + 1 # 1 /\ ((m + 1) + 1) - 1 = m + 1  OBVIOUS
  <2>2. fl[(m + 1) + 1] = fl[m + 1] \o seqs[(m + 1) + 1]  BY <1>3, <2>1
  <2>3. fl[m + 1] \in Seq(Y) /\ Len(fl[m + 1]) >= Len(seqs[1])  BY <1>5, <2>1
  <2>4. seqs[(m + 1) + 1] \in Seq(Y) /\ seqs[1] \in Seq(Y)  OBVIOUS
  <2>5. \A s, t, u \in Seq(Y) : /\ Len(s) >= Len(u) => Len(s \o t) >= Len(u)
                               /\ s \o t \in Seq(Y)
    OBVIOUS
  <2> QED  BY <2>2, <2>3, <2>4, <2>5
<1>6. \A m \in Nat : m \in A
  <2> HIDE DEF A
  <2> QED  BY <1>4, <1>5, NaturalsAreIn
<1>7. n - 1 \in Nat /\ (n - 1) + 1 = n /\ n \in 1..n  OBVIOUS
<1>8. fl[n] \in Seq(Y) /\ Len(fl[n]) >= Len(seqs[1])  BY <1>6, <1>7
<1>9. FlattenSeq(seqs) = fl[n]  BY <1>1, FlattenIs DEF fl
<1> QED  BY <1>8, <1>9

-----------------------------------------------------------------------------
LEMMA MinOfTwo ==
  ASSUME NEW a \in Int, NEW b \in Int
  PROVE  Min({a, b}) = IF a <= b THEN a ELSE b
<1>1. \E x \in {a, b} : \A y \in {a, b} : x <= y
  <2>1. CASE a <= b  BY <2>1
  <2>2. CASE b <= a  BY <2>2
  <2> QED  BY <2>1, <2>2
<1>2. /\ Min({a, b}) \in {a, b}
      /\ \A y \in {a, b} : Min({a, b}) <= y
  BY <1>1 DEF Min
<1> QED  BY <1>2

LEMMA Products ==
  /\ \A a, b, c \in Nat : a <= b => a * c <= b * c
  /\ \A a, c \in Nat : a * c \in Nat /\ (a + 1) * c = a * c + c
<1>1. \A a, c \in Nat : a * c \in Nat /\ (a + 1) * c = a * c + c  OBVIOUS
<1>2. ASSUME NEW a \in Nat, NEW b \in Nat, NEW c \in Nat, a <= b PROVE a * c <= b * c
  <2>1. b = a + (b - a) /\ b - a \in Nat  BY <1>2
  <2>2. b * c = a * c + (b - a) * c  BY <2>1
  <2>3. (b - a) * c \in Nat /\ a * c \in Nat  BY <1>1, <2>1
  <2> QED  BY <2>2, <2>3
<1> QED  BY <1>1, <1>2

LEMMA MaxOfTwo ==
  ASSUME NEW a \in Int, NEW b \in Int
  PROVE  Max({a, b}) = IF a <= b THEN b ELSE a
<1>1. \E x \in {a, b} : \A y \in {a, b} : y <= x
  <2>1. CASE a <= b  BY <2>1
  <2>2. CASE b <= a  BY <2>2
  <2> QED  BY <2>1, <2>2
<1>2. /\ Max({a, b}) \in {a, b}
      /\ \A y \in {a, b} : y <= Max({a, b})
  BY <1>1 DEF Max
<1> QED  BY <1>2

LEMMA ListIs ==
  ASSUME NEW m \in Nat, NEW f, f = [k \in 1..m |-> f[k]]
  PROVE  f \in Seq(Range(f)) /\ Len(f) = m
<1>1. f \in [1..m -> Range(f)]  BY DEF Range
<1> QED  BY <1>1

LEMMA ListLength == \A Y, f : \A m \in Nat : f \in [1..m -> Y] => f \in Seq(Y) /\ Len(f) = m
OBVIOUS

LEMMA ListsInARow ==
  ASSUME NEW m \in Nat, NEW n \in Nat, NEW f, NEW g,
         f = [k \in 1..m |-> f[k]], g = [k \in 1..n |-> g[k]]
  PROVE  Len(f \o g) = m + n
<1> DEFINE Y == Range(f) \cup Range(g)
<1>1. f \in Seq(Range(f)) /\ g \in Seq(Range(g)) /\ Len(f) = m /\ Len(g) = n  BY ListIs
<1>2. f \in Seq(Y) /\ g \in Seq(Y)
  <2>1. \A A, B : A \subseteq B => Seq(A) \subseteq Seq(B)  OBVIOUS
  <2>2. Range(f) \subseteq Y /\ Range(g) \subseteq Y  OBVIOUS
  <2> QED  BY <1>1, <2>1, <2>2
<1> HIDE DEF Y
<1> QED  BY <1>1, <1>2

LEMMA Parts ==
  ASSUME NEW n \in Nat, NEW S \in SUBSET (1..n)
  PROVE  IsFiniteSet(S) /\ Cardinality(S) \in Nat /\ (S = {} <=> Cardinality(S) = 0)
<1>1. IsFiniteSet(1..n)
  <2>1. 1 \in Int /\ n \in Int  OBVIOUS
  <2> QED  BY <2>1, FS_Interval
<1>2. IsFiniteSet(S)  BY <1>1, FS_Subset
<1> QED  BY <1>2, FS_CardinalityType, FS_EmptySet

LEMMA Quotients ==
  ASSUME NEW a \in Nat, NEW b \in Nat \ {0}, NEW c \in Nat, a < c * b
  PROVE  (a \div b) + 1 \in 1..c
<1> DEFINE q == a \div b
<1>1. q \in Nat /\ q * b <= a  OBVIOUS
<1> HIDE DEF q
<1>2. ASSUME c <= q PROVE FALSE
  <2>1. c * b <= q * b  BY <1>1, <1>2, Products
  <2>2. c * b \in Nat /\ q * b \in Nat  BY <1>1, Products
  <2> QED  BY <1>1, <2>1, <2>2
<1> QED  BY <1>1, <1>2 DEF q

LEMMA RangeOf == ASSUME NEW Y, NEW q \in Seq(Y) PROVE Range(q) \subseteq Y
<1>1. DOMAIN q = 1..Len(q) /\ \A x \in 1..Len(q) : q[x] \in Y  OBVIOUS
<1> QED  BY <1>1 DEF Range

LEMMA Tails ==
  ASSUME NEW Y, NEW q \in Seq(Y), Len(q) > 1, \A j, k \in 1..Len(q) : q[j] = q[k] => j = k
  PROVE  /\ Tail(q) \in Seq(Y) /\ Tail(q) # <<>> /\ Len(Tail(q)) = Len(q) - 1
         /\ \A j, k \in 1..Len(Tail(q)) : Tail(q)[j] = Tail(q)[k] => j = k
         /\ Range(Tail(q)) = Range(q) \ {q[1]}
<1> DEFINE t == Tail(q)
           n == Len(q)
<1>1. n \in Nat /\ n > 1 /\ DOMAIN q = 1..n  OBVIOUS
<1>2. /\ t \in Seq(Y) /\ Len(t) = n - 1 /\ DOMAIN t = 1..(n - 1)
      /\ \A j \in 1..(n - 1) : t[j] = q[j + 1]
  OBVIOUS
<1>3. t # <<>>  BY <1>1, <1>2
<1>4. \A j, k \in 1..n : q[j] = q[k] => j = k  OBVIOUS
<1> HIDE DEF t, n
<1>5. \A j \in 1..(n - 1) : j + 1 \in 1..n /\ j + 1 # 1  BY <1>1
<1>6. ASSUME NEW j \in 1..(n - 1), NEW k \in 1..(n - 1), t[j] = t[k] PROVE j = k
  <2>1. q[j + 1] = q[k + 1]  BY <1>2, <1>6
  <2>2. j + 1 = k + 1  BY <1>4, <1>5, <2>1
  <2> QED  BY <1>1, <2>2
<1>7. 1 \in 1..n  BY <1>1
<1>8. ASSUME NEW y PROVE y \in Range(t) <=> y \in Range(q) /\ y # q[1]
  <2>1. ASSUME y \in Range(t) PROVE y \in Range(q) /\ y # q[1]
    <3>1. PICK j \in 1..(n - 1) : y = q[j + 1]  BY <1>2, <2>1 DEF Range
    <3>2. q[j + 1] # q[1]  BY <1>4, <1>5, <1>7
    <3> QED  BY <1>1, <1>5, <3>1, <3>2 DEF Range
  <2>2. ASSUME y \in Range(q), y # q[1] PROVE y \in Range(t)
    <3>1. PICK j \in 1..n : y = q[j]  BY <1>1, <2>2 DEF Range
    <3>2. j # 1  BY <2>2, <3>1
    <3>3. j - 1 \in 1..(n - 1) /\ (j - 1) + 1 = j  BY <1>1, <3>2
    <3>4. t[j - 1] = y  BY <1>2, <3>1, <3>3
    <3> QED  BY <1>2, <3>3, <3>4 DEF Range
  <2> QED  BY <2>1, <2>2
<1>9. Range(t) = Range(q) \ {q[1]}  BY <1>8
<1> QED  BY <1>2, <1>3, <1>6, <1>9 DEF t, n

\* What two sequences in a row have.
LEMMA RangesInARow ==
  ASSUME NEW Y, NEW s \in Seq(Y), NEW t \in Seq(Y)
  PROVE  Range(s \o t) = Range(s) \cup Range(t)
<1> DEFINE m == Len(s)
           n == Len(t)
           u == s \o t
<1>1. m \in Nat /\ n \in Nat /\ DOMAIN s = 1..m /\ DOMAIN t = 1..n  OBVIOUS
<1>2. u \in Seq(Y) /\ Len(u) = m + n /\ DOMAIN u = 1..(m + n)  OBVIOUS
<1>3. /\ \A i \in 1..m : u[i] = s[i]
      /\ \A i \in 1..(m + n) : ~(i <= m) => u[i] = t[i - m]
  OBVIOUS
<1> HIDE DEF m, n, u
<1>4. ASSUME NEW i \in 1..m PROVE s[i] \in Range(u)
  <2>1. i \in 1..(m + n) /\ u[i] = s[i]  BY <1>1, <1>3
  <2> QED  BY <1>2, <2>1 DEF Range
<1>5. ASSUME NEW i \in 1..n PROVE t[i] \in Range(u)
  <2>1. m + i \in 1..(m + n) /\ ~(m + i <= m) /\ (m + i) - m = i  BY <1>1
  <2>2. u[m + i] = t[i]  BY <1>3, <2>1
  <2> QED  BY <1>2, <2>1, <2>2 DEF Range
<1>6. ASSUME NEW i \in 1..(m + n) PROVE u[i] \in Range(s) \cup Range(t)
  <2>1. CASE i <= m
    <3>1. i \in 1..m  BY <2>1
    <3> QED  BY <1>1, <1>3, <3>1 DEF Range
  <2>2. CASE ~(i <= m)
    <3>1. i - m \in 1..n  BY <1>1, <2>2
    <3> QED  BY <1>1, <1>3, <2>2, <3>1 DEF Range
  <2> QED  BY <2>1, <2>2
<1>7. Range(u) \subseteq Range(s) \cup Range(t)  BY <1>2, <1>6 DEF Range
<1>8. Range(s) \subseteq Range(u) /\ Range(t) \subseteq Range(u)  BY <1>1, <1>4, <1>5 DEF Range
<1>9. Range(u) = Range(s) \cup Range(t)  BY <1>7, <1>8
<1> QED  BY <1>9 DEF u

\* A flattened sequence has what its parts have.
LEMMA FlattenHas ==
  ASSUME NEW Y, NEW n \in Nat, n # 0, NEW seqs \in [1..n -> Seq(Y)]
  PROVE  \A i \in 1..n : Range(seqs[i]) \subseteq Range(FlattenSeq(seqs))
<1> DEFINE fl == CHOOSE fl : FlattenSteps(fl, seqs)
           A == {m \in Nat : m + 1 \in 1..n =>
                   fl[m + 1] \in Seq(Y) /\ \A i \in 1..(m + 1) : Range(seqs[i]) \subseteq Range(fl[m + 1])}
<1>1. Len(seqs) = n  OBVIOUS
<1>2. FlattenSteps(fl, seqs)  BY FlattenExists
<1> HIDE DEF fl
<1>3. \A i \in 1..n : fl[i] = IF i = 1 THEN seqs[i] ELSE fl[i - 1] \o seqs[i]
  BY <1>1, <1>2 DEF FlattenSteps
<1>4. 0 \in A
  <2>1. fl[1] = seqs[1] /\ seqs[1] \in Seq(Y) /\ 0 + 1 = 1  BY <1>3
  <2>2. \A i \in 1..1 : i = 1  OBVIOUS
  <2> QED  BY <2>1, <2>2
<1>5. ASSUME NEW m \in Nat, m \in A PROVE m + 1 \in A
  <2> DEFINE k == m + 1
  <2> SUFFICES ASSUME k + 1 \in 1..n
               PROVE  fl[k + 1] \in Seq(Y) /\ \A i \in 1..(k + 1) : Range(seqs[i]) \subseteq Range(fl[k + 1])
    OBVIOUS
  <2>1. k \in 1..n /\ k + 1 # 1 /\ (k + 1) - 1 = k  OBVIOUS
  <2>2. fl[k + 1] = fl[k] \o seqs[k + 1]  BY <1>3, <2>1
  <2>3. fl[k] \in Seq(Y) /\ \A i \in 1..k : Range(seqs[i]) \subseteq Range(fl[k])  BY <1>5, <2>1
  <2>4. seqs[k + 1] \in Seq(Y)  OBVIOUS
  <2> HIDE DEF k
  <2>5. Range(fl[k + 1]) = Range(fl[k]) \cup Range(seqs[k + 1])  BY <2>2, <2>3, <2>4, RangesInARow
  <2>6. \A i \in 1..(k + 1) : i \in 1..k \/ i = k + 1  BY <2>1
  <2>7. \A s, t \in Seq(Y) : s \o t \in Seq(Y)  OBVIOUS
  <2> QED  BY <2>2, <2>3, <2>4, <2>5, <2>6, <2>7
<1>6. \A m \in Nat : m \in A
  <2> HIDE DEF A
  <2> QED  BY <1>4, <1>5, NaturalsAreIn
<1>7. n - 1 \in Nat /\ (n - 1) + 1 = n /\ n \in 1..n  OBVIOUS
<1>8. \A i \in 1..n : Range(seqs[i]) \subseteq Range(fl[n])  BY <1>6, <1>7
<1>9. FlattenSeq(seqs) = fl[n]  BY <1>1, FlattenIs DEF fl
<1> QED  BY <1>8, <1>9

\* A sum whose terms are all alike.
LEMMA SumOfSame ==
  ASSUME NEW S, IsFiniteSet(S), NEW k \in Nat, NEW f, \A x \in S : f[x] = k
  PROVE  SumFunctionOnSet(f, S) = k * Cardinality(S)
<1> DEFINE Q == {T \in SUBSET S : SumFunctionOnSet(f, T) = k * Cardinality(T)}
<1>1. ASSUME NEW T \in SUBSET S, \A U \in SUBSET T : U # T => U \in Q PROVE T \in Q
  <2>1. IsFiniteSet(T)  BY FS_Subset
  <2>2. CASE T = {}
    <3>1. SumFunctionOnSet(f, T) = 0  BY <2>1, <2>2, SumOf
    <3>2. Cardinality(T) = 0 /\ k * 0 = 0  BY <2>2, FS_EmptySet
    <3> QED  BY <3>1, <3>2
  <2>3. CASE T # {}
    <3>1. PICK x \in T : TRUE  BY <2>3
    <3>2. T \ {x} \in Q  BY <1>1, <3>1
    <3>3. SumFunctionOnSet(f, T) = f[x] + SumFunctionOnSet(f, T \ {x})
      <4>1. \A y \in T : f[y] \in Int  OBVIOUS
      <4> QED  BY <2>1, <4>1, SumOf
    <3> DEFINE n == Cardinality(T \ {x})
    <3>4. Cardinality(T) = n + 1 /\ n \in Nat
      <4>1. IsFiniteSet(T \ {x})  BY <2>1, FS_Subset
      <4>2. Cardinality((T \ {x}) \cup {x}) = n + 1  BY <4>1, FS_AddElement
      <4>3. (T \ {x}) \cup {x} = T  OBVIOUS
      <4> QED  BY <4>1, <4>2, <4>3, FS_CardinalityType
    <3>5. SumFunctionOnSet(f, T \ {x}) = k * n  BY <3>2
    <3> HIDE DEF n
    <3>6. k * (n + 1) = k + k * n  BY <3>4
    <3> QED  BY <3>3, <3>4, <3>5, <3>6
  <2> QED  BY <2>2, <2>3
<1>2. S \in Q
  <2> HIDE DEF Q
  <2> QED  BY <1>1, SubsetsAreIn
<1> QED  BY <1>2

\* A sum of which one term is not 0.
LEMMA SumOfOne ==
  ASSUME NEW S, IsFiniteSet(S), NEW f, NEW a \in S, f[a] \in Int, \A x \in S \ {a} : f[x] = 0
  PROVE  SumFunctionOnSet(f, S) = f[a]
<1>1. \A x \in S : f[x] \in Int  OBVIOUS
<1>2. SumFunctionOnSet(f, S) = f[a] + SumFunctionOnSet(f, S \ {a})  BY <1>1, SumOf
<1>3. SumFunctionOnSet(f, S \ {a}) = 0
  <2>1. IsFiniteSet(S \ {a})  BY FS_Subset
  <2>2. SumFunctionOnSet(f, S \ {a}) = 0 * Cardinality(S \ {a})  BY <2>1, SumOfSame
  <2>3. Cardinality(S \ {a}) \in Nat  BY <2>1, FS_CardinalityType
  <2> QED  BY <2>2, <2>3
<1> QED  BY <1>2, <1>3

\* A sum over a function is one over its domain.
LEMMA SumOverDomain == ASSUME NEW f PROVE SumFunction(f) = SumFunctionOnSet(f, DOMAIN f)
BY DEF SumFunction

\* A finite set has a member with the highest value.
LEMMA HighestIsIn ==
  ASSUME NEW S, IsFiniteSet(S), S # {}, NEW f, \A x \in S : f[x] \in Int
  PROVE  \E x \in S : \A y \in S : f[x] >= f[y]
<1> DEFINE Q == {T \in SUBSET S : T # {} => \E x \in T : \A y \in T : f[x] >= f[y]}
<1>1. ASSUME NEW T \in SUBSET S, \A U \in SUBSET T : U # T => U \in Q PROVE T \in Q
  <2> SUFFICES ASSUME T # {} PROVE \E x \in T : \A y \in T : f[x] >= f[y]  OBVIOUS
  <2>1. PICK a \in T : TRUE  OBVIOUS
  <2>2. T \ {a} \in Q  BY <1>1, <2>1
  <2>3. CASE T \ {a} = {}
    <3>1. \A y \in T : y = a  BY <2>3
    <3> QED  BY <2>1, <3>1
  <2>4. CASE T \ {a} # {}
    <3>1. PICK b \in T \ {a} : \A y \in T \ {a} : f[b] >= f[y]  BY <2>2, <2>4
    <3>2. CASE f[a] >= f[b]
      <4>1. \A y \in T : f[a] >= f[y]  BY <2>1, <3>1, <3>2
      <4> QED  BY <2>1, <4>1
    <3>3. CASE ~(f[a] >= f[b])
      <4>1. \A y \in T : f[b] >= f[y]  BY <2>1, <3>1, <3>3
      <4> QED  BY <3>1, <4>1
    <3> QED  BY <3>2, <3>3
  <2> QED  BY <2>3, <2>4
<1>2. S \in Q
  <2> HIDE DEF Q
  <2> QED  BY <1>1, SubsetsAreIn
<1> QED  BY <1>2

\* A sum grows when a term grows and none shrinks.
LEMMA SumGrows ==
  ASSUME NEW S, IsFiniteSet(S), NEW f, NEW g,
         \A x \in S : f[x] \in Int /\ g[x] \in Int /\ f[x] <= g[x],
         NEW z \in S, f[z] < g[z]
  PROVE  SumFunctionOnSet(f, S) < SumFunctionOnSet(g, S)
<1> DEFINE h == [x \in S |-> IF x = z THEN g[z] ELSE f[x]]
<1>1. \A x \in S : h[x] \in Int /\ h[x] <= g[x]  OBVIOUS
<1>2. h[z] = g[z] /\ h[z] \in Int /\ \A y \in S \ {z} : f[y] = h[y]  OBVIOUS
<1> HIDE DEF h
<1>3. SumFunctionOnSet(h, S) <= SumFunctionOnSet(g, S)  BY <1>1, SumOrder
<1>4. SumFunctionOnSet(h, S) = SumFunctionOnSet(f, S) + h[z] - f[z]
  <2>1. \A y \in S : f[y] \in Int  OBVIOUS
  <2>2. h[z] \in Int  BY <1>2
  <2>3. \A y \in S \ {z} : f[y] = h[y]  BY <1>2
  <2> QED  BY <2>1, <2>2, <2>3, SumChange
<1>5. /\ SumFunctionOnSet(h, S) \in Int /\ SumFunctionOnSet(f, S) \in Int
      /\ SumFunctionOnSet(g, S) \in Int
  BY <1>1, SumOf
<1> QED  BY <1>2, <1>3, <1>4, <1>5

\* The sum over a part of a set, as a sum over the set.
LEMMA SumOfPart ==
  ASSUME NEW S, IsFiniteSet(S), NEW L \in SUBSET S, NEW k \in Nat, NEW f,
         \A x \in S : f[x] = IF x \in L THEN k ELSE 0
  PROVE  SumFunctionOnSet(f, S) = k * Cardinality(L)
<1> DEFINE Q == {T \in SUBSET S : SumFunctionOnSet(f, T) = k * Cardinality(L \cap T)}
<1>1. ASSUME NEW T \in SUBSET S, \A U \in SUBSET T : U # T => U \in Q PROVE T \in Q
  <2>1. IsFiniteSet(T)  BY FS_Subset
  <2>2. CASE T = {}
    <3>1. SumFunctionOnSet(f, T) = 0  BY <2>1, <2>2, SumOf
    <3>2. Cardinality(L \cap T) = 0 /\ k * 0 = 0
      <4>1. L \cap T = {}  BY <2>2
      <4>2. Cardinality(L \cap T) = 0  BY <4>1, FS_EmptySet, Zenon
      <4>3. k * 0 = 0  OBVIOUS
      <4> QED  BY <4>2, <4>3
    <3> QED  BY <3>1, <3>2
  <2>3. CASE T # {}
    <3>1. PICK x \in T : TRUE  BY <2>3
    <3> DEFINE U == T \ {x}
               n == Cardinality(L \cap U)
    <3>2. SumFunctionOnSet(f, U) = k * n  BY <1>1, <3>1
    <3>3. SumFunctionOnSet(f, T) = f[x] + SumFunctionOnSet(f, U)
      <4>1. \A y \in T : f[y] \in Int  OBVIOUS
      <4> QED  BY <2>1, <4>1, SumOf
    <3>4. n \in Nat /\ IsFiniteSet(L \cap U)
      <4>1. IsFiniteSet(L \cap U)  BY FS_Subset
      <4> QED  BY <4>1, FS_CardinalityType
    <3>5. CASE x \in L
      <4>1. L \cap T = (L \cap U) \cup {x} /\ x \notin L \cap U  BY <3>5
      <4>2. Cardinality(L \cap T) = n + 1  BY <3>4, <4>1, FS_AddElement
      <4>3. f[x] = k  BY <3>5
      <4> HIDE DEF n
      <4>4. k * (n + 1) = k + k * n  BY <3>4
      <4> QED  BY <3>2, <3>3, <4>2, <4>3, <4>4
    <3>6. CASE x \notin L
      <4>1. L \cap T = L \cap U  BY <3>6
      <4>2. f[x] = 0  BY <3>6
      <4> HIDE DEF n
      <4>3. k * n \in Int  BY <3>4
      <4>4. SumFunctionOnSet(f, T) = k * n  BY <3>2, <3>3, <4>2, <4>3
      <4>5. SumFunctionOnSet(f, T) = k * Cardinality(L \cap T)  BY <4>1, <4>4 DEF n
      <4> QED  BY <4>5
    <3> QED  BY <3>5, <3>6
  <2> QED  BY <2>2, <2>3
<1>2. S \in Q
  <2> HIDE DEF Q
  <2>1. \A T \in SUBSET S : T \in Q  BY <1>1, SubsetsAreIn
  <2> QED  BY <2>1
<1>3. L \cap S = L  OBVIOUS
<1> QED  BY <1>2, <1>3

\* The sum of the sums of two tables is the sum of both.
LEMMA SumOfBoth ==
  ASSUME NEW S, IsFiniteSet(S), NEW f, NEW g, NEW h,
         \A x \in S : f[x] \in Int /\ g[x] \in Int /\ h[x] = f[x] + g[x]
  PROVE  SumFunctionOnSet(h, S) = SumFunctionOnSet(f, S) + SumFunctionOnSet(g, S)
<1> DEFINE Q == {T \in SUBSET S :
                   SumFunctionOnSet(h, T) = SumFunctionOnSet(f, T) + SumFunctionOnSet(g, T)}
<1>0. \A x \in S : h[x] \in Int  OBVIOUS
<1>1. ASSUME NEW T \in SUBSET S, \A U \in SUBSET T : U # T => U \in Q PROVE T \in Q
  <2>1. IsFiniteSet(T)  BY FS_Subset
  <2>2. CASE T = {}
    <3>1. /\ SumFunctionOnSet(f, T) = 0 /\ SumFunctionOnSet(g, T) = 0
          /\ SumFunctionOnSet(h, T) = 0
      BY <1>0, <2>1, <2>2, SumOf
    <3> QED  BY <3>1
  <2>3. CASE T # {}
    <3>1. PICK x \in T : TRUE  BY <2>3
    <3> DEFINE U == T \ {x}
    <3>2. SumFunctionOnSet(h, U) = SumFunctionOnSet(f, U) + SumFunctionOnSet(g, U)
      BY <1>1, <3>1
    <3>3. /\ SumFunctionOnSet(f, T) = f[x] + SumFunctionOnSet(f, U)
          /\ SumFunctionOnSet(g, T) = g[x] + SumFunctionOnSet(g, U)
          /\ SumFunctionOnSet(h, T) = h[x] + SumFunctionOnSet(h, U)
      <4>1. \A y \in T : f[y] \in Int /\ g[y] \in Int /\ h[y] \in Int  BY <1>0
      <4> QED  BY <2>1, <4>1, SumOf
    <3>4. SumFunctionOnSet(f, U) \in Int /\ SumFunctionOnSet(g, U) \in Int
      <4>1. IsFiniteSet(U) /\ \A y \in U : f[y] \in Int /\ g[y] \in Int  BY <2>1, FS_Subset
      <4> QED  BY <4>1, SumOf
    <3>5. h[x] = f[x] + g[x] /\ f[x] \in Int /\ g[x] \in Int  BY <3>1
    <3> HIDE DEF U
    <3> DEFINE a == SumFunctionOnSet(f, U)
               b == SumFunctionOnSet(g, U)
               u == f[x]
               v == g[x]
    <3>6. a \in Int /\ b \in Int /\ u \in Int /\ v \in Int  BY <3>4, <3>5
    <3>7. SumFunctionOnSet(h, T) = (u + v) + (a + b)  BY <3>2, <3>3, <3>5
    <3>8. SumFunctionOnSet(f, T) + SumFunctionOnSet(g, T) = (u + a) + (v + b)  BY <3>3
    <3> HIDE DEF a, b, u, v
    <3>9. (u + v) + (a + b) = (u + a) + (v + b)  BY <3>6
    <3> QED  BY <3>7, <3>8, <3>9
  <2> QED  BY <2>2, <2>3
<1>2. S \in Q
  <2> HIDE DEF Q
  <2> QED  BY <1>1, SubsetsAreIn
<1> QED  BY <1>2

\* Summed by rows or by columns: the same.
LEMMA SumsTurn ==
  ASSUME NEW S, IsFiniteSet(S), NEW V, IsFiniteSet(V), NEW g \in [S \X V -> Int]
  PROVE  SumFunctionOnSet([x \in S |-> SumFunctionOnSet([v \in V |-> g[<<x, v>>]], V)], S)
           = SumFunctionOnSet([v \in V |-> SumFunctionOnSet([x \in S |-> g[<<x, v>>]], S)], V)
<1> DEFINE r == [x \in S |-> SumFunctionOnSet([v \in V |-> g[<<x, v>>]], V)]
           col(T) == [v \in V |-> SumFunctionOnSet([x \in S |-> g[<<x, v>>]], T)]
           Q == {T \in SUBSET S : SumFunctionOnSet(r, T) = SumFunctionOnSet(col(T), V)}
<1>0. /\ \A x \in S : r[x] \in Int
      /\ \A T \in SUBSET S : \A v \in V : col(T)[v] \in Int
  <2>1. ASSUME NEW x \in S PROVE r[x] \in Int
    <3> DEFINE row == [v \in V |-> g[<<x, v>>]]
    <3>1. \A v \in V : row[v] \in Int  OBVIOUS
    <3>2. SumFunctionOnSet(row, V) \in Int
      <4> HIDE DEF row
      <4> QED  BY <3>1, SumOf
    <3> QED  BY <3>2
  <2>2. ASSUME NEW T \in SUBSET S, NEW v \in V PROVE col(T)[v] \in Int
    <3> DEFINE c == [x \in S |-> g[<<x, v>>]]
    <3>1. \A x \in T : c[x] \in Int  OBVIOUS
    <3>2. SumFunctionOnSet(c, T) \in Int
      <4> HIDE DEF c
      <4>1. IsFiniteSet(T)  BY FS_Subset
      <4> QED  BY <3>1, <4>1, SumOf
    <3> QED  BY <3>2
  <2> QED  BY <2>1, <2>2
<1>1. ASSUME NEW T \in SUBSET S, \A U \in SUBSET T : U # T => U \in Q PROVE T \in Q
  <2>1. IsFiniteSet(T)  BY FS_Subset
  <2>2. CASE T = {}
    <3>1. SumFunctionOnSet(r, T) = 0
      <4>1. \A x \in T : r[x] \in Int  BY <2>2
      <4> HIDE DEF r
      <4> QED  BY <2>1, <2>2, <4>1, SumOf
    <3>2. \A v \in V : col(T)[v] = 0
      <4> SUFFICES ASSUME NEW v \in V PROVE col(T)[v] = 0  OBVIOUS
      <4> DEFINE c == [x \in S |-> g[<<x, v>>]]
      <4>1. SumFunctionOnSet(c, T) = 0
        <5>1. \A x \in T : c[x] \in Int  BY <2>2
        <5> HIDE DEF c
        <5> QED  BY <2>1, <2>2, <5>1, SumOf
      <4> QED  BY <4>1
    <3>3. SumFunctionOnSet(col(T), V) = 0
      <4> HIDE DEF col
      <4>1. SumFunctionOnSet(col(T), V) = 0 * Cardinality(V)  BY <3>2, SumOfSame
      <4>2. Cardinality(V) \in Nat  BY FS_CardinalityType
      <4> QED  BY <4>1, <4>2
    <3> QED  BY <3>1, <3>3
  <2>3. CASE T # {}
    <3>1. PICK x \in T : TRUE  BY <2>3
    <3> DEFINE U == T \ {x}
               row == [v \in V |-> g[<<x, v>>]]
    <3>2. SumFunctionOnSet(r, U) = SumFunctionOnSet(col(U), V)  BY <1>1, <3>1
    <3>3. SumFunctionOnSet(r, T) = r[x] + SumFunctionOnSet(r, U)
      <4>1. \A y \in T : r[y] \in Int  BY <1>0
      <4> HIDE DEF r
      <4> QED  BY <2>1, <4>1, SumOf
    <3>4. r[x] = SumFunctionOnSet(row, V)  BY <3>1
    <3>5. ASSUME NEW v \in V PROVE col(T)[v] = row[v] + col(U)[v] /\ row[v] \in Int
      <4> DEFINE c == [y \in S |-> g[<<y, v>>]]
      <4>1. \A y \in T : c[y] \in Int  OBVIOUS
      <4>2. c[x] = row[v] /\ row[v] \in Int  BY <3>1
      <4>3. col(T)[v] = SumFunctionOnSet(c, T) /\ col(U)[v] = SumFunctionOnSet(c, U)  OBVIOUS
      <4> HIDE DEF c, row, col
      <4>4. SumFunctionOnSet(c, T) = c[x] + SumFunctionOnSet(c, U)  BY <2>1, <4>1, SumOf
      <4> QED  BY <4>2, <4>3, <4>4
    <3>6. \A v \in V : col(U)[v] \in Int  BY <1>0
    <3> HIDE DEF row, col, r
    <3>7. SumFunctionOnSet(col(T), V) = SumFunctionOnSet(row, V) + SumFunctionOnSet(col(U), V)
      BY <3>5, <3>6, SumOfBoth
    <3> QED  BY <3>2, <3>3, <3>4, <3>7
  <2> QED  BY <2>2, <2>3
<1>2. S \in Q
  <2> HIDE DEF Q
  <2> QED  BY <1>1, SubsetsAreIn
<1> QED  BY <1>2
=============================================================================
