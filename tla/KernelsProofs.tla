----------------------------- MODULE KernelsProofs -----------------------------
(***************************************************************************)
(* The driver and its passes, for every file of kernels.                   *)
(***************************************************************************)
EXTENDS Kernels, FiniteSetTheorems, SequenceTheorems, WellFoundedInduction, TLAPS

------------------------------------------------------------------------------
(***************************************************************************)
(* Sets of naturals.                                                       *)
(***************************************************************************)
\* A set of naturals that is not empty has a smallest element.
LEMMA NatMin ==
  ASSUME NEW S \in SUBSET Nat, S # {}
  PROVE  \E m \in S : \A x \in S : m <= x
<1>1. PICK m \in S : \A y \in S : ~(<<y, m>> \in OpToRel(<, Nat))
  BY WFMin, NatLessThanWellFounded
<1>2. \A y \in S : ~(y < m)
  BY <1>1 DEF OpToRel
<1> QED
  BY <1>2

\* A set of naturals with zero and every successor has all of them.
LEMMA NatInductive ==
  ASSUME NEW S \in SUBSET Nat, 0 \in S, \A n \in S : n + 1 \in S
  PROVE  S = Nat
<1> SUFFICES ASSUME Nat \ S # {} PROVE FALSE
  OBVIOUS
<1>1. PICK m \in Nat \ S : \A x \in Nat \ S : m <= x
  <2>1. Nat \ S \in SUBSET Nat
    OBVIOUS
  <2> QED
    BY <2>1, NatMin
<1>2. m # 0 /\ m - 1 \in Nat /\ m - 1 \in S
  BY <1>1
<1> QED
  BY <1>1, <1>2

\* The largest number of a part of 1 .. n, and what is left without it.
LEMMA MaxOfPart ==
  ASSUME NEW n \in Nat, NEW t \in SUBSET (1 .. n), t # {}
  PROVE  /\ Max(t) \in t /\ \A x \in t : x <= Max(t)
         /\ t \ {Max(t)} \in SUBSET (1 .. Max(t) - 1)
<1> DEFINE U == {u \in Nat : \A x \in t : x <= u}
<1>1. \E m \in t : \A x \in t : m >= x
  <2>1. U \in SUBSET Nat /\ n \in U
    OBVIOUS
  <2>2. PICK u \in U : \A w \in U : u <= w
    <3> HIDE DEF U
    <3> QED
      BY <2>1, NatMin
  <2>3. u \in t
    <3> SUFFICES ASSUME u \notin t PROVE FALSE
      OBVIOUS
    <3>1. PICK x \in t : TRUE
      OBVIOUS
    <3>2. x <= u /\ x \in Nat /\ x >= 1
      BY <2>2
    <3>3. u - 1 \in U
      BY <3>2
    <3> QED
      BY <2>2, <3>3
  <2> QED
    BY <2>2, <2>3
<1>2. Max(t) \in t /\ \A x \in t : Max(t) >= x
  BY <1>1 DEF Max
<1>3. \A m \in t : (\A x \in t : m >= x) =>
        (\A x \in t : x <= m) /\ t \ {m} \in SUBSET (1 .. m - 1)
  OBVIOUS
<1> QED
  BY <1>2, <1>3

\* An ascending sequence stays one when a larger number is added.
LEMMA LargerLast ==
  ASSUME NEW n \in Nat, NEW T \in SUBSET (0 .. n - 1), NEW c \in Nat, NEW t \in [1 .. c -> T],
         \A i, j \in 1 .. c : i < j => t[i] < t[j]
  PROVE  \E s \in [1 .. c + 1 -> T \cup {n}] : \A i, j \in 1 .. c + 1 : i < j => s[i] < s[j]
<1> DEFINE s == [i \in 1 .. c + 1 |-> IF i = c + 1 THEN n ELSE t[i]]
<1>1. \A i \in 1 .. c : s[i] = t[i] /\ t[i] \in T /\ t[i] < n
  <2>1. \A x \in T : x < n
    OBVIOUS
  <2>2. \A i \in 1 .. c : t[i] \in T
    OBVIOUS
  <2>3. \A i \in 1 .. c : s[i] = t[i]
    OBVIOUS
  <2> QED
    BY <2>1, <2>2, <2>3
<1>2. s[c + 1] = n
  OBVIOUS
<1>3. s \in [1 .. c + 1 -> T \cup {n}]
  <2>1. \A i \in 1 .. c + 1 : i = c + 1 \/ i \in 1 .. c
    OBVIOUS
  <2> QED
    BY <1>1, <2>1
<1>4. ASSUME NEW i \in 1 .. c + 1, NEW j \in 1 .. c + 1, i < j PROVE s[i] < s[j]
  <2>1. i \in 1 .. c
    BY <1>4
  <2> HIDE DEF s
  <2>2. CASE j = c + 1
    BY <2>1, <2>2, <1>1, <1>2
  <2>3. CASE j # c + 1
    <3>1. j \in 1 .. c
      BY <2>3
    <3> QED
      BY <3>1, <2>1, <1>1, <1>4
  <2> QED
    BY <2>2, <2>3
<1> QED
  BY <1>3, <1>4

\* The numbers below a bound are finitely many, and can be put in ascending order.
LEMMA AscendingBelow ==
  ASSUME NEW b \in Nat, NEW S \in SUBSET (0 .. b - 1)
  PROVE  /\ IsFiniteSet(S) /\ Cardinality(S) \in Nat
         /\ \E s \in [1 .. Cardinality(S) -> S] : \A i, j \in 1 .. Cardinality(S) : i < j => s[i] < s[j]
<1> DEFINE Sorted(R) ==
             /\ IsFiniteSet(R) /\ Cardinality(R) \in Nat
             /\ \E s \in [1 .. Cardinality(R) -> R] : \A i, j \in 1 .. Cardinality(R) : i < j => s[i] < s[j]
           Good == {n \in Nat : \A R \in SUBSET (0 .. n - 1) : Sorted(R)}
<1>1. Sorted({})
  <2>1. IsFiniteSet({}) /\ Cardinality({}) = 0
    BY FS_EmptySet
  <2>2. [i \in 1 .. 0 |-> i] \in [1 .. 0 -> {}] /\ \A i \in 1 .. 0 : FALSE
    OBVIOUS
  <2>3. ASSUME NEW c, c = 0
        PROVE  \E s \in [1 .. c -> {}] : \A i, j \in 1 .. c : i < j => s[i] < s[j]
    BY <2>2, <2>3
  <2>4. \E s \in [1 .. Cardinality({}) -> {}] : \A i, j \in 1 .. Cardinality({}) : i < j => s[i] < s[j]
    BY <2>1, <2>3
  <2> QED
    BY <2>1, <2>4
<1>2. ASSUME NEW n \in Nat, \A R \in SUBSET (0 .. n - 1) : Sorted(R), NEW R \in SUBSET (0 .. n)
      PROVE  Sorted(R)
  <2> HIDE DEF Sorted
  <2> DEFINE T == R \ {n}
  <2>1. T \in SUBSET (0 .. n - 1) /\ n \notin T
    OBVIOUS
  <2>2. Sorted(T)
    BY <2>1, <1>2
  <2>3. CASE n \notin R
    <3>1. R = T
      BY <2>3
    <3> QED
      BY <3>1, <2>2
  <2>4. CASE n \in R
    <3>1. R = T \cup {n}
      BY <2>4
    <3> HIDE DEF T
    <3>2. IsFiniteSet(R) /\ Cardinality(R) = Cardinality(T) + 1 /\ Cardinality(T) \in Nat
      BY <3>1, <2>1, <2>2, FS_AddElement DEF Sorted
    <3>3. \E s \in [1 .. Cardinality(T) + 1 -> T \cup {n}] :
            \A i, j \in 1 .. Cardinality(T) + 1 : i < j => s[i] < s[j]
      BY <2>1, <2>2, <3>2, LargerLast DEF Sorted
    <3>4. Cardinality(R) \in Nat
      BY <3>2
    <3> QED
      BY <3>1, <3>2, <3>3, <3>4 DEF Sorted
  <2> QED
    BY <2>3, <2>4
<1>3. Good = Nat
  <2> HIDE DEF Sorted
  <2>1. 0 \in Good
    <3>1. \A R \in SUBSET (0 .. 0 - 1) : R = {}
      OBVIOUS
    <3> QED
      BY <3>1, <1>1
  <2>2. ASSUME NEW n \in Good PROVE n + 1 \in Good
    <3>1. n \in Nat /\ \A R \in SUBSET (0 .. n - 1) : Sorted(R)
      OBVIOUS
    <3>2. \A R \in SUBSET (0 .. n) : Sorted(R)
      BY <3>1, <1>2
    <3>3. 0 .. (n + 1) - 1 = 0 .. n
      BY <3>1
    <3> QED
      BY <3>1, <3>2, <3>3
  <2>3. Good \in SUBSET Nat
    OBVIOUS
  <2> HIDE DEF Good
  <2> QED
    BY <2>1, <2>2, <2>3, NatInductive
<1>4. Sorted(S)
  <2> HIDE DEF Sorted
  <2> QED
    BY <1>3
<1> QED
  BY <1>4

------------------------------------------------------------------------------
(***************************************************************************)
(* What lowering makes of a kernel.                                        *)
(***************************************************************************)
\* The operators that the promise has from the library are those of the model.
LEMMA SameOperators ==
  ASSUME NEW S
  PROVE  Promise!Cardinality(S) = Cardinality(S) /\ Promise!ToSet(S) = ToSet(S) /\ Promise!Max(S) = Max(S)
<1>1. Promise!Cardinality(S) = Cardinality(S)
  BY DEF Promise!Cardinality, Cardinality
<1>2. Promise!ToSet(S) = ToSet(S)
  BY DEF Promise!ToSet, ToSet
<1>3. Promise!Max(S) = Max(S)
  BY DEF Promise!Max, Max
<1> QED
  BY <1>1, <1>2, <1>3

\* The arrays of a kernel in local memory are not empty.
LEMMA LocalSizesPositive ==
  ASSUME NEW k, KernelAsRead(k)
  PROVE  /\ LocalSizes(k) \in Seq(Int)
         /\ \A n \in 1 .. Len(LocalSizes(k)) : LocalSizes(k)[n] > 0
<1>1. CASE k.target = "ptx"
  <2>1. LocalSizes(k) = k.shared
    BY <1>1 DEF LocalSizes
  <2>2. k.shared \in Seq(ToSet(k.shared)) /\ \A n \in DOMAIN k.shared : k.shared[n] \in Nat \ {0}
    BY <1>1 DEF KernelAsRead
  <2>3. DOMAIN k.shared = 1 .. Len(k.shared) /\ Len(k.shared) \in Nat
    BY <2>2
  <2>4. k.shared \in [1 .. Len(k.shared) -> Int]
    BY <2>2, <2>3
  <2> QED
    BY <2>1, <2>2, <2>3, <2>4
<1>2. CASE k.target # "ptx"
  <2> DEFINE S == ToSet(k.shared)
             s == Promise!Ascending(S)
             bounds == Append(s, k.local_size)
             sizes == [n \in 1 .. Len(bounds) - 1 |-> bounds[n + 1] - bounds[n]]
  <2>1. k.local_size \in Nat /\ S \in SUBSET (0 .. k.local_size - 1)
    BY <1>2 DEF KernelAsRead, ToSet
  <2>2. LocalSizes(k) = sizes
    BY <1>2 DEF LocalSizes
  <2>3. IsFiniteSet(S) /\ s \in [1 .. Cardinality(S) -> S] /\ Cardinality(S) \in Nat
        /\ \A i, j \in 1 .. Cardinality(S) : i < j => s[i] < s[j]
    <3> HIDE DEF S
    <3>1. /\ IsFiniteSet(S) /\ Cardinality(S) \in Nat
          /\ \E f \in [1 .. Cardinality(S) -> S] :
               \A i, j \in 1 .. Cardinality(S) : i < j => f[i] < f[j]
      BY <2>1, AscendingBelow
    <3>2. Promise!Cardinality(S) = Cardinality(S)
      BY SameOperators
    <3>3. \E f \in [1 .. Promise!Cardinality(S) -> S] :
            \A i, j \in 1 .. Promise!Cardinality(S) : i < j => f[i] < f[j]
      BY <3>1, <3>2
    <3>4. /\ s \in [1 .. Promise!Cardinality(S) -> S]
          /\ \A i, j \in 1 .. Promise!Cardinality(S) : i < j => s[i] < s[j]
      BY <3>3 DEF Promise!Ascending
    <3> HIDE DEF s
    <3> QED
      BY <3>1, <3>2, <3>4
  <2> HIDE DEF S, s
  <2>4. s \in Seq(S) /\ Len(s) = Cardinality(S)
    BY <2>3
  <2>5. bounds \in Seq(Int) /\ Len(bounds) = Cardinality(S) + 1
        /\ bounds[Cardinality(S) + 1] = k.local_size /\ \A n \in 1 .. Cardinality(S) : bounds[n] = s[n]
    <3>1. s \in [1 .. Cardinality(S) -> Int] /\ k.local_size \in Int
      <4>1. k.local_size \in Int /\ \A x \in S : x \in Int
        BY <2>1
      <4> HIDE DEF bounds
      <4>2. \A i \in 1 .. Cardinality(S) : s[i] \in Int
        BY <4>1, <2>3
      <4>3. s \in [1 .. Cardinality(S) -> Int]
        BY <4>2, <2>3
      <4> QED
        BY <4>1, <4>3
    <3>2. s \in Seq(Int)
      BY <2>3, <3>1
    <3> QED
      BY <3>1, <3>2, <2>3, <2>4
  <2>6. ASSUME NEW n \in 1 .. Cardinality(S) PROVE bounds[n + 1] > bounds[n]
    <3>1. CASE n = Cardinality(S)
      BY <3>1, <2>1, <2>3, <2>5
    <3>2. CASE n # Cardinality(S)
      <4>1. n + 1 \in 1 .. Cardinality(S)
        BY <3>2, <2>3
      <4>2. s[n + 1] \in S /\ s[n] \in S /\ s[n] < s[n + 1]
        BY <4>1, <2>3
      <4> QED
        BY <4>1, <4>2, <2>1, <2>5
    <3> QED
      BY <3>1, <3>2
  <2> HIDE DEF bounds
  <2>7. \A n \in 1 .. Cardinality(S) : bounds[n] \in Int /\ bounds[n + 1] \in Int
    BY <2>3, <2>5
  <2>8. sizes \in [1 .. Cardinality(S) -> Int] /\ \A n \in 1 .. Cardinality(S) : sizes[n] > 0
    BY <2>3, <2>5, <2>6, <2>7
  <2> HIDE DEF sizes
  <2>9. sizes \in Seq(Int) /\ Len(sizes) = Cardinality(S)
    BY <2>3, <2>8
  <2> QED
    BY <2>2, <2>8, <2>9
<1> QED
  BY <1>1, <1>2

------------------------------------------------------------------------------
(***************************************************************************)
(* Lists, and what it does to the places in a list that another one is put *)
(* before it.                                                              *)
(***************************************************************************)
IsList(s) == \E A : s \in Seq(A)

LEMMA Lists ==
  ASSUME NEW s, IsList(s)
  PROVE  Len(s) \in Nat /\ DOMAIN s = 1 .. Len(s)
<1>1. PICK A : s \in Seq(A)
  BY DEF IsList
<1> QED
  BY <1>1

LEMMA Prepended ==
  ASSUME NEW s, NEW t, IsList(s), IsList(t)
  PROVE  /\ IsList(s \o t) /\ Len(s \o t) = Len(s) + Len(t)
         /\ \A j \in 1 .. Len(s) : (s \o t)[j] = s[j]
         /\ \A j \in 1 .. Len(t) : (s \o t)[Len(s) + j] = t[j]
<1>1. PICK A : s \in Seq(A)
  BY DEF IsList
<1>2. PICK B : t \in Seq(B)
  BY DEF IsList
<1>3. s \in Seq(A \cup B) /\ t \in Seq(A \cup B)
  BY <1>1, <1>2
<1>4. s \o t \in Seq(A \cup B)
  BY <1>3
<1> QED
  BY <1>3, <1>4 DEF IsList

\* A function on the places of a list is a list.
LEMMA FunctionIsList ==
  ASSUME NEW s, NEW n \in Nat, DOMAIN s = 1 .. n, s = [i \in 1 .. n |-> s[i]]
  PROVE  IsList(s) /\ Len(s) = n
<1> DEFINE A == {s[i] : i \in 1 .. n}
<1>1. s \in [1 .. n -> A]
  OBVIOUS
<1> HIDE DEF A
<1>2. s \in Seq(A) /\ Len(s) = n
  BY <1>1
<1> QED
  BY <1>2 DEF IsList

------------------------------------------------------------------------------
(***************************************************************************)
(* The parts of an instruction list, at the places after off.              *)
(***************************************************************************)
CodeOps == {"load", "compute", "access"}
DispatchLength(k) == IF k.usesetup THEN 8 ELSE 0

\* The code of the kernel k, behind the stores of its launch parameters.
SourceAt(is, off, k) ==
  /\ k.usesetup => is[off + 1].op = "alloc" /\ is[off + 1].base = "setup"
  /\ \A i \in 1 .. DispatchLength(k) :
       /\ is[off + i].op \in {"alloc", "store"}
       /\ is[off + i].op = "alloc" => is[off + i].base = "setup"
       /\ is[off + i].op = "store" => is[off + i].arg = Promise!Setup
  /\ off + DispatchLength(k) <= Len(is)
  /\ \A i \in off + DispatchLength(k) + 1 .. Len(is) :
       /\ is[i].op \in CodeOps
       /\ is[i].op = "load" => is[i].base = "args" \/ (k.usesetup /\ is[i].base = "setup")

\* The stores of count arguments, arrays with these sizes, and these predicates.
StoresAt(is, off, count) ==
  /\ is[off + 1].op = "alloc" /\ is[off + 1].base = "args"
  /\ \A n \in 1 .. count : is[off + 1 + n].op = "store" /\ is[off + 1 + n].arg = n
LocalsAt(is, off, sizes) ==
  \A n \in 1 .. Len(sizes) : is[off + n].op = "local" /\ is[off + n].size = sizes[n]
InitsAt(is, off, names) ==
  \A n \in 1 .. Len(names) : is[off + n].op = "init" /\ is[off + n].predicate = names[n]

\* A part moves back by the length of what is put before it.
LEMMA PartsMove ==
  ASSUME NEW s, NEW t, IsList(s), IsList(t), NEW off \in Nat
  PROVE  /\ \A k : SourceAt(t, off, k) => SourceAt(s \o t, Len(s) + off, k)
         /\ \A count \in Nat : StoresAt(t, off, count) /\ off + 1 + count <= Len(t) => StoresAt(s \o t, Len(s) + off, count)
         /\ \A sizes : IsList(sizes) /\ LocalsAt(t, off, sizes) /\ off + Len(sizes) <= Len(t)
              => LocalsAt(s \o t, Len(s) + off, sizes)
<1> DEFINE u == s \o t
<1>1. /\ Len(s) \in Nat /\ Len(t) \in Nat /\ Len(u) = Len(s) + Len(t)
      /\ \A j \in 1 .. Len(t) : u[Len(s) + j] = t[j]
  BY Lists, Prepended
<1> HIDE DEF u
<1>2. ASSUME NEW k, SourceAt(t, off, k) PROVE SourceAt(u, Len(s) + off, k)
  <2> DEFINE D == DispatchLength(k)
  <2>1. D \in {0, 8} /\ (k.usesetup => D = 8) /\ off + D <= Len(t)
    BY <1>2 DEF SourceAt, DispatchLength
  <2> HIDE DEF D
  <2>2. \A i \in 1 .. D : u[Len(s) + off + i] = t[off + i]
    <3>1. \A i \in 1 .. D : off + i \in 1 .. Len(t) /\ Len(s) + off + i = Len(s) + (off + i)
      BY <2>1, <1>1
    <3> QED
      BY <3>1, <1>1
  <2>3. \A i \in Len(s) + off + D + 1 .. Len(u) : i - Len(s) \in off + D + 1 .. Len(t) /\ u[i] = t[i - Len(s)]
    <3>1. \A i \in Len(s) + off + D + 1 .. Len(u) :
            i - Len(s) \in off + D + 1 .. Len(t) /\ i - Len(s) \in 1 .. Len(t) /\ i = Len(s) + (i - Len(s))
      BY <2>1, <1>1
    <3> QED
      BY <3>1, <1>1
  <2>4. k.usesetup => u[Len(s) + off + 1].op = "alloc" /\ u[Len(s) + off + 1].base = "setup"
    <3> SUFFICES ASSUME k.usesetup PROVE u[Len(s) + off + 1].op = "alloc" /\ u[Len(s) + off + 1].base = "setup"
      OBVIOUS
    <3>1. 1 \in 1 .. D
      BY <2>1
    <3> QED
      BY <3>1, <2>2, <1>2 DEF SourceAt
  <2>5. Len(s) + off + D <= Len(u)
    BY <2>1, <1>1
  <2>6. \A i \in 1 .. D :
          /\ u[Len(s) + off + i].op \in {"alloc", "store"}
          /\ u[Len(s) + off + i].op = "alloc" => u[Len(s) + off + i].base = "setup"
          /\ u[Len(s) + off + i].op = "store" => u[Len(s) + off + i].arg = Promise!Setup
    BY <2>2, <1>2 DEF SourceAt, D
  <2>7. \A i \in Len(s) + off + D + 1 .. Len(u) :
          /\ u[i].op \in CodeOps
          /\ u[i].op = "load" => u[i].base = "args" \/ (k.usesetup /\ u[i].base = "setup")
    BY <2>3, <1>2 DEF SourceAt, D
  <2> QED
    BY <2>4, <2>5, <2>6, <2>7 DEF SourceAt, D
<1>3. ASSUME NEW count \in Nat, StoresAt(t, off, count), off + 1 + count <= Len(t)
      PROVE  StoresAt(u, Len(s) + off, count)
  <2>1. ASSUME NEW n \in 0 .. count
        PROVE  u[Len(s) + off + 1 + n] = t[off + 1 + n]
    <3>1. n \in Nat /\ n <= count
      BY <1>3
    <3>2. off + 1 + n <= Len(t) /\ off + 1 + n >= 1 /\ off + 1 + n \in Nat
      BY <3>1, <1>1, <1>3
    <3>3. Len(s) + off + 1 + n = Len(s) + (off + 1 + n)
      BY <3>1, <1>1
    <3> QED
      BY <3>2, <3>3, <1>1
  <2>2. u[Len(s) + off + 1] = t[off + 1]
    <3>1. Len(s) + off + 1 + 0 = Len(s) + off + 1 /\ off + 1 + 0 = off + 1 /\ 0 \in 0 .. count
      BY <1>1, <1>3
    <3> QED
      BY <3>1, <2>1
  <2>3. \A n \in 1 .. count : n \in 0 .. count
    BY <1>3
  <2>4. \A n \in 1 .. count : u[Len(s) + off + 1 + n].op = "store" /\ u[Len(s) + off + 1 + n].arg = n
    BY <2>1, <2>3, <1>3 DEF StoresAt
  <2> QED
    BY <2>2, <2>4, <1>3 DEF StoresAt
<1>4. ASSUME NEW sizes, IsList(sizes), LocalsAt(t, off, sizes), off + Len(sizes) <= Len(t)
      PROVE  LocalsAt(u, Len(s) + off, sizes)
  <2>1. \A n \in 1 .. Len(sizes) : u[Len(s) + off + n] = t[off + n]
    <3>1. \A n \in 1 .. Len(sizes) : off + n \in 1 .. Len(t) /\ Len(s) + off + n = Len(s) + (off + n)
      BY <1>4, <1>1, Lists
    <3> QED
      BY <3>1, <1>1
  <2> QED
    BY <2>1, <1>4 DEF LocalsAt
<1> QED
  BY <1>2, <1>3, <1>4 DEF u

------------------------------------------------------------------------------
(***************************************************************************)
(* The passes that are left are the end of one list: the pipeline of AMD   *)
(* is the end of that of PTX.                                              *)
(***************************************************************************)
PassName == {"flow", "argument types", "pointer types", "predicates", "stores", "memory",
             "init predicates", "reset", "fill", "emit"}
PassAt(i) ==
  IF i = 1 THEN "flow" ELSE IF i = 2 THEN "argument types" ELSE IF i = 3 THEN "pointer types"
  ELSE IF i = 4 THEN "predicates" ELSE IF i = 5 THEN "stores" ELSE IF i = 6 THEN "memory"
  ELSE IF i = 7 THEN "init predicates" ELSE IF i = 8 THEN "reset" ELSE IF i = 9 THEN "fill" ELSE "emit"
Rest(n) == [i \in 1 .. n |-> PassAt(10 - n + i)]
PassesOf(k) == IF k.target = "ptx" THEN 10 ELSE 6

LEMMA PassNames == \A i \in Int : PassAt(i) \in PassName
BY DEF PassAt, PassName

\* A list of length n is the function of its elements.
LEMMA ListIsFunction ==
  ASSUME NEW A, NEW s \in Seq(A), NEW n \in Nat, Len(s) = n, NEW r, r \in Seq(A), Len(r) = n,
         \A i \in 1 .. n : s[i] = r[i]
  PROVE  s = r
<1>1. s \in [1 .. n -> A] /\ r \in [1 .. n -> A]
  OBVIOUS
<1> QED
  BY <1>1

LEMMA RestIsList ==
  ASSUME NEW n \in Nat
  PROVE  Rest(n) \in Seq(PassName) /\ Len(Rest(n)) = n /\ \A i \in 1 .. n : Rest(n)[i] = PassAt(10 - n + i)
<1>1. \A i \in 1 .. n : PassAt(10 - n + i) \in PassName
  <2>1. \A i \in 1 .. n : 10 - n + i \in Int
    OBVIOUS
  <2> QED
    BY <2>1, PassNames
<1>2. Rest(n) \in [1 .. n -> PassName]
  BY <1>1 DEF Rest
<1> QED
  BY <1>2 DEF Rest

\* A list of the last n passes is Rest(n).
LEMMA PassesAreRest ==
  ASSUME NEW n \in Nat, NEW s \in Seq(PassName), Len(s) = n, \A i \in 1 .. n : s[i] = PassAt(10 - n + i)
  PROVE  s = Rest(n)
<1>1. /\ Rest(n) \in Seq(PassName) /\ Len(Rest(n)) = n
      /\ \A i \in 1 .. n : s[i] = Rest(n)[i]
  BY RestIsList
<1> QED
  BY <1>1, ListIsFunction

LEMMA PipelineIsRest ==
  ASSUME NEW k
  PROVE  Pipeline(k.target) = Rest(PassesOf(k)) /\ Len(Pipeline(k.target)) = PassesOf(k)
<1> DEFINE P == <<"flow", "argument types", "pointer types", "predicates">>
           T == <<"stores", "memory", "init predicates", "reset", "fill", "emit">>
<1>1. P = [i \in 1 .. 4 |-> PassAt(i)]
  <2>1. DOMAIN P = 1 .. 4 /\ P = [i \in DOMAIN P |-> P[i]]
    OBVIOUS
  <2>2. P[1] = PassAt(1) /\ P[2] = PassAt(2) /\ P[3] = PassAt(3) /\ P[4] = PassAt(4)
    BY DEF PassAt
  <2> HIDE DEF P
  <2>3. \A i \in 1 .. 4 : P[i] = PassAt(i)
    <3>1. \A i \in 1 .. 4 : i = 1 \/ i = 2 \/ i = 3 \/ i = 4
      OBVIOUS
    <3> QED
      BY <3>1, <2>2
  <2> QED
    BY <2>1, <2>3
<1>2. T = [i \in 1 .. 6 |-> PassAt(4 + i)]
  <2>1. DOMAIN T = 1 .. 6 /\ T = [i \in DOMAIN T |-> T[i]]
    OBVIOUS
  <2>2. /\ T[1] = PassAt(5) /\ T[2] = PassAt(6) /\ T[3] = PassAt(7)
        /\ T[4] = PassAt(8) /\ T[5] = PassAt(9) /\ T[6] = PassAt(10)
    BY DEF PassAt
  <2> HIDE DEF T
  <2>3. \A i \in 1 .. 6 : T[i] = PassAt(4 + i)
    <3>1. \A i \in 1 .. 6 : i = 1 \/ i = 2 \/ i = 3 \/ i = 4 \/ i = 5 \/ i = 6
      OBVIOUS
    <3>2. 4 + 1 = 5 /\ 4 + 2 = 6 /\ 4 + 3 = 7 /\ 4 + 4 = 8 /\ 4 + 5 = 9 /\ 4 + 6 = 10
      OBVIOUS
    <3> QED
      BY <3>1, <3>2, <2>2
  <2> QED
    BY <2>1, <2>3
<1> HIDE DEF P, T
<1>5. P \in Seq(PassName) /\ Len(P) = 4 /\ \A i \in 1 .. 4 : P[i] = PassAt(i)
  <2>1. P \in [1 .. 4 -> PassName]
    BY <1>1, PassNames
  <2> QED
    BY <1>1, <2>1
<1>6. T \in Seq(PassName) /\ Len(T) = 6 /\ \A i \in 1 .. 6 : T[i] = PassAt(4 + i)
  <2>1. T \in [1 .. 6 -> PassName]
    BY <1>2, PassNames
  <2> QED
    BY <1>2, <2>1
<1>3. CASE k.target = "ptx"
  <2>1. Pipeline(k.target) = P \o T
    BY <1>3 DEF Pipeline, P, T
  <2>2. /\ P \o T \in Seq(PassName) /\ Len(P \o T) = 10
        /\ \A i \in 1 .. 4 : (P \o T)[i] = P[i]
        /\ \A j \in 1 .. 6 : (P \o T)[4 + j] = T[j]
    <3> HIDE DEF P, T
    <3>1. IsList(P) /\ IsList(T) /\ P \o T \in Seq(PassName)
      BY <1>5, <1>6 DEF IsList
    <3>2. /\ Len(P \o T) = Len(P) + Len(T)
          /\ \A i \in 1 .. Len(P) : (P \o T)[i] = P[i]
          /\ \A j \in 1 .. Len(T) : (P \o T)[Len(P) + j] = T[j]
      BY <3>1, Prepended
    <3>3. Len(P) = 4 /\ Len(T) = 6
      BY <1>5, <1>6
    <3> QED
      BY <3>1, <3>2, <3>3
  <2> DEFINE u == P \o T
  <2> HIDE DEF u
  <2>3. \A i \in 1 .. 10 : u[i] = PassAt(10 - 10 + i)
    <3>1. ASSUME NEW i \in 1 .. 4 PROVE u[i] = PassAt(10 - 10 + i)
      <4>1. 10 - 10 + i = i
        OBVIOUS
      <4> QED
        BY <4>1, <1>5, <2>2 DEF u
    <3>2. ASSUME NEW i \in 5 .. 10 PROVE u[i] = PassAt(10 - 10 + i)
      <4>1. i - 4 \in 1 .. 6 /\ 4 + (i - 4) = i /\ 10 - 10 + i = i
        OBVIOUS
      <4>2. u[4 + (i - 4)] = PassAt(4 + (i - 4))
        BY <4>1, <1>6, <2>2 DEF u
      <4> QED
        BY <4>1, <4>2
    <3>3. \A i \in 1 .. 10 : i \in 1 .. 4 \/ i \in 5 .. 10
      OBVIOUS
    <3> QED
      BY <3>1, <3>2, <3>3
  <2>4. P \o T = Rest(10)
    <3>1. u \in Seq(PassName) /\ Len(u) = 10
      BY <2>2 DEF u
    <3>2. u = Rest(10)
      BY <2>3, <3>1, PassesAreRest
    <3> QED
      BY <3>2 DEF u
  <2> QED
    BY <1>3, <2>1, <2>2, <2>4 DEF PassesOf
<1>4. CASE k.target # "ptx"
  <2>1. Pipeline(k.target) = <<>> \o T
    BY <1>4 DEF Pipeline, T
  <2>2. <<>> \o T = T
    BY <1>6
  <2>3. T = Rest(6)
    BY <1>2 DEF Rest
  <2> QED
    BY <1>6, <1>4, <2>1, <2>2, <2>3 DEF PassesOf
<1> QED
  BY <1>3, <1>4

\* Which pass is next says how many are left; without it one less.
LEMMA NextPass ==
  ASSUME NEW n \in 0 .. 10, passes = Rest(n)
  PROVE  /\ Len(passes) = n /\ (passes = <<>> <=> n = 0)
         /\ \A pass : At(pass) <=> n # 0 /\ pass = PassAt(11 - n)
         /\ n # 0 => Tail(passes) = Rest(n - 1)
<1>1. passes \in Seq(PassName) /\ Len(passes) = n /\ \A i \in 1 .. n : passes[i] = PassAt(10 - n + i)
  <2>1. n \in Nat
    OBVIOUS
  <2> QED
    BY <2>1, RestIsList
<1>2. passes = <<>> <=> n = 0
  BY <1>1
<1>3. n # 0 => Head(passes) = PassAt(11 - n)
  <2> SUFFICES ASSUME n # 0 PROVE passes[1] = PassAt(11 - n)
    BY <1>1, <1>2
  <2>1. 1 \in 1 .. n /\ 10 - n + 1 = 11 - n
    OBVIOUS
  <2> QED
    BY <1>1, <2>1
<1>4. n # 0 => Tail(passes) = Rest(n - 1)
  <2> SUFFICES ASSUME n # 0 PROVE Tail(passes) = Rest(n - 1)
    OBVIOUS
  <2>1. Tail(passes) \in Seq(PassName) /\ Len(Tail(passes)) = n - 1
        /\ \A i \in 1 .. n - 1 : Tail(passes)[i] = passes[i + 1]
    BY <1>1, <1>2
  <2>2. \A i \in 1 .. n - 1 : i + 1 \in 1 .. n /\ 10 - n + (i + 1) = 10 - (n - 1) + i
    OBVIOUS
  <2>3. n - 1 \in Nat
    OBVIOUS
  <2>4. Rest(n - 1) \in Seq(PassName) /\ Len(Rest(n - 1)) = n - 1
        /\ \A i \in 1 .. n - 1 : Rest(n - 1)[i] = PassAt(10 - (n - 1) + i)
    BY <2>3, RestIsList
  <2>5. \A i \in 1 .. n - 1 : Tail(passes)[i] = Rest(n - 1)[i]
    BY <1>1, <2>1, <2>2, <2>4
  <2> QED
    BY <2>1, <2>3, <2>4, <2>5, ListIsFunction
<1> QED
  BY <1>1, <1>2, <1>3, <1>4 DEF At

\* The place of each pass.
LEMMA PassNumber ==
  ASSUME NEW n \in 0 .. 10, passes = Rest(n)
  PROVE  /\ At("flow") <=> n = 10
         /\ At("argument types") <=> n = 9
         /\ At("pointer types") <=> n = 8
         /\ At("predicates") <=> n = 7
         /\ At("stores") <=> n = 6
         /\ At("memory") <=> n = 5
         /\ At("init predicates") <=> n = 4
         /\ At("reset") <=> n = 3
         /\ At("fill") <=> n = 2
         /\ At("emit") <=> n = 1
<1>1. \A pass : At(pass) <=> n # 0 /\ pass = PassAt(11 - n)
  BY NextPass
<1>2. n = 0 \/ n = 1 \/ n = 2 \/ n = 3 \/ n = 4 \/ n = 5 \/ n = 6 \/ n = 7 \/ n = 8 \/ n = 9 \/ n = 10
  OBVIOUS
<1>3. /\ PassAt(1) = "flow" /\ PassAt(2) = "argument types" /\ PassAt(3) = "pointer types"
      /\ PassAt(4) = "predicates" /\ PassAt(5) = "stores" /\ PassAt(6) = "memory"
      /\ PassAt(7) = "init predicates" /\ PassAt(8) = "reset" /\ PassAt(9) = "fill" /\ PassAt(10) = "emit"
  BY DEF PassAt
<1>4. /\ 11 - 1 = 10 /\ 11 - 2 = 9 /\ 11 - 3 = 8 /\ 11 - 4 = 7 /\ 11 - 5 = 6
      /\ 11 - 6 = 5 /\ 11 - 7 = 4 /\ 11 - 8 = 3 /\ 11 - 9 = 2 /\ 11 - 10 = 1
  OBVIOUS
<1>5. At("flow") <=> n = 10
  <2>1. n = 10 => At("flow")
    <3> SUFFICES ASSUME n = 10 PROVE At("flow")
      OBVIOUS
    <3>1. 11 - n = 1 /\ n # 0
      OBVIOUS
    <3>2. "flow" = PassAt(11 - n)
      BY <3>1, <1>3
    <3> QED
      BY <1>1, <3>1, <3>2
  <2>2. n # 10 => ~At("flow")
    BY <1>1, <1>2, <1>3, <1>4
  <2> QED
    BY <2>1, <2>2
<1>6. At("argument types") <=> n = 9
  BY <1>1, <1>2, <1>3, <1>4
<1>7. At("pointer types") <=> n = 8
  BY <1>1, <1>2, <1>3, <1>4
<1>8. At("predicates") <=> n = 7
  BY <1>1, <1>2, <1>3, <1>4
<1>9. At("stores") <=> n = 6
  BY <1>1, <1>2, <1>3, <1>4
<1>10. At("memory") <=> n = 5
  BY <1>1, <1>2, <1>3, <1>4
<1>11. At("init predicates") <=> n = 4
  BY <1>1, <1>2, <1>3, <1>4
<1>12. At("reset") <=> n = 3
  BY <1>1, <1>2, <1>3, <1>4
<1>13. At("fill") <=> n = 2
  BY <1>1, <1>2, <1>3, <1>4
<1>14. At("emit") <=> n = 1
  BY <1>1, <1>2, <1>3, <1>4
<1> QED
  BY <1>5, <1>6, <1>7, <1>8, <1>9, <1>10, <1>11, <1>12, <1>13, <1>14

------------------------------------------------------------------------------
(***************************************************************************)
(* Which arguments a kernel has does not depend on their types.            *)
(***************************************************************************)
LEMMA TypeOfLoadKeepsArguments ==
  ASSUME NEW acc, NEW c
  PROVE  DOMAIN TypeOfLoad(acc, c).args = DOMAIN acc.args
  BY DEF TypeOfLoad, WithType

LEMMA TypeOfAccessKeepsArguments ==
  ASSUME NEW acc, NEW i
  PROVE  DOMAIN TypeOfAccess(acc, i).args = DOMAIN acc.args
  BY DEF TypeOfAccess, Propagate, WithType

\* A property of the parts of 1 .. n that is kept when the largest number is added.
LEMMA PartsInductive ==
  ASSUME NEW n \in Nat, NEW Good \in SUBSET (SUBSET (1 .. n)), {} \in Good,
         \A t \in SUBSET (1 .. n) : t # {} /\ t \ {Max(t)} \in Good => t \in Good
  PROVE  Good = SUBSET (1 .. n)
<1> DEFINE Upto == {m \in Nat : m <= n => SUBSET (1 .. m) \subseteq Good}
<1>1. 0 \in Upto
  <2>1. SUBSET (1 .. 0) = {{}}
    OBVIOUS
  <2> QED
    BY <2>1
<1>2. ASSUME NEW m \in Upto PROVE m + 1 \in Upto
  <2> SUFFICES ASSUME m + 1 <= n, NEW t \in SUBSET (1 .. m + 1), t # {} PROVE t \in Good
    OBVIOUS
  <2>1. m \in Nat /\ SUBSET (1 .. m) \subseteq Good
    OBVIOUS
  <2> HIDE DEF Upto
  <2>2. t \in SUBSET (1 .. n)
    BY <2>1
  <2>3. Max(t) \in 1 .. m + 1 /\ t \ {Max(t)} \in SUBSET (1 .. Max(t) - 1)
    <3>1. m + 1 \in Nat
      BY <2>1
    <3> QED
      BY <3>1, MaxOfPart
  <2>4. \A x \in 1 .. m + 1 : 1 .. x - 1 \subseteq 1 .. m
    BY <2>1
  <2>5. t \ {Max(t)} \in Good
    BY <2>1, <2>3, <2>4
  <2> QED
    BY <2>2, <2>5
<1>3. Upto = Nat
  <2>1. Upto \in SUBSET Nat
    OBVIOUS
  <2> HIDE DEF Upto
  <2> QED
    BY <1>1, <1>2, <2>1, NatInductive
<1>4. n \in Upto
  BY <1>3
<1>5. SUBSET (1 .. n) \subseteq Good
  BY <1>4
<1> HIDE DEF Upto
<1> QED
  BY <1>5

\* Without its largest number, a part of 1 .. m + 1 is a part of 1 .. m.
LEMMA WithoutMax ==
  ASSUME NEW m \in Nat, NEW t \in SUBSET (1 .. m + 1), t # {}
  PROVE  t \ {Max(t)} \in SUBSET (1 .. m)
<1>1. m + 1 \in Nat
  OBVIOUS
<1>2. Max(t) \in t /\ t \ {Max(t)} \in SUBSET (1 .. Max(t) - 1)
  BY <1>1, MaxOfPart
<1>3. \A x \in 1 .. m + 1 : 1 .. x - 1 \subseteq 1 .. m
  OBVIOUS
<1> QED
  BY <1>2, <1>3

\* The folds of the two passes over the instructions keep the arguments.
LEMMA LoadsKeepArguments ==
  ASSUME NEW start, NEW list, IsList(list)
  PROVE  DOMAIN FoldLeft(TypeOfLoad, start, list).args = DOMAIN start.args
<1> DEFINE Row(f, m) == [t \in SUBSET (1 .. m) |->
             IF t = {} THEN start ELSE TypeOfLoad(f[t \ {Max(t)}], list[Max(t)])]
           n == Len(list)
           Defined == {m \in Nat : \E f : f = Row(f, m)}
           fold == CHOOSE f : f = Row(f, n)
<1>1. n \in Nat /\ DOMAIN list = 1 .. n
  BY Lists
<1>2. FoldLeft(TypeOfLoad, start, list) = fold[1 .. n]
  BY <1>1 DEF FoldLeft, MapThenFoldSet
<1>3. 0 \in Defined
  <2> DEFINE f == [t \in SUBSET (1 .. 0) |-> start]
  <2>1. \A t \in SUBSET (1 .. 0) : t = {}
    OBVIOUS
  <2>2. f = Row(f, 0)
    BY <2>1
  <2> HIDE DEF f, Row
  <2> QED
    BY <2>2
<1>4. ASSUME NEW m \in Defined PROVE m + 1 \in Defined
  <2>1. m \in Nat
    OBVIOUS
  <2>2. PICK f : f = Row(f, m)
    OBVIOUS
  <2> DEFINE g == Row(f, m + 1)
  <2>3. ASSUME NEW t \in SUBSET (1 .. m) PROVE g[t] = f[t]
    <3>1. t \in SUBSET (1 .. m + 1)
      BY <2>1
    <3>2. g[t] = IF t = {} THEN start ELSE TypeOfLoad(f[t \ {Max(t)}], list[Max(t)])
      BY <3>1
    <3>3. Row(f, m)[t] = IF t = {} THEN start ELSE TypeOfLoad(f[t \ {Max(t)}], list[Max(t)])
      OBVIOUS
    <3> HIDE DEF Row, g
    <3> QED
      BY <3>2, <3>3, <2>2
  <2>4. ASSUME NEW t \in SUBSET (1 .. m + 1), t # {}
        PROVE  g[t \ {Max(t)}] = f[t \ {Max(t)}]
    <3> HIDE DEF g
    <3> QED
      BY <2>1, <2>3, <2>4, WithoutMax
  <2>5. g = Row(g, m + 1)
    <3>1. \A t \in SUBSET (1 .. m + 1) :
            (IF t = {} THEN start ELSE TypeOfLoad(f[t \ {Max(t)}], list[Max(t)]))
            = IF t = {} THEN start ELSE TypeOfLoad(g[t \ {Max(t)}], list[Max(t)])
      <4> HIDE DEF g
      <4> QED
        BY <2>4
    <3> QED
      BY <3>1
  <2> HIDE DEF g, Row
  <2> QED
    BY <2>1, <2>5
<1>5. n \in Defined
  <2>1. Defined \in SUBSET Nat
    OBVIOUS
  <2> HIDE DEF Defined
  <2> QED
    BY <1>1, <1>3, <1>4, <2>1, NatInductive
<1>6. fold = Row(fold, n)
  <2> HIDE DEF Row
  <2> QED
    BY <1>5
<1> DEFINE Good == {t \in SUBSET (1 .. n) : DOMAIN fold[t].args = DOMAIN start.args}
<1>7. ASSUME NEW t \in SUBSET (1 .. n)
      PROVE  fold[t] = IF t = {} THEN start ELSE TypeOfLoad(fold[t \ {Max(t)}], list[Max(t)])
  <2> HIDE DEF fold
  <2> QED
    BY <1>6
<1> HIDE DEF fold, n
<1>8. Good = SUBSET (1 .. n)
  <2>1. {} \in Good
    BY <1>7
  <2>2. ASSUME NEW t \in SUBSET (1 .. n), t # {}, t \ {Max(t)} \in Good PROVE t \in Good
    BY <1>7, <2>2, TypeOfLoadKeepsArguments
  <2>3. Good \in SUBSET (SUBSET (1 .. n))
    OBVIOUS
  <2> HIDE DEF Good
  <2> QED
    BY <1>1, <2>1, <2>2, <2>3, PartsInductive
<1>9. 1 .. n \in Good
  <2> HIDE DEF Good
  <2> QED
    BY <1>8
<1> QED
  BY <1>2, <1>9

\* The same for accesses.
LEMMA AccessesKeepArguments ==
  ASSUME NEW start, NEW list, IsList(list)
  PROVE  DOMAIN FoldLeft(TypeOfAccess, start, list).args = DOMAIN start.args
<1> DEFINE Row(f, m) == [t \in SUBSET (1 .. m) |->
             IF t = {} THEN start ELSE TypeOfAccess(f[t \ {Max(t)}], list[Max(t)])]
           n == Len(list)
           Defined == {m \in Nat : \E f : f = Row(f, m)}
           fold == CHOOSE f : f = Row(f, n)
<1>1. n \in Nat /\ DOMAIN list = 1 .. n
  BY Lists
<1>2. FoldLeft(TypeOfAccess, start, list) = fold[1 .. n]
  BY <1>1 DEF FoldLeft, MapThenFoldSet
<1>3. 0 \in Defined
  <2> DEFINE f == [t \in SUBSET (1 .. 0) |-> start]
  <2>1. \A t \in SUBSET (1 .. 0) : t = {}
    OBVIOUS
  <2>2. f = Row(f, 0)
    BY <2>1
  <2> HIDE DEF f, Row
  <2> QED
    BY <2>2
<1>4. ASSUME NEW m \in Defined PROVE m + 1 \in Defined
  <2>1. m \in Nat
    OBVIOUS
  <2>2. PICK f : f = Row(f, m)
    OBVIOUS
  <2> DEFINE g == Row(f, m + 1)
  <2>3. ASSUME NEW t \in SUBSET (1 .. m) PROVE g[t] = f[t]
    <3>1. t \in SUBSET (1 .. m + 1)
      BY <2>1
    <3>2. g[t] = IF t = {} THEN start ELSE TypeOfAccess(f[t \ {Max(t)}], list[Max(t)])
      BY <3>1
    <3>3. Row(f, m)[t] = IF t = {} THEN start ELSE TypeOfAccess(f[t \ {Max(t)}], list[Max(t)])
      OBVIOUS
    <3> HIDE DEF Row, g
    <3> QED
      BY <3>2, <3>3, <2>2
  <2>4. ASSUME NEW t \in SUBSET (1 .. m + 1), t # {}
        PROVE  g[t \ {Max(t)}] = f[t \ {Max(t)}]
    <3> HIDE DEF g
    <3> QED
      BY <2>1, <2>3, <2>4, WithoutMax
  <2>5. g = Row(g, m + 1)
    <3>1. \A t \in SUBSET (1 .. m + 1) :
            (IF t = {} THEN start ELSE TypeOfAccess(f[t \ {Max(t)}], list[Max(t)]))
            = IF t = {} THEN start ELSE TypeOfAccess(g[t \ {Max(t)}], list[Max(t)])
      <4> HIDE DEF g
      <4> QED
        BY <2>4
    <3> QED
      BY <3>1
  <2> HIDE DEF g, Row
  <2> QED
    BY <2>1, <2>5
<1>5. n \in Defined
  <2>1. Defined \in SUBSET Nat
    OBVIOUS
  <2> HIDE DEF Defined
  <2> QED
    BY <1>1, <1>3, <1>4, <2>1, NatInductive
<1>6. fold = Row(fold, n)
  <2> HIDE DEF Row
  <2> QED
    BY <1>5
<1> DEFINE Good == {t \in SUBSET (1 .. n) : DOMAIN fold[t].args = DOMAIN start.args}
<1>7. ASSUME NEW t \in SUBSET (1 .. n)
      PROVE  fold[t] = IF t = {} THEN start ELSE TypeOfAccess(fold[t \ {Max(t)}], list[Max(t)])
  <2> HIDE DEF fold
  <2> QED
    BY <1>6
<1> HIDE DEF fold, n
<1>8. Good = SUBSET (1 .. n)
  <2>1. {} \in Good
    BY <1>7
  <2>2. ASSUME NEW t \in SUBSET (1 .. n), t # {}, t \ {Max(t)} \in Good PROVE t \in Good
    BY <1>7, <2>2, TypeOfAccessKeepsArguments
  <2>3. Good \in SUBSET (SUBSET (1 .. n))
    OBVIOUS
  <2> HIDE DEF Good
  <2> QED
    BY <1>1, <2>1, <2>2, <2>3, PartsInductive
<1>9. 1 .. n \in Good
  <2> HIDE DEF Good
  <2> QED
    BY <1>8
<1> QED
  BY <1>2, <1>9

------------------------------------------------------------------------------
(***************************************************************************)
(* The lists that lowering and the passes put together.                    *)
(***************************************************************************)
LEMMA OverFields ==
  ASSUME NEW c, NEW i
  PROVE  /\ "op" \in DOMAIN c => Over(c, [at |-> i]).op = c.op
         /\ "base" \in DOMAIN c => Over(c, [at |-> i]).base = c.base
  BY DEF Over

\* The instructions of a kernel that was just lowered.
Lowered(k) == DispatchStores(k) \o [i \in DOMAIN k.code |-> Over(k.code[i], [at |-> i])]

LEMMA DispatchShape ==
  ASSUME NEW k
  PROVE  /\ IsList(DispatchStores(k)) /\ Len(DispatchStores(k)) = DispatchLength(k)
         /\ k.usesetup => DispatchStores(k)[1].op = "alloc" /\ DispatchStores(k)[1].base = "setup"
         /\ \A i \in 1 .. DispatchLength(k) :
              /\ DispatchStores(k)[i].op \in {"alloc", "store"}
              /\ DispatchStores(k)[i].op = "alloc" => DispatchStores(k)[i].base = "setup"
              /\ DispatchStores(k)[i].op = "store" => DispatchStores(k)[i].arg = Promise!Setup
<1> DEFINE alloc == <<[op |-> "alloc", base |-> "setup"]>>
           Store(w) == [op |-> "store", base |-> "setup", arg |-> Promise!Setup,
                        pointer |-> FALSE, type |-> <<"uint", 1>>, offset |-> 4 * (w - 1)]
           stores == [w \in 1 .. 7 |-> Store(w)]
<1>1. IsList(alloc) /\ Len(alloc) = 1 /\ alloc[1].op = "alloc" /\ alloc[1].base = "setup"
  <2>1. alloc \in Seq({[op |-> "alloc", base |-> "setup"]})
    OBVIOUS
  <2> QED
    BY <2>1 DEF IsList
<1>2. /\ IsList(stores) /\ Len(stores) = 7
      /\ \A w \in 1 .. 7 : stores[w].op = "store" /\ stores[w].arg = Promise!Setup
  <2>1. \A w \in 1 .. 7 : stores[w].op = "store" /\ stores[w].arg = Promise!Setup
    OBVIOUS
  <2>2. DOMAIN stores = 1 .. 7 /\ stores = [i \in 1 .. 7 |-> stores[i]]
    OBVIOUS
  <2> HIDE DEF stores
  <2> QED
    BY <2>1, <2>2, FunctionIsList
<1>3. CASE k.usesetup
  <2>1. DispatchStores(k) = alloc \o stores /\ DispatchLength(k) = 8
    BY <1>3 DEF DispatchStores, DispatchLength
  <2> HIDE DEF alloc, stores
  <2> DEFINE u == alloc \o stores
  <2>2. /\ IsList(u) /\ Len(u) = Len(alloc) + Len(stores)
        /\ \A j \in 1 .. Len(alloc) : u[j] = alloc[j]
        /\ \A j \in 1 .. Len(stores) : u[Len(alloc) + j] = stores[j]
    <3>1. IsList(alloc) /\ IsList(stores)
      BY <1>1, <1>2
    <3> QED
      BY <3>1, Prepended
  <2> HIDE DEF u
  <2>3. u[1] = alloc[1] /\ Len(u) = 8
    BY <1>1, <1>2, <2>2
  <2>4. ASSUME NEW i \in 2 .. 8
        PROVE  u[i].op = "store" /\ u[i].arg = Promise!Setup
    <3>1. i - 1 \in 1 .. 7 /\ 1 + (i - 1) = i
      OBVIOUS
    <3>2. u[1 + (i - 1)] = stores[i - 1]
      BY <3>1, <1>1, <1>2, <2>2
    <3> QED
      BY <3>1, <3>2, <1>2
  <2>5. \A i \in 1 .. 8 : i = 1 \/ i \in 2 .. 8
    OBVIOUS
  <2>6. u[1].op = "alloc" /\ u[1].base = "setup"
    BY <1>1, <2>3
  <2>7. \A i \in 1 .. 8 :
          /\ u[i].op \in {"alloc", "store"}
          /\ u[i].op = "alloc" => u[i].base = "setup"
          /\ u[i].op = "store" => u[i].arg = Promise!Setup
    BY <2>4, <2>5, <2>6
  <2>8. DispatchStores(k) = u
    BY <2>1 DEF u
  <2> QED
    BY <2>1, <2>2, <2>3, <2>6, <2>7, <2>8
<1>4. CASE ~k.usesetup
  <2>1. DispatchStores(k) = <<>> /\ DispatchLength(k) = 0
    BY <1>4 DEF DispatchStores, DispatchLength
  <2>2. <<>> \in Seq({}) /\ Len(<<>>) = 0
    OBVIOUS
  <2> QED
    BY <1>4, <2>1, <2>2 DEF IsList
<1> QED
  BY <1>3, <1>4

LEMMA LoweredShape ==
  ASSUME NEW k, KernelAsRead(k)
  PROVE  IsList(Lowered(k)) /\ SourceAt(Lowered(k), 0, k)
<1> DEFINE D == DispatchStores(k)
           code == [i \in DOMAIN k.code |-> Over(k.code[i], [at |-> i])]
           n == DispatchLength(k)
<1>1. IsList(k.code) /\ Len(k.code) \in Nat /\ DOMAIN k.code = 1 .. Len(k.code)
  <2>1. IsList(k.code)
    BY DEF KernelAsRead, IsList
  <2> QED
    BY <2>1, Lists
<1>2. IsList(code) /\ Len(code) = Len(k.code)
  <2>1. DOMAIN code = 1 .. Len(k.code) /\ code = [i \in 1 .. Len(k.code) |-> code[i]]
    BY <1>1
  <2> HIDE DEF code
  <2> QED
    BY <1>1, <2>1, FunctionIsList
<1>3. ASSUME NEW i \in 1 .. Len(code)
      PROVE  /\ code[i].op \in CodeOps
             /\ code[i].op = "load" => code[i].base = "args" \/ (k.usesetup /\ code[i].base = "setup")
  <2>1. i \in DOMAIN k.code /\ code[i] = Over(k.code[i], [at |-> i])
    BY <1>1, <1>2
  <2>2. /\ "op" \in DOMAIN k.code[i] /\ k.code[i].op \in CodeOps
        /\ k.code[i].op = "load" => "base" \in DOMAIN k.code[i]
        /\ k.code[i].op = "load" => k.code[i].base = "args" \/ (k.usesetup /\ k.code[i].base = "setup")
    BY <2>1 DEF KernelAsRead, CodeOps
  <2> HIDE DEF code
  <2> QED
    BY <2>1, <2>2, OverFields
<1> HIDE DEF code, D
<1>4. /\ IsList(D) /\ Len(D) = n
      /\ k.usesetup => D[1].op = "alloc" /\ D[1].base = "setup"
      /\ \A i \in 1 .. n :
           /\ D[i].op \in {"alloc", "store"}
           /\ D[i].op = "alloc" => D[i].base = "setup"
           /\ D[i].op = "store" => D[i].arg = Promise!Setup
  BY DispatchShape DEF D
<1> DEFINE u == D \o code
<1>5. /\ IsList(u) /\ Len(u) = Len(D) + Len(code)
      /\ \A j \in 1 .. Len(D) : u[j] = D[j]
      /\ \A j \in 1 .. Len(code) : u[Len(D) + j] = code[j]
  BY <1>2, <1>4, Prepended
<1> HIDE DEF u
<1>6. n \in {0, 8} /\ (k.usesetup => n = 8) /\ 0 + n = n /\ 0 + 1 = 1
  BY DEF DispatchLength
<1> HIDE DEF n
<1>7. k.usesetup => u[0 + 1].op = "alloc" /\ u[0 + 1].base = "setup"
  <2> SUFFICES ASSUME k.usesetup PROVE u[1].op = "alloc" /\ u[1].base = "setup"
    BY <1>6
  <2>1. 1 \in 1 .. Len(D)
    BY <1>4, <1>6
  <2> QED
    BY <2>1, <1>4, <1>5
<1>8. ASSUME NEW i \in 1 .. n
      PROVE  /\ u[0 + i].op \in {"alloc", "store"}
             /\ u[0 + i].op = "alloc" => u[0 + i].base = "setup"
             /\ u[0 + i].op = "store" => u[0 + i].arg = Promise!Setup
  <2>1. 0 + i = i /\ u[i] = D[i]
    BY <1>4, <1>5, <1>6
  <2> QED
    BY <2>1, <1>4
<1>9. ASSUME NEW i \in 0 + n + 1 .. Len(u)
      PROVE  u[i].op \in CodeOps /\ (u[i].op = "load" => u[i].base = "args" \/ (k.usesetup /\ u[i].base = "setup"))
  <2>1. i - n \in 1 .. Len(code) /\ n + (i - n) = i
    BY <1>1, <1>2, <1>4, <1>5, <1>6
  <2>2. u[n + (i - n)] = code[i - n]
    BY <2>1, <1>4, <1>5
  <2> QED
    BY <2>1, <2>2, <1>3
<1>10. 0 + n <= Len(u)
  BY <1>1, <1>2, <1>4, <1>5, <1>6
<1>11. SourceAt(u, 0, k)
  BY <1>7, <1>8, <1>9, <1>10 DEF SourceAt, n
<1> QED
  BY <1>5, <1>11 DEF u, D, code, Lowered

\* What the passes put before the code: a store per argument, an array, a predicate.
LEMMA ArgumentStoresShape ==
  ASSUME NEW count \in Nat, DOMAIN kernel.args = 1 .. count
  PROVE  IsList(ArgumentStores) /\ Len(ArgumentStores) = count + 1 /\ StoresAt(ArgumentStores, 0, count)
<1> DEFINE alloc == <<[op |-> "alloc", base |-> "args"]>>
           stores == [n \in DOMAIN kernel.args |->
                        [op |-> "store", base |-> "args", arg |-> n, pointer |-> kernel.args[n].pointer,
                         type |-> kernel.args[n].type, offset |-> kernel.args[n].offset]]
           u == alloc \o stores
<1>1. IsList(alloc) /\ Len(alloc) = 1 /\ alloc[1].op = "alloc" /\ alloc[1].base = "args"
  <2>1. alloc \in Seq({[op |-> "alloc", base |-> "args"]})
    OBVIOUS
  <2> QED
    BY <2>1 DEF IsList
<1>2. IsList(stores) /\ Len(stores) = count
      /\ \A n \in 1 .. count : stores[n].op = "store" /\ stores[n].arg = n
  <2>1. \A n \in 1 .. count : stores[n].op = "store" /\ stores[n].arg = n
    OBVIOUS
  <2>2. DOMAIN stores = 1 .. count /\ stores = [i \in 1 .. count |-> stores[i]]
    OBVIOUS
  <2> HIDE DEF stores
  <2> QED
    BY <2>1, <2>2, FunctionIsList
<1>3. ArgumentStores = u
  BY DEF ArgumentStores
<1> HIDE DEF alloc, stores
<1>4. /\ IsList(u) /\ Len(u) = Len(alloc) + Len(stores)
      /\ \A j \in 1 .. Len(alloc) : u[j] = alloc[j]
      /\ \A j \in 1 .. Len(stores) : u[Len(alloc) + j] = stores[j]
  <2>1. IsList(alloc) /\ IsList(stores)
    BY <1>1, <1>2
  <2> QED
    BY <2>1, Prepended
<1> HIDE DEF u
<1>5. u[0 + 1].op = "alloc" /\ u[0 + 1].base = "args" /\ Len(u) = count + 1
  <2>1. u[1] = alloc[1] /\ 0 + 1 = 1
    BY <1>1, <1>4
  <2> QED
    BY <2>1, <1>1, <1>2, <1>4
<1>6. ASSUME NEW n \in 1 .. count PROVE u[0 + 1 + n].op = "store" /\ u[0 + 1 + n].arg = n
  <2>1. u[1 + n] = stores[n] /\ 0 + 1 + n = 1 + n
    BY <1>1, <1>2, <1>4
  <2> QED
    BY <2>1, <1>2
<1> QED
  BY <1>3, <1>4, <1>5, <1>6 DEF StoresAt

LEMMA LocalsShape ==
  ASSUME NEW sizes, IsList(sizes)
  PROVE  LET is == [n \in DOMAIN sizes |-> [op |-> "local", size |-> sizes[n]]]
         IN  IsList(is) /\ Len(is) = Len(sizes) /\ LocalsAt(is, 0, sizes)
<1> DEFINE is == [n \in DOMAIN sizes |-> [op |-> "local", size |-> sizes[n]]]
<1>1. Len(sizes) \in Nat /\ DOMAIN sizes = 1 .. Len(sizes)
  BY Lists
<1>2. DOMAIN is = 1 .. Len(sizes) /\ is = [n \in 1 .. Len(sizes) |-> is[n]]
      /\ \A n \in 1 .. Len(sizes) : is[n].op = "local" /\ is[n].size = sizes[n] /\ 0 + n = n
  BY <1>1
<1> HIDE DEF is
<1>3. IsList(is) /\ Len(is) = Len(sizes)
  BY <1>1, <1>2, FunctionIsList
<1>4. LocalsAt(is, 0, sizes)
  BY <1>2 DEF LocalsAt
<1> QED
  BY <1>3, <1>4 DEF is

LEMMA InitsShape ==
  ASSUME NEW names, IsList(names)
  PROVE  LET is == [n \in DOMAIN names |-> [op |-> "init", predicate |-> names[n]]]
         IN  IsList(is) /\ Len(is) = Len(names) /\ InitsAt(is, 0, names)
<1> DEFINE is == [n \in DOMAIN names |-> [op |-> "init", predicate |-> names[n]]]
<1>1. Len(names) \in Nat /\ DOMAIN names = 1 .. Len(names)
  BY Lists
<1>2. DOMAIN is = 1 .. Len(names) /\ is = [n \in 1 .. Len(names) |-> is[n]]
      /\ \A n \in 1 .. Len(names) : is[n].op = "init" /\ is[n].predicate = names[n] /\ 0 + n = n
  BY <1>1
<1> HIDE DEF is
<1>3. IsList(is) /\ Len(is) = Len(names)
  BY <1>1, <1>2, FunctionIsList
<1>4. InitsAt(is, 0, names)
  BY <1>2 DEF InitsAt
<1> QED
  BY <1>3, <1>4 DEF is

\* A part at the start stays where it is when something follows it.
LEMMA FirstPartStays ==
  ASSUME NEW s, NEW t, IsList(s), IsList(t)
  PROVE  /\ \A count \in Nat : StoresAt(s, 0, count) /\ 1 + count <= Len(s) => StoresAt(s \o t, 0, count)
         /\ \A sizes : IsList(sizes) /\ LocalsAt(s, 0, sizes) /\ Len(sizes) <= Len(s)
              => LocalsAt(s \o t, 0, sizes)
         /\ \A names : IsList(names) /\ InitsAt(s, 0, names) /\ Len(names) <= Len(s)
              => InitsAt(s \o t, 0, names)
<1> DEFINE u == s \o t
<1>1. Len(s) \in Nat /\ \A j \in 1 .. Len(s) : u[j] = s[j]
  BY Lists, Prepended
<1> HIDE DEF u
<1>2. ASSUME NEW count \in Nat, StoresAt(s, 0, count), 1 + count <= Len(s) PROVE StoresAt(u, 0, count)
  <2>1. u[0 + 1] = s[0 + 1]
    <3>1. 0 + 1 \in 1 .. Len(s)
      BY <1>1, <1>2
    <3> QED
      BY <3>1, <1>1
  <2>2. \A n \in 1 .. count : u[0 + 1 + n] = s[0 + 1 + n]
    <3>1. \A n \in 1 .. count : 0 + 1 + n \in 1 .. Len(s)
      BY <1>1, <1>2
    <3> QED
      BY <3>1, <1>1
  <2> QED
    BY <2>1, <2>2, <1>2 DEF StoresAt
<1>3. ASSUME NEW sizes, IsList(sizes), LocalsAt(s, 0, sizes), Len(sizes) <= Len(s) PROVE LocalsAt(u, 0, sizes)
  <2>1. \A n \in 1 .. Len(sizes) : u[0 + n] = s[0 + n]
    <3>1. \A n \in 1 .. Len(sizes) : 0 + n \in 1 .. Len(s)
      BY <1>1, <1>3, Lists
    <3> QED
      BY <3>1, <1>1
  <2> QED
    BY <2>1, <1>3 DEF LocalsAt
<1>4. ASSUME NEW names, IsList(names), InitsAt(s, 0, names), Len(names) <= Len(s) PROVE InitsAt(u, 0, names)
  <2>1. \A n \in 1 .. Len(names) : u[0 + n] = s[0 + n]
    <3>1. \A n \in 1 .. Len(names) : 0 + n \in 1 .. Len(s)
      BY <1>1, <1>4, Lists
    <3> QED
      BY <3>1, <1>1
  <2> QED
    BY <2>1, <1>4 DEF InitsAt
<1> QED
  BY <1>2, <1>3, <1>4 DEF u

------------------------------------------------------------------------------
(***************************************************************************)
(* The invariant: which passes are left, what they have put before the     *)
(* code, and what the decompiler has recorded at its place in the code.    *)
(***************************************************************************)
KernelFields == {"source", "args", "locals", "predicates", "materialized", "instructions"}
DataFields == {"pc", "allocated", "contents", "parts", "signature", "words", "arrays",
               "local_size", "predicates"}

Left == Len(passes)
NumArgs == Len(kernel.source.args)
NumLocals == Len(kernel.locals)
NumPredicates == Len(kernel.predicates)

\* The kernels not lowered, the one in work, and those printed are those of the file.
DriverInv ==
  /\ file \in Files /\ IsList(text) /\ ahead \in Seq(ToSet(file))
  /\ Left \in 0 .. 10 /\ passes = Rest(Left)
  /\ Len(text) + Len(ahead) = Len(file) - (IF Left = 0 THEN 0 ELSE 1)

\* The kernel in work keeps its arguments, arrays and predicates.
LoweredInv ==
  Left # 0 =>
    /\ DOMAIN kernel = KernelFields
    /\ kernel.source \in ToSet(file)
    /\ Left <= PassesOf(kernel.source)
    /\ DOMAIN kernel.args = 1 .. NumArgs
    /\ kernel.locals = LocalSizes(kernel.source)
    /\ kernel.predicates = Predicates(kernel.source)
    /\ IsList(kernel.instructions)

\* Predicates come first, then arrays, arguments and the code, as far as the passes got.
PlacedInv ==
  LET is == kernel.instructions
      k  == kernel.source
  IN  /\ Left \in 6 .. 10 => kernel.materialized = {} /\ SourceAt(is, 0, k)
      /\ Left = 5 => /\ kernel.materialized = {"arguments"}
                     /\ StoresAt(is, 0, NumArgs) /\ SourceAt(is, NumArgs + 1, k)
      /\ Left = 4 => /\ kernel.materialized = {"arguments", "locals"}
                     /\ LocalsAt(is, 0, kernel.locals)
                     /\ StoresAt(is, NumLocals, NumArgs)
                     /\ SourceAt(is, NumLocals + (NumArgs + 1), k)
      /\ Left \in 1 .. 3 => /\ InitsAt(is, 0, kernel.predicates)
                            /\ LocalsAt(is, NumPredicates, kernel.locals)
                            /\ StoresAt(is, NumPredicates + NumLocals, NumArgs)
                            /\ SourceAt(is, NumPredicates + (NumLocals + (NumArgs + 1)), k)

\* How many arrays exist before the instruction at pc.
ArraysBefore(pc) ==
  IF pc <= NumPredicates THEN 0
  ELSE IF pc <= NumPredicates + NumLocals THEN pc - 1 - NumPredicates ELSE NumLocals

\* What the instructions before the current one have recorded.
RecordedInv ==
  /\ DOMAIN data = DataFields /\ data.allocated \subseteq InUse
  /\ Left = 2 =>
       /\ data.pc \in 1 .. Len(kernel.instructions) + 1
       /\ data.predicates = {kernel.predicates[n] : n \in {m \in 1 .. NumPredicates : m < data.pc}}
       /\ data.local_size \in Int
       /\ IsFiniteSet(DOMAIN data.arrays) /\ Cardinality(DOMAIN data.arrays) = ArraysBefore(data.pc)
       /\ \A a \in DOMAIN data.arrays : a \in Int /\ a < data.local_size
       /\ DOMAIN data.signature = {n \in 1 .. NumArgs : NumPredicates + NumLocals + 1 + n < data.pc}
       /\ data.pc > NumPredicates + NumLocals + 1 => "args" \in data.allocated
       /\ kernel.source.usesetup /\ data.pc > NumPredicates + NumLocals + NumArgs + 2
            => "setup" \in data.allocated

DriverIInv == DriverInv /\ LoweredInv /\ PlacedInv /\ RecordedInv

------------------------------------------------------------------------------
(***************************************************************************)
(* Every step keeps the invariant: first the start, and what is common to  *)
(* the passes.                                                             *)
(***************************************************************************)
\* At the start no kernel is in work.
LEMMA DriverStart == ASSUME Init PROVE DriverIInv
<1>1. passes = <<>> /\ Left = 0
  BY DEF Init, Left
<1>2. Rest(0) \in Seq(PassName) /\ Len(Rest(0)) = 0
  BY RestIsList
<1>3. passes = Rest(0)
  BY <1>1, <1>2
<1>4. file \in Files /\ ahead = file /\ text = <<>>
  BY DEF Init
<1>5. file \in Seq(ToSet(file))
  BY <1>4, FilesAssumption
<1>6. IsList(text) /\ Len(text) = 0
  <2>1. <<>> \in Seq({}) /\ Len(<<>>) = 0
    OBVIOUS
  <2> QED BY <2>1, <1>4 DEF IsList
<1>7. DriverInv
  BY <1>1, <1>3, <1>4, <1>5, <1>6 DEF DriverInv
<1>8. LoweredInv /\ PlacedInv
  BY <1>1 DEF LoweredInv, PlacedInv
<1>9. RecordedInv
  BY <1>1 DEF RecordedInv, Init, Fresh, DataFields
<1> QED BY <1>7, <1>8, <1>9 DEF DriverIInv

\* A pass that is done is no longer ahead.
LEMMA PassDone ==
  ASSUME DriverInv, Left # 0, Done
  PROVE  Left' = Left - 1 /\ passes' = Rest(Left - 1) /\ Left' \in 0 .. 9
<1>1. Left \in 0 .. 10 /\ passes = Rest(Left)
  BY DEF DriverInv
<1>2. Tail(passes) = Rest(Left - 1)
  BY <1>1, NextPass
<1>3. Left - 1 \in Nat
  BY <1>1
<1>4. Len(Rest(Left - 1)) = Left - 1
  BY <1>3, RestIsList
<1>5. passes' = Rest(Left - 1)
  BY <1>2 DEF Done
<1>6. Left' = Left - 1
  BY <1>4, <1>5 DEF Left
<1>7. Left - 1 \in 0 .. 9
  BY <1>1
<1> QED BY <1>5, <1>6, <1>7

\* The kernels of the file are where they were while one of them is in work.
LEMMA DriverKept ==
  ASSUME DriverInv, UNCHANGED <<file, ahead, text>>, Left # 0,
         Left' \in 1 .. 10, passes' = Rest(Left')
  PROVE  DriverInv'
<1>1. IsList(text')
  BY DEF DriverInv
<1>2. Left' # 0 /\ Left' \in 0 .. 10
  OBVIOUS
<1>3. Len(text') + Len(ahead') = Len(file') - 1
  BY DEF DriverInv
<1> QED BY <1>1, <1>2, <1>3 DEF DriverInv

\* Types are all that changes of the kernel before something is put before the code.
LEMMA KernelKept ==
  ASSUME LoweredInv, PlacedInv, Left # 0, Left' # 0, Left' \in Int, Left \in Int, Left' < Left, UNCHANGED file,
         DOMAIN kernel' = DOMAIN kernel, DOMAIN kernel'.args = DOMAIN kernel.args,
         kernel'.source = kernel.source, kernel'.locals = kernel.locals,
         kernel'.predicates = kernel.predicates, kernel'.instructions = kernel.instructions,
         kernel'.materialized = kernel.materialized,
         Left' \in 6 .. 9 \/ (Left \in 1 .. 3 /\ Left' \in 1 .. 3)
  PROVE  LoweredInv' /\ PlacedInv'
<1>1. PassesOf(kernel.source) \in Int /\ PassesOf(kernel.source)' = PassesOf(kernel.source)
  BY DEF PassesOf
<1>2. Left' <= PassesOf(kernel.source)
  BY <1>1 DEF LoweredInv
<1>3. NumArgs' = NumArgs /\ NumLocals' = NumLocals /\ NumPredicates' = NumPredicates
  BY DEF NumArgs, NumLocals, NumPredicates
<1>4. LoweredInv'
  <2>1. DOMAIN kernel' = KernelFields /\ kernel'.source \in ToSet(file') /\ DOMAIN kernel'.args = 1 .. NumArgs'
    BY <1>3 DEF LoweredInv
  <2>2. kernel'.locals = LocalSizes(kernel'.source) /\ kernel'.predicates = Predicates(kernel'.source)
    BY DEF LoweredInv
  <2>3. IsList(kernel'.instructions)
    BY DEF LoweredInv
  <2> QED BY <1>1, <1>2, <2>1, <2>2, <2>3 DEF LoweredInv
<1>5. CASE Left' \in 6 .. 9
  <2>1. kernel.materialized = {} /\ SourceAt(kernel.instructions, 0, kernel.source)
    <3>1. Left \in 6 .. 10
      <4>1. Left <= 10
        BY DEF LoweredInv, PassesOf
      <4> QED BY <4>1, <1>5
    <3> QED BY <3>1 DEF PlacedInv
  <2> QED BY <2>1, <1>4, <1>5 DEF PlacedInv
<1>6. CASE Left \in 1 .. 3 /\ Left' \in 1 .. 3
  BY <1>3, <1>4, <1>6 DEF PlacedInv
<1> QED BY <1>5, <1>6

\* The kernel in work is one of the file, as the front ends know them.
LEMMA PartsAreLists ==
  ASSUME DriverIInv, Left # 0
  PROVE  /\ KernelAsRead(kernel.source) /\ IsList(kernel.instructions)
         /\ IsList(kernel.locals) /\ IsList(kernel.predicates) /\ IsList(kernel.source.args)
         /\ NumPredicates \in Nat /\ NumLocals \in Nat /\ NumArgs \in Nat
<1>1. DriverInv /\ LoweredInv
  BY DEF DriverIInv
<1>2. KernelAsRead(kernel.source)
  BY <1>1, FilesAssumption DEF DriverInv, LoweredInv
<1>3. IsList(kernel.locals)
  BY <1>1, <1>2, LocalSizesPositive DEF LoweredInv, IsList
<1>4. IsList(kernel.predicates)
  <2>1. kernel.predicates = Predicates(kernel.source)
    BY <1>1 DEF LoweredInv
  <2>2. <<"exec", "vcc", "scc">> \in Seq({"exec", "vcc", "scc"})
    <3>1. DOMAIN <<"exec", "vcc", "scc">> = 1 .. 3
      OBVIOUS
    <3>2. \A i \in 1 .. 3 : <<"exec", "vcc", "scc">>[i] \in {"exec", "vcc", "scc"}
      OBVIOUS
    <3>3. <<"exec", "vcc", "scc">> = [i \in 1 .. 3 |-> <<"exec", "vcc", "scc">>[i]]
      OBVIOUS
    <3> QED BY <3>1, <3>2, <3>3
  <2>3. kernel.source.predicates \in Seq(ToSet(kernel.source.predicates))
    BY <1>2 DEF KernelAsRead
  <2>4. IsList(<<"exec", "vcc", "scc">>) /\ IsList(kernel.source.predicates)
    BY <2>2, <2>3 DEF IsList
  <2> QED BY <2>1, <2>4 DEF Predicates
<1>5. IsList(kernel.source.args)
  BY <1>2 DEF KernelAsRead, IsList
<1>6. IsList(kernel.instructions)
  BY <1>1 DEF LoweredInv
<1> QED BY <1>2, <1>3, <1>4, <1>5, <1>6, Lists DEF NumPredicates, NumLocals, NumArgs

\* Nothing is recorded by a pass that leaves the tables of the decompiler alone.
LEMMA TablesKept ==
  ASSUME RecordedInv, UNCHANGED data, Left' # 2
  PROVE  RecordedInv'
BY DEF RecordedInv

\* The passes on types: the flow of registers is recorded elsewhere.
LEMMA FlowKeeps == ASSUME DriverIInv, BuildRegisterFlow \/ PredicatesPass PROVE DriverIInv'
<1>1. DriverInv /\ LoweredInv /\ PlacedInv /\ RecordedInv
  BY DEF DriverIInv
<1>2. Done /\ UNCHANGED <<file, ahead, kernel, data, text>>
  BY DEF BuildRegisterFlow, PredicatesPass
<1>3. Left \in {10, 7}
  BY <1>1, PassNumber DEF BuildRegisterFlow, PredicatesPass, DriverInv
<1>4. Left' = Left - 1 /\ passes' = Rest(Left')
  BY <1>1, <1>2, <1>3, PassDone
<1>5. DriverInv'
  <2>1. Left' \in 1 .. 10
    BY <1>3, <1>4
  <2> QED BY <1>1, <1>2, <1>3, <1>4, <2>1, DriverKept
<1>6. LoweredInv' /\ PlacedInv'
  <2>1. Left' \in 6 .. 9 /\ Left' < Left /\ Left # 0 /\ Left' # 0 /\ Left \in Int /\ Left' \in Int
    BY <1>3, <1>4
  <2> QED BY <1>1, <1>2, <2>1, KernelKept
<1>7. RecordedInv'
  BY <1>1, <1>2, <1>3, <1>4, TablesKept
<1> QED BY <1>5, <1>6, <1>7 DEF DriverIInv

\* Only the arguments of the kernel change when they get their types.
LEMMA WithArguments ==
  ASSUME NEW args, DOMAIN kernel = KernelFields, kernel' = [kernel EXCEPT !.args = args]
  PROVE  /\ DOMAIN kernel' = DOMAIN kernel /\ kernel'.args = args
         /\ kernel'.source = kernel.source /\ kernel'.locals = kernel.locals
         /\ kernel'.predicates = kernel.predicates /\ kernel'.instructions = kernel.instructions
         /\ kernel'.materialized = kernel.materialized
BY DEF KernelFields

\* Blocks and pointers get types, and stay where they are.
LEMMA TypesKeep == ASSUME DriverIInv, InferArgumentTypes \/ InferPointerTypes PROVE DriverIInv'
<1>1. DriverInv /\ LoweredInv /\ PlacedInv /\ RecordedInv
  BY DEF DriverIInv
<1>2. Done /\ UNCHANGED <<file, ahead, data, text>>
  BY DEF InferArgumentTypes, InferPointerTypes
<1>3. Left \in {9, 8}
  BY <1>1, PassNumber DEF InferArgumentTypes, InferPointerTypes, DriverInv
<1>4. Left' = Left - 1 /\ passes' = Rest(Left')
  BY <1>1, <1>2, <1>3, PassDone
<1>5. DOMAIN kernel = KernelFields /\ IsList(kernel.instructions)
  BY <1>1, <1>3 DEF LoweredInv
<1>6. \E args : kernel' = [kernel EXCEPT !.args = args] /\ DOMAIN args = DOMAIN kernel.args
  <2>1. CASE InferArgumentTypes
    <3> DEFINE start == [args |-> kernel.args, known |-> metadata.blocks]
               result == FoldLeft(TypeOfLoad, start, kernel.instructions)
    <3>1. DOMAIN result.args = DOMAIN start.args
      BY <1>5, LoadsKeepArguments
    <3>2. kernel' = [kernel EXCEPT !.args = result.args]
      BY <2>1 DEF InferArgumentTypes
    <3> QED BY <3>1, <3>2
  <2>2. CASE InferPointerTypes
    <3> DEFINE start == [args |-> kernel.args, known |-> metadata.pointers]
               list == [i \in DOMAIN kernel.instructions |-> i]
               result == FoldLeft(TypeOfAccess, start, list)
    <3>1. IsList(list)
      <4>1. Len(kernel.instructions) \in Nat /\ DOMAIN kernel.instructions = 1 .. Len(kernel.instructions)
        BY <1>5, Lists
      <4>2. DOMAIN list = 1 .. Len(kernel.instructions)
            /\ list = [i \in 1 .. Len(kernel.instructions) |-> list[i]]
        BY <4>1
      <4> HIDE DEF list
      <4> QED BY <4>1, <4>2, FunctionIsList
    <3>2. DOMAIN result.args = DOMAIN start.args
      <4> HIDE DEF start, list
      <4> QED BY <3>1, AccessesKeepArguments
    <3>3. kernel' = [kernel EXCEPT !.args = result.args]
      BY <2>2 DEF InferPointerTypes
    <3> QED BY <3>2, <3>3
  <2> QED BY <2>1, <2>2
<1>7. DriverInv'
  <2>1. Left' \in 1 .. 10
    BY <1>3, <1>4
  <2> QED BY <1>1, <1>2, <1>3, <1>4, <2>1, DriverKept
<1>8. LoweredInv' /\ PlacedInv'
  <2>1. Left' \in 6 .. 9 /\ Left' < Left /\ Left # 0 /\ Left' # 0 /\ Left \in Int /\ Left' \in Int
    BY <1>3, <1>4
  <2>2. PICK args : kernel' = [kernel EXCEPT !.args = args] /\ DOMAIN args = DOMAIN kernel.args
    BY <1>6
  <2>3. /\ DOMAIN kernel' = DOMAIN kernel /\ DOMAIN kernel'.args = DOMAIN kernel.args
        /\ kernel'.source = kernel.source /\ kernel'.locals = kernel.locals
        /\ kernel'.predicates = kernel.predicates /\ kernel'.instructions = kernel.instructions
        /\ kernel'.materialized = kernel.materialized
    BY <1>5, <2>2, WithArguments
  <2> QED BY <1>1, <1>2, <2>1, <2>3, KernelKept
<1>9. RecordedInv'
  BY <1>1, <1>2, <1>3, <1>4, TablesKept
<1> QED BY <1>7, <1>8, <1>9 DEF DriverIInv

\* The reset gives the kernel tables of its own.
LEMMA ResetKeeps == ASSUME DriverIInv, Reset PROVE DriverIInv'
<1>1. DriverInv /\ LoweredInv /\ PlacedInv /\ RecordedInv
  BY DEF DriverIInv
<1>2. Done /\ UNCHANGED <<file, ahead, kernel, text>> /\ data' = Fresh
  BY DEF Reset
<1>3. Left = 3
  BY <1>1, PassNumber DEF Reset, DriverInv
<1>4. Left' = 2 /\ passes' = Rest(Left')
  BY <1>1, <1>2, <1>3, PassDone
<1>5. DriverInv'
  BY <1>1, <1>2, <1>3, <1>4, DriverKept
<1>6. LoweredInv' /\ PlacedInv'
  <2>1. Left \in 1 .. 3 /\ Left' \in 1 .. 3 /\ Left' < Left
    BY <1>3, <1>4
  <2> QED BY <1>1, <1>2, <2>1, KernelKept
<1>7. RecordedInv'
  <2>1. /\ data'.pc = 1 /\ data'.allocated = {} /\ data'.predicates = {} /\ data'.local_size = 0
        /\ data'.arrays = <<>> /\ data'.signature = <<>> /\ DOMAIN data' = DataFields
    BY <1>2 DEF Fresh, DataFields
  <2>2. DOMAIN data'.arrays = {} /\ DOMAIN data'.signature = {}
    BY <2>1
  <2>3. IsFiniteSet({}) /\ Cardinality({}) = 0
    BY FS_EmptySet
  <2>4. /\ NumPredicates' = NumPredicates /\ NumLocals' = NumLocals /\ NumArgs' = NumArgs
        /\ NumPredicates \in Nat /\ NumLocals \in Nat /\ NumArgs \in Nat
    <3>1. NumPredicates \in Nat /\ NumLocals \in Nat /\ NumArgs \in Nat
      BY <1>3, PartsAreLists
    <3>2. kernel' = kernel
      BY <1>2
    <3>3. NumPredicates' = NumPredicates /\ NumLocals' = NumLocals /\ NumArgs' = NumArgs
      BY <3>2 DEF NumPredicates, NumLocals, NumArgs
    <3> QED BY <3>1, <3>3
  <2>5. ArraysBefore(data.pc)' = 0
    <3>1. ArraysBefore(data.pc)' = IF 1 <= NumPredicates THEN 0
                                   ELSE IF 1 <= NumPredicates + NumLocals THEN 1 - 1 - NumPredicates ELSE NumLocals
      BY <2>1, <2>4 DEF ArraysBefore
    <3> QED BY <2>4, <3>1
  <2>6. Len(kernel'.instructions) \in Nat
    BY <1>1, <1>2, <1>3, Lists DEF LoweredInv
  <2>7. data'.pc \in 1 .. Len(kernel'.instructions) + 1
    BY <2>1, <2>6
  <2>8. {kernel'.predicates[n] : n \in {m \in 1 .. NumPredicates' : m < 1}} = {}
    OBVIOUS
  <2>9. {n \in 1 .. NumArgs' : NumPredicates' + NumLocals' + 1 + n < 1} = {}
    BY <2>4
  <2>10. ~(1 > NumPredicates' + NumLocals' + 1) /\ ~(1 > NumPredicates' + NumLocals' + NumArgs' + 2)
    BY <2>4
  <2> QED BY <2>1, <2>2, <2>3, <2>5, <2>7, <2>8, <2>9, <2>10 DEF RecordedInv
<1> QED BY <1>5, <1>6, <1>7 DEF DriverIInv

\* A kernel that is lowered has its code in front, and every pass ahead.
LEMMA LowerKeeps == ASSUME DriverIInv, Lower PROVE DriverIInv'
<1> DEFINE k == Head(ahead)
<1>1. DriverInv /\ LoweredInv /\ PlacedInv /\ RecordedInv
  BY DEF DriverIInv
<1>2. /\ passes = <<>> /\ ahead # <<>> /\ UNCHANGED <<file, metadata, data, text>>
      /\ ahead' = Tail(ahead) /\ passes' = Pipeline(k.target)
      /\ kernel' = [source |-> k, args |-> LoweredArguments(k), locals |-> LocalSizes(k),
                    predicates |-> Predicates(k), materialized |-> {}, instructions |-> Lowered(k)]
  BY DEF Lower, Lowered
<1>3. Left = 0
  BY <1>2 DEF Left
<1>4. ahead \in Seq(ToSet(file)) /\ file \in Files /\ IsList(text)
      /\ Len(text) + Len(ahead) = Len(file)
  <2>1. Len(text) + Len(ahead) = Len(file) - 0
    BY <1>1, <1>3 DEF DriverInv
  <2>2. file \in Seq(ToSet(file))
    BY <1>1, FilesAssumption DEF DriverInv
  <2>3. Len(file) \in Nat
    BY <2>2
  <2> QED BY <1>1, <2>1, <2>3 DEF DriverInv
<1>5. k \in ToSet(file) /\ ahead' \in Seq(ToSet(file)) /\ Len(ahead') = Len(ahead) - 1 /\ Len(ahead) \in Nat
  BY <1>2, <1>4
<1>6. KernelAsRead(k)
  BY <1>4, <1>5, FilesAssumption
<1>7. PassesOf(k) \in {6, 10} /\ passes' = Rest(PassesOf(k)) /\ Left' = PassesOf(k)
  BY <1>2, PipelineIsRest DEF PassesOf, Left
<1>8. DriverInv'
  <2>1. Len(text) \in Nat
    BY <1>4, Lists
  <2>2. Len(text') + Len(ahead') = Len(file') - 1
    BY <1>2, <1>4, <1>5, <2>1
  <2>3. Left' \in 0 .. 10 /\ Left' # 0 /\ passes' = Rest(Left')
    BY <1>7
  <2> QED BY <1>2, <1>4, <1>5, <2>2, <2>3 DEF DriverInv
<1>9. /\ DOMAIN kernel' = KernelFields /\ kernel'.source = k /\ kernel'.materialized = {}
      /\ kernel'.args = LoweredArguments(k) /\ kernel'.locals = LocalSizes(k)
      /\ kernel'.predicates = Predicates(k) /\ kernel'.instructions = Lowered(k)
  <2> HIDE DEF k
  <2> QED BY <1>2 DEF KernelFields
<1>10. DOMAIN kernel'.args = 1 .. NumArgs'
  <2>1. k.args \in Seq(ToSet(k.args))
    BY <1>6 DEF KernelAsRead
  <2>2. DOMAIN LoweredArguments(k) = DOMAIN k.args
    BY DEF LoweredArguments
  <2> HIDE DEF k
  <2>3. DOMAIN k.args = 1 .. Len(k.args)
    BY <2>1
  <2>4. NumArgs' = Len(k.args)
    BY <1>9 DEF NumArgs
  <2> QED BY <1>9, <2>2, <2>3, <2>4
<1> HIDE DEF k
<1>11. IsList(Lowered(k)) /\ SourceAt(Lowered(k), 0, k)
  BY <1>6, LoweredShape
<1>12. LoweredInv'
  BY <1>2, <1>5, <1>7, <1>9, <1>10, <1>11 DEF LoweredInv
<1>13. PlacedInv'
  BY <1>7, <1>9, <1>11 DEF PlacedInv
<1>14. RecordedInv'
  <2>1. Left' # 2
    BY <1>7
  <2> QED BY <1>1, <1>2, <2>1, TablesKept
<1> QED BY <1>8, <1>12, <1>13, <1>14 DEF DriverIInv

\* What a part that is put before the code does to the kernel.
LEMMA PrependChanges ==
  ASSUME DOMAIN kernel = KernelFields, NEW part, part \notin kernel.materialized, NEW is, Prepend(part, is)
  PROVE  /\ DOMAIN kernel' = KernelFields /\ kernel'.args = kernel.args
         /\ kernel'.source = kernel.source /\ kernel'.locals = kernel.locals
         /\ kernel'.predicates = kernel.predicates
         /\ kernel'.instructions = is \o kernel.instructions
         /\ kernel'.materialized = kernel.materialized \cup {part}
BY DEF Prepend, KernelFields

\* The parts of a kernel are the same after such a pass.
LEMMA LoweredKept ==
  ASSUME LoweredInv, Left \in 1 .. 10, Left' = Left - 1, Left' # 0, UNCHANGED file,
         DOMAIN kernel' = KernelFields, kernel'.args = kernel.args,
         kernel'.source = kernel.source, kernel'.locals = kernel.locals,
         kernel'.predicates = kernel.predicates, IsList(kernel'.instructions)
  PROVE  LoweredInv' /\ NumArgs' = NumArgs /\ NumLocals' = NumLocals /\ NumPredicates' = NumPredicates
<1>1. NumArgs' = NumArgs /\ NumLocals' = NumLocals /\ NumPredicates' = NumPredicates
  BY DEF NumArgs, NumLocals, NumPredicates
<1>2. PassesOf(kernel'.source) \in Int /\ PassesOf(kernel'.source) = PassesOf(kernel.source)
  BY DEF PassesOf
<1>3. Left <= PassesOf(kernel.source) /\ Left \in Int
  BY DEF LoweredInv
<1>4. Left' <= PassesOf(kernel'.source)
  BY <1>2, <1>3
<1>5. DOMAIN kernel'.args = 1 .. NumArgs'
  BY <1>1 DEF LoweredInv
<1>6. kernel'.source \in ToSet(file')
  BY DEF LoweredInv
<1>7. kernel'.locals = LocalSizes(kernel'.source) /\ kernel'.predicates = Predicates(kernel'.source)
  BY DEF LoweredInv
<1> QED BY <1>1, <1>4, <1>5, <1>6, <1>7 DEF LoweredInv

\* Arguments are stored before the code reads them.
LEMMA ArgumentStoresKeep == ASSUME DriverIInv, MaterializeArgumentStores PROVE DriverIInv'
<1>1. DriverInv /\ LoweredInv /\ PlacedInv /\ RecordedInv
  BY DEF DriverIInv
<1>2. Done /\ UNCHANGED <<file, ahead, data, text>> /\ Prepend("arguments", ArgumentStores)
  BY DEF MaterializeArgumentStores
<1>3. Left = 6
  BY <1>1, PassNumber DEF MaterializeArgumentStores, DriverInv
<1>4. Left' = 5 /\ passes' = Rest(Left')
  BY <1>1, <1>2, <1>3, PassDone
<1>5. DOMAIN kernel = KernelFields /\ kernel.materialized = {} /\ SourceAt(kernel.instructions, 0, kernel.source)
      /\ DOMAIN kernel.args = 1 .. NumArgs
  BY <1>1, <1>3 DEF LoweredInv, PlacedInv
<1>6. IsList(kernel.instructions) /\ NumArgs \in Nat
  BY <1>3, PartsAreLists
<1>7. IsList(ArgumentStores) /\ Len(ArgumentStores) = NumArgs + 1 /\ StoresAt(ArgumentStores, 0, NumArgs)
  BY <1>5, <1>6, ArgumentStoresShape
<1>8. /\ DOMAIN kernel' = KernelFields /\ kernel'.args = kernel.args
      /\ kernel'.source = kernel.source /\ kernel'.locals = kernel.locals
      /\ kernel'.predicates = kernel.predicates
      /\ kernel'.instructions = ArgumentStores \o kernel.instructions
      /\ kernel'.materialized = {"arguments"}
  BY <1>2, <1>5, PrependChanges
<1>9. IsList(kernel'.instructions)
  BY <1>6, <1>7, <1>8, Prepended
<1>10. LoweredInv' /\ NumArgs' = NumArgs
  <2>1. Left \in 1 .. 10 /\ Left' = Left - 1 /\ Left' # 0
    BY <1>3, <1>4
  <2> QED BY <1>1, <1>2, <1>8, <1>9, <2>1, LoweredKept
<1>11. DriverInv'
  BY <1>1, <1>2, <1>3, <1>4, DriverKept
<1>12. PlacedInv'
  <2>1. StoresAt(kernel'.instructions, 0, NumArgs)
    <3>1. 1 + NumArgs <= Len(ArgumentStores)
      BY <1>6, <1>7
    <3> QED BY <1>6, <1>7, <1>8, <3>1, FirstPartStays
  <2>2. SourceAt(kernel'.instructions, NumArgs + 1, kernel'.source)
    <3>1. SourceAt(ArgumentStores \o kernel.instructions, Len(ArgumentStores) + 0, kernel.source)
      BY <1>5, <1>6, <1>7, PartsMove
    <3>2. Len(ArgumentStores) + 0 = NumArgs + 1
      BY <1>6, <1>7
    <3> QED BY <3>1, <3>2, <1>8
  <2> QED BY <1>4, <1>8, <1>10, <2>1, <2>2 DEF PlacedInv
<1>13. RecordedInv'
  BY <1>1, <1>2, <1>4, TablesKept
<1> QED BY <1>10, <1>11, <1>12, <1>13 DEF DriverIInv

\* Arrays exist before arguments are stored.
LEMMA MemoryKeeps == ASSUME DriverIInv, MaterializeMemory PROVE DriverIInv'
<1> DEFINE is == [n \in DOMAIN kernel.locals |-> [op |-> "local", size |-> kernel.locals[n]]]
<1>1. DriverInv /\ LoweredInv /\ PlacedInv /\ RecordedInv
  BY DEF DriverIInv
<1>2. Done /\ UNCHANGED <<file, ahead, data, text>> /\ Prepend("locals", is)
  BY DEF MaterializeMemory
<1>3. Left = 5
  BY <1>1, PassNumber DEF MaterializeMemory, DriverInv
<1>4. Left' = 4 /\ passes' = Rest(Left')
  BY <1>1, <1>2, <1>3, PassDone
<1>5. /\ DOMAIN kernel = KernelFields /\ kernel.materialized = {"arguments"}
      /\ SourceAt(kernel.instructions, NumArgs + 1, kernel.source)
      /\ StoresAt(kernel.instructions, 0, NumArgs)
  BY <1>1, <1>3 DEF LoweredInv, PlacedInv
<1>6. IsList(kernel.instructions) /\ IsList(kernel.locals) /\ NumArgs \in Nat /\ NumLocals \in Nat
  BY <1>3, PartsAreLists
<1>7. IsList(is) /\ Len(is) = NumLocals /\ LocalsAt(is, 0, kernel.locals)
  BY <1>6, LocalsShape DEF NumLocals
<1> HIDE DEF is
<1>8. /\ DOMAIN kernel' = KernelFields /\ kernel'.args = kernel.args
      /\ kernel'.source = kernel.source /\ kernel'.locals = kernel.locals
      /\ kernel'.predicates = kernel.predicates
      /\ kernel'.instructions = is \o kernel.instructions
      /\ kernel'.materialized = {"arguments", "locals"}
  <2>1. "locals" \notin kernel.materialized
    BY <1>5
  <2> QED BY <1>2, <1>5, <2>1, PrependChanges
<1>9. IsList(kernel'.instructions)
  BY <1>6, <1>7, <1>8, Prepended
<1>10. LoweredInv' /\ NumArgs' = NumArgs /\ NumLocals' = NumLocals
  <2>1. Left \in 1 .. 10 /\ Left' = Left - 1 /\ Left' # 0
    BY <1>3, <1>4
  <2> QED BY <1>1, <1>2, <1>8, <1>9, <2>1, LoweredKept
<1>11. DriverInv'
  BY <1>1, <1>2, <1>3, <1>4, DriverKept
<1>12. Len(kernel.instructions) \in Nat /\ NumArgs + 1 <= Len(kernel.instructions)
  <2>1. Len(kernel.instructions) \in Nat
    BY <1>6, Lists
  <2>2. NumArgs + 1 + DispatchLength(kernel.source) <= Len(kernel.instructions)
    BY <1>5 DEF SourceAt
  <2>3. DispatchLength(kernel.source) \in Nat
    BY DEF DispatchLength
  <2> QED BY <1>6, <2>1, <2>2, <2>3
<1>13. PlacedInv'
  <2>1. LocalsAt(kernel'.instructions, 0, kernel.locals)
    <3>1. Len(kernel.locals) <= Len(is)
      BY <1>6, <1>7 DEF NumLocals
    <3> QED BY <1>6, <1>7, <1>8, <3>1, FirstPartStays
  <2>2. StoresAt(kernel'.instructions, NumLocals, NumArgs)
    <3>1. 0 + 1 + NumArgs <= Len(kernel.instructions)
      BY <1>6, <1>12
    <3>2. StoresAt(is \o kernel.instructions, Len(is) + 0, NumArgs)
      BY <1>5, <1>6, <1>7, <3>1, PartsMove
    <3>3. Len(is) + 0 = NumLocals
      BY <1>6, <1>7
    <3> QED BY <1>8, <3>2, <3>3
  <2>3. SourceAt(kernel'.instructions, NumLocals + (NumArgs + 1), kernel'.source)
    <3>1. NumArgs + 1 \in Nat
      BY <1>6
    <3>2. SourceAt(is \o kernel.instructions, Len(is) + (NumArgs + 1), kernel.source)
      BY <1>5, <1>6, <1>7, <3>1, PartsMove
    <3> QED BY <1>7, <1>8, <3>2
  <2> QED BY <1>4, <1>8, <1>10, <2>1, <2>2, <2>3 DEF PlacedInv
<1>14. RecordedInv'
  BY <1>1, <1>2, <1>4, TablesKept
<1> QED BY <1>10, <1>11, <1>13, <1>14 DEF DriverIInv

\* Predicates exist before everything else.
LEMMA PredicatesKeep == ASSUME DriverIInv, MaterializePredicates PROVE DriverIInv'
<1> DEFINE is == [n \in DOMAIN kernel.predicates |-> [op |-> "init", predicate |-> kernel.predicates[n]]]
<1>1. DriverInv /\ LoweredInv /\ PlacedInv /\ RecordedInv
  BY DEF DriverIInv
<1>2. Done /\ UNCHANGED <<file, ahead, data, text>> /\ Prepend("predicates", is)
  BY DEF MaterializePredicates
<1>3. Left = 4
  BY <1>1, PassNumber DEF MaterializePredicates, DriverInv
<1>4. Left' = 3 /\ passes' = Rest(Left')
  BY <1>1, <1>2, <1>3, PassDone
<1>5. /\ DOMAIN kernel = KernelFields /\ kernel.materialized = {"arguments", "locals"}
      /\ SourceAt(kernel.instructions, NumLocals + (NumArgs + 1), kernel.source)
      /\ StoresAt(kernel.instructions, NumLocals, NumArgs)
      /\ LocalsAt(kernel.instructions, 0, kernel.locals)
  BY <1>1, <1>3 DEF LoweredInv, PlacedInv
<1>6. IsList(kernel.instructions) /\ IsList(kernel.locals) /\ IsList(kernel.predicates)
      /\ NumArgs \in Nat /\ NumLocals \in Nat /\ NumPredicates \in Nat
  BY <1>3, PartsAreLists
<1>7. IsList(is) /\ Len(is) = NumPredicates /\ InitsAt(is, 0, kernel.predicates)
  BY <1>6, InitsShape DEF NumPredicates
<1> HIDE DEF is
<1>8. /\ DOMAIN kernel' = KernelFields /\ kernel'.args = kernel.args
      /\ kernel'.source = kernel.source /\ kernel'.locals = kernel.locals
      /\ kernel'.predicates = kernel.predicates
      /\ kernel'.instructions = is \o kernel.instructions
  <2>1. "predicates" \notin kernel.materialized
    BY <1>5
  <2> QED BY <1>2, <1>5, <2>1, PrependChanges
<1>9. IsList(kernel'.instructions)
  BY <1>6, <1>7, <1>8, Prepended
<1>10. LoweredInv' /\ NumArgs' = NumArgs /\ NumLocals' = NumLocals /\ NumPredicates' = NumPredicates
  <2>1. Left \in 1 .. 10 /\ Left' = Left - 1 /\ Left' # 0
    BY <1>3, <1>4
  <2> QED BY <1>1, <1>2, <1>8, <1>9, <2>1, LoweredKept
<1>11. DriverInv'
  BY <1>1, <1>2, <1>3, <1>4, DriverKept
<1>12. Len(kernel.instructions) \in Nat /\ NumLocals + (NumArgs + 1) <= Len(kernel.instructions)
  <2>1. Len(kernel.instructions) \in Nat
    BY <1>6, Lists
  <2>2. NumLocals + (NumArgs + 1) + DispatchLength(kernel.source) <= Len(kernel.instructions)
    BY <1>5 DEF SourceAt
  <2>3. DispatchLength(kernel.source) \in Nat
    BY DEF DispatchLength
  <2> QED BY <1>6, <2>1, <2>2, <2>3
<1>13. PlacedInv'
  <2>1. InitsAt(kernel'.instructions, 0, kernel.predicates)
    <3>1. Len(kernel.predicates) <= Len(is)
      BY <1>6, <1>7 DEF NumPredicates
    <3> QED BY <1>6, <1>7, <1>8, <3>1, FirstPartStays
  <2>2. LocalsAt(kernel'.instructions, NumPredicates, kernel.locals)
    <3>1. 0 + Len(kernel.locals) <= Len(kernel.instructions)
      <4>1. 0 + NumLocals <= Len(kernel.instructions)
        BY <1>6, <1>12
      <4> QED BY <4>1 DEF NumLocals
    <3>2. LocalsAt(is \o kernel.instructions, Len(is) + 0, kernel.locals)
      BY <1>5, <1>6, <1>7, <3>1, PartsMove
    <3>3. Len(is) + 0 = NumPredicates
      BY <1>6, <1>7
    <3> QED BY <1>8, <3>2, <3>3
  <2>3. StoresAt(kernel'.instructions, NumPredicates + NumLocals, NumArgs)
    <3>1. NumLocals + 1 + NumArgs <= Len(kernel.instructions)
      BY <1>6, <1>12
    <3>2. StoresAt(is \o kernel.instructions, Len(is) + NumLocals, NumArgs)
      BY <1>5, <1>6, <1>7, <3>1, PartsMove
    <3> QED BY <1>7, <1>8, <3>2
  <2>4. SourceAt(kernel'.instructions, NumPredicates + (NumLocals + (NumArgs + 1)), kernel'.source)
    <3>1. NumLocals + (NumArgs + 1) \in Nat
      BY <1>6
    <3>2. SourceAt(is \o kernel.instructions, Len(is) + (NumLocals + (NumArgs + 1)), kernel.source)
      BY <1>5, <1>6, <1>7, <3>1, PartsMove
    <3> QED BY <1>7, <1>8, <3>2
  <2> QED BY <1>4, <1>8, <1>10, <2>1, <2>2, <2>3, <2>4 DEF PlacedInv
<1>14. RecordedInv'
  BY <1>1, <1>2, <1>4, TablesKept
<1> QED BY <1>10, <1>11, <1>13, <1>14 DEF DriverIInv

\* Behind the last instruction the kernel is printed.
LEMMA EndOfCodeKeeps == ASSUME DriverIInv, EndOfCode PROVE DriverIInv'
<1>1. DriverInv /\ LoweredInv /\ PlacedInv /\ RecordedInv
  BY DEF DriverIInv
<1>2. Done /\ UNCHANGED <<file, ahead, kernel, data, text>>
  BY DEF EndOfCode
<1>3. Left = 2
  BY <1>1, PassNumber DEF EndOfCode, DriverInv
<1>4. Left' = 1 /\ passes' = Rest(Left')
  BY <1>1, <1>2, <1>3, PassDone
<1>5. DriverInv'
  BY <1>1, <1>2, <1>3, <1>4, DriverKept
<1>6. LoweredInv' /\ PlacedInv'
  <2>1. Left \in 1 .. 3 /\ Left' \in 1 .. 3 /\ Left' < Left
    BY <1>3, <1>4
  <2> QED BY <1>1, <1>2, <2>1, KernelKept
<1>7. RecordedInv'
  BY <1>1, <1>2, <1>4, TablesKept
<1> QED BY <1>5, <1>6, <1>7 DEF DriverIInv

\* The kernel that was in work is printed, and no other is in work.
LEMMA EmitKeeps == ASSUME DriverIInv, EmitOpenCL PROVE DriverIInv'
<1>1. DriverInv /\ LoweredInv /\ PlacedInv /\ RecordedInv
  BY DEF DriverIInv
<1>2. Done /\ UNCHANGED <<file, ahead, kernel, data>>
  BY DEF EmitOpenCL
<1>3. Left = 1
  BY <1>1, PassNumber DEF EmitOpenCL, DriverInv
<1>4. Left' = 0 /\ passes' = Rest(Left')
  BY <1>1, <1>2, <1>3, PassDone
<1>5. PICK printed : text' = Append(text, printed)
  BY DEF EmitOpenCL
<1>6. IsList(text') /\ Len(text') = Len(text) + 1 /\ Len(text) \in Nat
  <2>1. PICK A : text \in Seq(A)
    BY <1>1 DEF DriverInv, IsList
  <2>2. text \in Seq(A \cup {printed})
    BY <2>1
  <2>3. text' \in Seq(A \cup {printed}) /\ Len(text') = Len(text) + 1 /\ Len(text) \in Nat
    BY <1>5, <2>2
  <2> QED BY <2>3 DEF IsList
<1>7. DriverInv'
  <2>1. file \in Seq(ToSet(file)) /\ ahead \in Seq(ToSet(file))
    BY <1>1, FilesAssumption DEF DriverInv
  <2>2. Len(file) \in Nat /\ Len(ahead) \in Nat
    BY <2>1
  <2>3. Len(text) + Len(ahead) = Len(file) - 1
    BY <1>1, <1>3 DEF DriverInv
  <2>4. Len(text') + Len(ahead') = Len(file') - 0
    BY <1>2, <1>6, <2>2, <2>3
  <2>5. Left' \in 0 .. 10
    BY <1>4
  <2> QED BY <1>1, <1>2, <1>4, <1>6, <2>4, <2>5 DEF DriverInv
<1>8. LoweredInv' /\ PlacedInv'
  BY <1>4 DEF LoweredInv, PlacedInv
<1>9. RecordedInv'
  BY <1>1, <1>2, <1>4, TablesKept
<1> QED BY <1>7, <1>8, <1>9 DEF DriverIInv

------------------------------------------------------------------------------
(***************************************************************************)
(* Execution: the place in the list says what is executed.                 *)
(***************************************************************************)
\* While instructions are executed, the passes and the kernel stay.
LEMMA FillKeeps ==
  ASSUME DriverIInv, Running, Fills
  PROVE  /\ Left = 2 /\ Left' = 2 /\ DriverInv' /\ LoweredInv' /\ PlacedInv'
         /\ NumArgs' = NumArgs /\ NumLocals' = NumLocals /\ NumPredicates' = NumPredicates
         /\ Len(kernel'.instructions) = Len(kernel.instructions)
         /\ kernel' = kernel
<1>1. UNCHANGED <<file, ahead, passes, kernel, text>>
  BY DEF Fills
<1>2. DriverInv /\ LoweredInv /\ PlacedInv
  BY DEF DriverIInv
<1>3. Left = 2
  BY <1>2, PassNumber DEF Running, DriverInv
<1>4. Left' = Left
  BY <1>1 DEF Left
<1>5. NumArgs' = NumArgs /\ NumLocals' = NumLocals /\ NumPredicates' = NumPredicates
  BY <1>1 DEF NumArgs, NumLocals, NumPredicates
<1>6. DriverInv'
  BY <1>1, <1>2, <1>4 DEF DriverInv
<1>7. LoweredInv'
  BY <1>1, <1>2, <1>4, <1>5 DEF LoweredInv
<1>8. PlacedInv'
  BY <1>1, <1>2, <1>4, <1>5 DEF PlacedInv
<1> QED BY <1>1, <1>3, <1>4, <1>5, <1>6, <1>7, <1>8

\* Where the code of the kernel starts, with the stores of its launch parameters.
CodeStart == NumPredicates + NumLocals + NumArgs + 1
\* Predicates, arrays, arguments, launch parameters, code.
LEMMA Place ==
  ASSUME DriverIInv, Running
  PROVE  /\ Left = 2 /\ data.pc \in Nat \ {0} /\ data.pc <= Len(kernel.instructions) /\ Len(kernel.instructions) \in Nat
         /\ data.pc <= NumPredicates => Current.op = "init" /\ Current.predicate = kernel.predicates[data.pc]
         /\ data.pc > NumPredicates /\ data.pc <= NumPredicates + NumLocals
              => /\ Current.op = "local" /\ Current.size \in Int /\ Current.size > 0
         /\ data.pc = NumPredicates + NumLocals + 1 => Current.op = "alloc" /\ Current.base = "args"
         /\ data.pc > NumPredicates + NumLocals + 1 /\ data.pc <= CodeStart
              => Current.op = "store" /\ Current.arg = data.pc - (NumPredicates + NumLocals + 1)
         /\ data.pc > CodeStart /\ data.pc <= CodeStart + DispatchLength(kernel.source)
              => /\ Current.op \in {"alloc", "store"}
                 /\ Current.op = "alloc" => Current.base = "setup"
                 /\ Current.op = "store" => Current.arg = 0
                 /\ data.pc = CodeStart + 1 => Current.op = "alloc"
         /\ data.pc > CodeStart + DispatchLength(kernel.source)
              => /\ Current.op \in CodeOps
                 /\ Current.op = "load" => Current.base = "args" \/ (kernel.source.usesetup /\ Current.base = "setup")
<1> DEFINE is == kernel.instructions
           pc == data.pc
           before == NumPredicates + NumLocals + 1
<1>1. DriverInv /\ LoweredInv /\ PlacedInv /\ RecordedInv
  BY DEF DriverIInv
<1>2. Left = 2
  BY <1>1, PassNumber DEF Running, DriverInv
<1>3. /\ KernelAsRead(kernel.source) /\ IsList(is) /\ IsList(kernel.locals)
      /\ NumPredicates \in Nat /\ NumLocals \in Nat /\ NumArgs \in Nat
  BY <1>2, PartsAreLists
<1>4. Len(is) \in Nat
  BY <1>3, Lists
<1>5. pc \in Nat \ {0} /\ pc <= Len(is)
  <2>1. pc \in 1 .. Len(is) + 1 /\ pc <= Len(is)
    BY <1>1, <1>2 DEF RecordedInv, Running
  <2> QED BY <1>4, <2>1
<1>6. /\ InitsAt(is, 0, kernel.predicates) /\ LocalsAt(is, NumPredicates, kernel.locals)
      /\ StoresAt(is, NumPredicates + NumLocals, NumArgs)
      /\ SourceAt(is, NumPredicates + (NumLocals + (NumArgs + 1)), kernel.source)
  BY <1>1, <1>2 DEF PlacedInv
<1>7. Current = is[pc]
  BY DEF Current
<1> HIDE DEF is, pc
<1>8. ASSUME pc <= NumPredicates PROVE Current.op = "init" /\ Current.predicate = kernel.predicates[pc]
  <2>1. pc \in 1 .. NumPredicates /\ 0 + pc = pc
    BY <1>3, <1>5, <1>8
  <2>2. is[0 + pc].op = "init" /\ is[0 + pc].predicate = kernel.predicates[pc]
    BY <1>6, <2>1 DEF InitsAt, NumPredicates
  <2> QED BY <1>7, <2>1, <2>2
<1>9. ASSUME pc > NumPredicates, pc <= NumPredicates + NumLocals
      PROVE  Current.op = "local" /\ Current.size \in Int /\ Current.size > 0
  <2>1. pc - NumPredicates \in 1 .. NumLocals /\ NumPredicates + (pc - NumPredicates) = pc
    BY <1>3, <1>5, <1>9
  <2>2. \A n \in 1 .. NumLocals : is[NumPredicates + n].op = "local" /\ is[NumPredicates + n].size = kernel.locals[n]
    BY <1>6 DEF LocalsAt, NumLocals
  <2>3. is[pc].op = "local" /\ is[pc].size = kernel.locals[pc - NumPredicates]
    BY <2>1, <2>2
  <2>4. \A n \in 1 .. NumLocals : kernel.locals[n] \in Int /\ kernel.locals[n] > 0
    <3>1. kernel.locals = LocalSizes(kernel.source)
      BY <1>1, <1>2 DEF LoweredInv
    <3>2. kernel.locals \in Seq(Int) /\ \A n \in 1 .. Len(kernel.locals) : kernel.locals[n] > 0
      BY <1>3, <3>1, LocalSizesPositive
    <3> QED BY <3>2 DEF NumLocals
  <2> QED BY <1>7, <2>1, <2>3, <2>4
<1>10. ASSUME pc = before PROVE Current.op = "alloc" /\ Current.base = "args"
  BY <1>6, <1>7, <1>10 DEF StoresAt
<1>11. ASSUME pc > before, pc <= CodeStart PROVE Current.op = "store" /\ Current.arg = pc - before
  <2>1. pc - before \in 1 .. NumArgs /\ before + (pc - before) = pc
    BY <1>3, <1>5, <1>11 DEF CodeStart
  <2>2. \A n \in 1 .. NumArgs : is[before + n].op = "store" /\ is[before + n].arg = n
    BY <1>6 DEF StoresAt
  <2> QED BY <1>7, <2>1, <2>2
<1>12. SourceAt(is, CodeStart, kernel.source)
  <2>1. NumPredicates + (NumLocals + (NumArgs + 1)) = CodeStart
    BY <1>3 DEF CodeStart
  <2> QED BY <1>6, <2>1
<1>13. CodeStart \in Nat
  BY <1>3 DEF CodeStart
<1>14. ASSUME pc > CodeStart, pc <= CodeStart + DispatchLength(kernel.source)
       PROVE  /\ Current.op \in {"alloc", "store"}
              /\ Current.op = "alloc" => Current.base = "setup"
              /\ Current.op = "store" => Current.arg = 0
              /\ pc = CodeStart + 1 => Current.op = "alloc"
  <2>1. DispatchLength(kernel.source) \in Nat
    BY DEF DispatchLength
  <2>2. pc - CodeStart \in 1 .. DispatchLength(kernel.source) /\ CodeStart + (pc - CodeStart) = pc
    BY <1>5, <1>13, <1>14, <2>1
  <2>3. /\ is[pc].op \in {"alloc", "store"}
        /\ is[pc].op = "alloc" => is[pc].base = "setup"
        /\ is[pc].op = "store" => is[pc].arg = 0
    <3>1. \A i \in 1 .. DispatchLength(kernel.source) :
            /\ is[CodeStart + i].op \in {"alloc", "store"}
            /\ is[CodeStart + i].op = "alloc" => is[CodeStart + i].base = "setup"
            /\ is[CodeStart + i].op = "store" => is[CodeStart + i].arg = 0
      BY <1>12 DEF SourceAt, Promise!Setup
    <3> QED BY <2>2, <3>1
  <2>4. pc = CodeStart + 1 => is[pc].op = "alloc"
    <3>1. kernel.source.usesetup
      BY <1>5, <1>13, <1>14 DEF DispatchLength
    <3> QED BY <1>12, <3>1 DEF SourceAt
  <2> QED BY <1>7, <2>3, <2>4
<1>15. ASSUME pc > CodeStart + DispatchLength(kernel.source)
       PROVE  /\ Current.op \in CodeOps
              /\ Current.op = "load" => Current.base = "args" \/ (kernel.source.usesetup /\ Current.base = "setup")
  <2>1. DispatchLength(kernel.source) \in Nat
    BY DEF DispatchLength
  <2>2. pc \in CodeStart + DispatchLength(kernel.source) + 1 .. Len(is)
    BY <1>4, <1>5, <1>13, <1>15, <2>1
  <2> QED BY <1>7, <1>12, <2>2 DEF SourceAt
<1> QED BY <1>2, <1>4, <1>5, <1>8, <1>9, <1>10, <1>11, <1>14, <1>15 DEF pc, is

\* The kind of the instruction that is executed says how far the prefix is done.
LEMMA PlaceOf ==
  ASSUME DriverIInv, Running
  PROVE  /\ Current.op = "init" => data.pc <= NumPredicates /\ Current.predicate = kernel.predicates[data.pc]
         /\ Current.op = "local" => /\ data.pc > NumPredicates /\ data.pc <= NumPredicates + NumLocals
                                    /\ Current.size \in Int /\ Current.size > 0
         /\ Current.op = "alloc" => \/ data.pc = NumPredicates + NumLocals + 1 /\ Current.base = "args"
                                    \/ data.pc > CodeStart /\ Current.base = "setup"
         /\ Current.op = "store" => \/ /\ data.pc > NumPredicates + NumLocals + 1 /\ data.pc <= CodeStart
                                       /\ Current.arg = data.pc - (NumPredicates + NumLocals + 1)
                                    \/ data.pc > CodeStart + 1 /\ Current.arg = 0
         /\ Current.op \in CodeOps => data.pc > CodeStart + DispatchLength(kernel.source)
<1> DEFINE pc == data.pc
<1>1. /\ NumPredicates \in Nat /\ NumLocals \in Nat /\ NumArgs \in Nat /\ pc \in Nat \ {0}
      /\ DispatchLength(kernel.source) \in Nat
  <2>1. Left = 2 /\ pc \in Nat \ {0}
    BY Place
  <2> QED BY <2>1, PartsAreLists DEF DispatchLength
<1> HIDE DEF pc
<1>2. CodeStart = NumPredicates + NumLocals + NumArgs + 1
  BY DEF CodeStart
<1>3. CASE pc <= NumPredicates
  BY <1>3, Place DEF CodeOps, pc
<1>4. CASE pc > NumPredicates /\ pc <= NumPredicates + NumLocals
  BY <1>4, Place DEF CodeOps, pc
<1>5. CASE pc = NumPredicates + NumLocals + 1
  BY <1>5, Place DEF CodeOps, pc
<1>6. CASE pc > NumPredicates + NumLocals + 1 /\ pc <= CodeStart
  BY <1>6, Place DEF CodeOps, pc
<1>7. CASE pc > CodeStart /\ pc <= CodeStart + DispatchLength(kernel.source)
  <2>1. /\ Current.op \in {"alloc", "store"}
        /\ Current.op = "alloc" => Current.base = "setup"
        /\ Current.op = "store" => Current.arg = 0
        /\ pc = CodeStart + 1 => Current.op = "alloc"
    BY <1>7, Place DEF pc
  <2>2. Current.op = "store" => pc > CodeStart + 1
    BY <1>1, <1>2, <1>7, <2>1
  <2> QED BY <1>7, <2>1, <2>2 DEF CodeOps, pc
<1>8. CASE pc > CodeStart + DispatchLength(kernel.source)
  BY <1>8, Place DEF CodeOps, pc
<1>9. \/ pc <= NumPredicates
      \/ pc > NumPredicates /\ pc <= NumPredicates + NumLocals
      \/ pc = NumPredicates + NumLocals + 1
      \/ pc > NumPredicates + NumLocals + 1 /\ pc <= CodeStart
      \/ pc > CodeStart /\ pc <= CodeStart + DispatchLength(kernel.source)
      \/ pc > CodeStart + DispatchLength(kernel.source)
  BY <1>1, <1>2
<1> QED BY <1>3, <1>4, <1>5, <1>6, <1>7, <1>8, <1>9

\* What is recorded when one instruction more has been executed.
LEMMA RecordedStep ==
  ASSUME DriverIInv, Running, Fills, DOMAIN data' = DataFields, data'.pc = data.pc + 1,
         data.allocated \subseteq data'.allocated, data'.allocated \subseteq InUse,
         data.pc = NumPredicates + NumLocals + 1 => "args" \in data'.allocated,
         kernel.source.usesetup /\ data.pc = CodeStart + 1 => "setup" \in data'.allocated,
         data'.predicates = data.predicates \cup (IF data.pc <= NumPredicates THEN {kernel.predicates[data.pc]} ELSE {}),
         \/ data.pc > NumPredicates /\ data.pc <= NumPredicates + NumLocals
            /\ DOMAIN data'.arrays = DOMAIN data.arrays \cup {data.local_size}
            /\ data'.local_size \in Int /\ data'.local_size > data.local_size
         \/ ~(data.pc > NumPredicates /\ data.pc <= NumPredicates + NumLocals)
            /\ data'.arrays = data.arrays /\ data'.local_size = data.local_size,
         DOMAIN data'.signature = DOMAIN data.signature \cup
           {n \in 1 .. NumArgs : NumPredicates + NumLocals + 1 + n = data.pc}
  PROVE  RecordedInv'
<1> DEFINE pc == data.pc
           before == NumPredicates + NumLocals + 1
<1>1. /\ NumPredicates \in Nat /\ NumLocals \in Nat /\ NumArgs \in Nat /\ pc \in Nat \ {0}
      /\ pc <= Len(kernel.instructions) /\ Len(kernel.instructions) \in Nat
  <2>1. Left = 2 /\ pc \in Nat \ {0} /\ pc <= Len(kernel.instructions) /\ Len(kernel.instructions) \in Nat
    BY Place
  <2> QED BY <2>1, PartsAreLists
<1>2. RecordedInv /\ Left = 2
  BY FillKeeps DEF DriverIInv
<1>3. /\ Left' = 2 /\ NumArgs' = NumArgs /\ NumLocals' = NumLocals /\ NumPredicates' = NumPredicates
      /\ kernel' = kernel
  BY FillKeeps
<1>4. data'.pc = pc + 1
  OBVIOUS
<1> HIDE DEF pc
<1>5. data'.pc \in 1 .. Len(kernel'.instructions) + 1
  BY <1>1, <1>3, <1>4
<1>6. data'.predicates = {kernel'.predicates[n] : n \in {m \in 1 .. NumPredicates : m < pc + 1}}
  <2>1. data.predicates = {kernel.predicates[n] : n \in {m \in 1 .. NumPredicates : m < pc}}
    BY <1>2 DEF RecordedInv, pc
  <2>2. data'.predicates = data.predicates \cup (IF pc <= NumPredicates THEN {kernel.predicates[pc]} ELSE {})
    BY DEF pc
  <2>3. {m \in 1 .. NumPredicates : m < pc + 1} =
        {m \in 1 .. NumPredicates : m < pc} \cup (IF pc <= NumPredicates THEN {pc} ELSE {})
    BY <1>1
  <2> QED BY <2>1, <2>2, <2>3, <1>3
<1>7. data'.local_size \in Int /\ \A a \in DOMAIN data'.arrays : a \in Int /\ a < data'.local_size
  <2>1. data.local_size \in Int /\ \A a \in DOMAIN data.arrays : a \in Int /\ a < data.local_size
    BY <1>2 DEF RecordedInv
  <2> QED BY <2>1
<1>8. IsFiniteSet(DOMAIN data'.arrays) /\ Cardinality(DOMAIN data'.arrays) = ArraysBefore(pc + 1)
  <2>1. /\ IsFiniteSet(DOMAIN data.arrays) /\ Cardinality(DOMAIN data.arrays) = ArraysBefore(pc)
        /\ data.local_size \in Int /\ \A a \in DOMAIN data.arrays : a \in Int /\ a < data.local_size
    BY <1>2 DEF RecordedInv, pc
  <2>2. CASE pc > NumPredicates /\ pc <= NumPredicates + NumLocals
    <3>1. DOMAIN data'.arrays = DOMAIN data.arrays \cup {data.local_size}
      BY <2>2 DEF pc
    <3>2. data.local_size \notin DOMAIN data.arrays
      BY <2>1
    <3>3. IsFiniteSet(DOMAIN data'.arrays) /\ Cardinality(DOMAIN data'.arrays) = ArraysBefore(pc) + 1
      <4> DEFINE S == DOMAIN data.arrays
                 x == data.local_size
      <4>1. IsFiniteSet(S) /\ Cardinality(S) = ArraysBefore(pc) /\ x \notin S
        BY <2>1, <3>2
      <4> HIDE DEF S, x
      <4>2. IsFiniteSet(S \cup {x}) /\ Cardinality(S \cup {x}) = Cardinality(S) + 1
        BY <4>1, FS_AddElement
      <4>3. DOMAIN data'.arrays = S \cup {x}
        BY <3>1 DEF S, x
      <4> QED BY <4>1, <4>2, <4>3
    <3>4. ArraysBefore(pc) + 1 = ArraysBefore(pc + 1)
      BY <1>1, <2>2 DEF ArraysBefore
    <3> QED BY <3>3, <3>4
  <2>3. CASE ~(pc > NumPredicates /\ pc <= NumPredicates + NumLocals)
    <3>1. data'.arrays = data.arrays
      BY <2>3 DEF pc
    <3>2. ArraysBefore(pc) = ArraysBefore(pc + 1)
      BY <1>1, <2>3 DEF ArraysBefore
    <3> QED BY <2>1, <3>1, <3>2
  <2> QED BY <2>2, <2>3
<1>9. ArraysBefore(data.pc)' = ArraysBefore(pc + 1)
  BY <1>3, <1>4 DEF ArraysBefore
<1>10. DOMAIN data'.signature = {n \in 1 .. NumArgs : before + n < pc + 1}
  <2>1. DOMAIN data.signature = {n \in 1 .. NumArgs : before + n < pc}
    BY <1>2 DEF RecordedInv, pc
  <2>2. DOMAIN data'.signature = DOMAIN data.signature \cup {n \in 1 .. NumArgs : before + n = pc}
    BY DEF pc
  <2>3. \A n \in 1 .. NumArgs : before + n < pc + 1 <=> before + n < pc \/ before + n = pc
    BY <1>1
  <2> QED BY <2>1, <2>2, <2>3
<1>11. pc + 1 > before => "args" \in data'.allocated
  <2>1. pc > before => "args" \in data.allocated
    BY <1>2 DEF RecordedInv, pc
  <2>2. pc = before => "args" \in data'.allocated
    BY DEF pc
  <2>3. pc + 1 > before => pc > before \/ pc = before
    BY <1>1
  <2> QED BY <2>1, <2>2, <2>3
<1>12. kernel.source.usesetup /\ pc + 1 > NumPredicates + NumLocals + NumArgs + 2 => "setup" \in data'.allocated
  <2>1. kernel.source.usesetup /\ pc > NumPredicates + NumLocals + NumArgs + 2 => "setup" \in data.allocated
    BY <1>2 DEF RecordedInv, pc
  <2>2. kernel.source.usesetup /\ pc = CodeStart + 1 => "setup" \in data'.allocated
    BY DEF pc
  <2>3. pc + 1 > NumPredicates + NumLocals + NumArgs + 2
          => pc > NumPredicates + NumLocals + NumArgs + 2 \/ pc = CodeStart + 1
    BY <1>1 DEF CodeStart
  <2> QED BY <2>1, <2>2, <2>3
<1> QED BY <1>3, <1>4, <1>5, <1>6, <1>7, <1>8, <1>9, <1>10, <1>11, <1>12 DEF RecordedInv

\* An entry more in a dictionary.
LEMMA Extended == \A f, key, value : DOMAIN Extend(f, key, value) = DOMAIN f \cup {key}
BY DEF Extend, Over

\* What instructions of the same part have in common: places, and fields of the tables.
LEMMA Tables ==
  ASSUME DriverIInv, Running
  PROVE  /\ DOMAIN data = DataFields /\ data.allocated \subseteq InUse
         /\ data.local_size \in Int
         /\ NumPredicates \in Nat /\ NumLocals \in Nat /\ NumArgs \in Nat /\ data.pc \in Nat \ {0}
         /\ CodeStart = NumPredicates + NumLocals + NumArgs + 1
         /\ DispatchLength(kernel.source) \in Nat
         /\ kernel.source.usesetup => DispatchLength(kernel.source) = 8
<1>1. Left = 2 /\ data.pc \in Nat \ {0}
  BY Place
<1>2. NumPredicates \in Nat /\ NumLocals \in Nat /\ NumArgs \in Nat
  BY <1>1, PartsAreLists
<1>3. RecordedInv
  BY DEF DriverIInv
<1>4. DOMAIN data = DataFields /\ data.allocated \subseteq InUse /\ data.local_size \in Int
  BY <1>1, <1>3 DEF RecordedInv
<1> QED BY <1>1, <1>2, <1>4 DEF CodeStart, DispatchLength

\* A block of parameters.
LEMMA AllocateKeeps == ASSUME DriverIInv, Allocate PROVE DriverIInv'
<1>1. Running /\ Fills /\ Current.op = "alloc"
  BY DEF Allocate
<1>2. /\ DOMAIN data = DataFields /\ data.allocated \subseteq InUse
      /\ NumPredicates \in Nat /\ NumLocals \in Nat /\ NumArgs \in Nat /\ data.pc \in Nat \ {0}
      /\ CodeStart = NumPredicates + NumLocals + NumArgs + 1
  BY <1>1, Tables
<1>3. /\ DOMAIN data' = DataFields /\ data'.pc = data.pc + 1
      /\ data'.allocated = data.allocated \cup {Current.base}
      /\ data'.predicates = data.predicates /\ data'.arrays = data.arrays
      /\ data'.local_size = data.local_size /\ data'.signature = data.signature
  BY <1>2 DEF Allocate, Advance, DataFields
<1>4. \/ data.pc = NumPredicates + NumLocals + 1 /\ Current.base = "args"
      \/ data.pc > CodeStart /\ Current.base = "setup"
  BY <1>1, PlaceOf
<1>5. kernel.source.usesetup /\ data.pc = CodeStart + 1 => Current.base = "setup"
  BY <1>2, <1>4
<1>6. ~(data.pc <= NumPredicates) /\ ~(data.pc > NumPredicates /\ data.pc <= NumPredicates + NumLocals)
  BY <1>2, <1>4
<1>7. data.pc = NumPredicates + NumLocals + 1 => Current.base = "args"
  BY <1>2, <1>4
<1>8. {n \in 1 .. NumArgs : NumPredicates + NumLocals + 1 + n = data.pc} = {}
  BY <1>2, <1>4
<1>9. data'.predicates = data.predicates \cup (IF data.pc <= NumPredicates THEN {kernel.predicates[data.pc]} ELSE {})
  BY <1>3, <1>6
<1>10. DOMAIN data'.signature = DOMAIN data.signature \cup
         {n \in 1 .. NumArgs : NumPredicates + NumLocals + 1 + n = data.pc}
  BY <1>3, <1>8
<1>11. data'.allocated \subseteq InUse /\ data.allocated \subseteq data'.allocated
  BY <1>2, <1>3, <1>4 DEF InUse
<1>12. RecordedInv'
  BY <1>1, <1>3, <1>5, <1>6, <1>7, <1>9, <1>10, <1>11, RecordedStep
<1> QED BY <1>1, <1>12, FillKeeps DEF DriverIInv

\* An argument or a launch parameter.
LEMMA StoreKeeps == ASSUME DriverIInv, StoreArgument PROVE DriverIInv'
<1>1. Running /\ Fills /\ Current.op = "store"
  BY DEF StoreArgument
<1>2. /\ DOMAIN data = DataFields /\ data.allocated \subseteq InUse
      /\ NumPredicates \in Nat /\ NumLocals \in Nat /\ NumArgs \in Nat /\ data.pc \in Nat \ {0}
      /\ CodeStart = NumPredicates + NumLocals + NumArgs + 1
  BY <1>1, Tables
<1>3. PICK contents, parts :
        data' = Advance([data EXCEPT !.contents = contents, !.parts = parts,
                           !.signature = IF Current.arg = Promise!Setup THEN @ ELSE Extend(@, Current.arg, Current.type)])
  BY DEF StoreArgument
<1>4. /\ DOMAIN data' = DataFields /\ data'.pc = data.pc + 1
      /\ data'.allocated = data.allocated
      /\ data'.predicates = data.predicates /\ data'.arrays = data.arrays
      /\ data'.local_size = data.local_size
      /\ data'.signature = IF Current.arg = 0 THEN data.signature ELSE Extend(data.signature, Current.arg, Current.type)
  BY <1>2, <1>3 DEF Advance, DataFields, Promise!Setup
<1>5. \/ /\ data.pc > NumPredicates + NumLocals + 1 /\ data.pc <= CodeStart
         /\ Current.arg = data.pc - (NumPredicates + NumLocals + 1)
      \/ data.pc > CodeStart + 1 /\ Current.arg = 0
  BY <1>1, PlaceOf
<1>6. /\ ~(data.pc <= NumPredicates) /\ ~(data.pc > NumPredicates /\ data.pc <= NumPredicates + NumLocals)
      /\ data.pc # NumPredicates + NumLocals + 1 /\ data.pc # CodeStart + 1
  BY <1>2, <1>5
<1>7. DOMAIN data'.signature = DOMAIN data.signature \cup
        {n \in 1 .. NumArgs : NumPredicates + NumLocals + 1 + n = data.pc}
  <2>1. CASE /\ data.pc > NumPredicates + NumLocals + 1 /\ data.pc <= CodeStart
             /\ Current.arg = data.pc - (NumPredicates + NumLocals + 1)
    <3>1. Current.arg \in 1 .. NumArgs /\ Current.arg # 0
      BY <1>2, <2>1
    <3>2. {n \in 1 .. NumArgs : NumPredicates + NumLocals + 1 + n = data.pc} = {Current.arg}
      BY <1>2, <2>1, <3>1
    <3>3. data'.signature = Extend(data.signature, Current.arg, Current.type)
      BY <1>4, <3>1
    <3>4. DOMAIN Extend(data.signature, Current.arg, Current.type) = DOMAIN data.signature \cup {Current.arg}
      BY Extended
    <3> QED BY <3>2, <3>3, <3>4
  <2>2. CASE data.pc > CodeStart + 1 /\ Current.arg = 0
    <3>1. {n \in 1 .. NumArgs : NumPredicates + NumLocals + 1 + n = data.pc} = {}
      BY <1>2, <2>2
    <3> QED BY <1>4, <2>2, <3>1
  <2> QED BY <1>5, <2>1, <2>2
<1>8. data'.predicates = data.predicates \cup (IF data.pc <= NumPredicates THEN {kernel.predicates[data.pc]} ELSE {})
  BY <1>4, <1>6
<1>9. RecordedInv'
  BY <1>1, <1>2, <1>4, <1>6, <1>7, <1>8, RecordedStep
<1> QED BY <1>1, <1>9, FillKeeps DEF DriverIInv

\* An array in local memory: it starts where those before it end.
LEMMA LocalKeeps == ASSUME DriverIInv, InitLocal PROVE DriverIInv'
<1>1. Running /\ Fills /\ Current.op = "local"
  BY DEF InitLocal
<1>2. /\ DOMAIN data = DataFields /\ data.allocated \subseteq InUse /\ data.local_size \in Int
      /\ NumPredicates \in Nat /\ NumLocals \in Nat /\ NumArgs \in Nat /\ data.pc \in Nat \ {0}
      /\ CodeStart = NumPredicates + NumLocals + NumArgs + 1
  BY <1>1, Tables
<1>3. /\ data.pc > NumPredicates /\ data.pc <= NumPredicates + NumLocals
      /\ Current.size \in Int /\ Current.size > 0
  BY <1>1, PlaceOf
<1>4. /\ DOMAIN data' = DataFields /\ data'.pc = data.pc + 1
      /\ data'.allocated = data.allocated /\ data'.predicates = data.predicates
      /\ data'.arrays = Extend(data.arrays, data.local_size, "array")
      /\ data'.local_size = data.local_size + Current.size /\ data'.signature = data.signature
  BY <1>2 DEF InitLocal, Advance, DataFields
<1>5. /\ ~(data.pc <= NumPredicates)
      /\ data.pc # NumPredicates + NumLocals + 1 /\ data.pc # CodeStart + 1
  BY <1>2, <1>3
<1>6. {n \in 1 .. NumArgs : NumPredicates + NumLocals + 1 + n = data.pc} = {}
  BY <1>2, <1>3
<1>7. /\ DOMAIN data'.arrays = DOMAIN data.arrays \cup {data.local_size}
      /\ data'.local_size \in Int /\ data'.local_size > data.local_size
  <2>1. DOMAIN data'.arrays = DOMAIN data.arrays \cup {data.local_size}
    <3>1. DOMAIN Extend(data.arrays, data.local_size, "array") = DOMAIN data.arrays \cup {data.local_size}
      BY Extended
    <3>2. data'.arrays = Extend(data.arrays, data.local_size, "array")
      BY <1>4
    <3> QED BY <3>1, <3>2
  <2>2. data'.local_size \in Int /\ data'.local_size > data.local_size
    BY <1>2, <1>3, <1>4
  <2> QED BY <2>1, <2>2
<1>8. data'.predicates = data.predicates \cup (IF data.pc <= NumPredicates THEN {kernel.predicates[data.pc]} ELSE {})
  BY <1>4, <1>5
<1>9. DOMAIN data'.signature = DOMAIN data.signature \cup
        {n \in 1 .. NumArgs : NumPredicates + NumLocals + 1 + n = data.pc}
  BY <1>4, <1>6
<1>10. RecordedInv'
  BY <1>1, <1>2, <1>3, <1>4, <1>5, <1>7, <1>8, <1>9, RecordedStep
<1> QED BY <1>1, <1>10, FillKeeps DEF DriverIInv

\* A predicate.
LEMMA InitKeeps == ASSUME DriverIInv, InitPredicate PROVE DriverIInv'
<1>1. Running /\ Fills /\ Current.op = "init"
  BY DEF InitPredicate
<1>2. /\ DOMAIN data = DataFields /\ data.allocated \subseteq InUse
      /\ NumPredicates \in Nat /\ NumLocals \in Nat /\ NumArgs \in Nat /\ data.pc \in Nat \ {0}
      /\ CodeStart = NumPredicates + NumLocals + NumArgs + 1
  BY <1>1, Tables
<1>3. data.pc <= NumPredicates /\ Current.predicate = kernel.predicates[data.pc]
  BY <1>1, PlaceOf
<1>4. /\ DOMAIN data' = DataFields /\ data'.pc = data.pc + 1
      /\ data'.allocated = data.allocated /\ data'.predicates = data.predicates \cup {Current.predicate}
      /\ data'.arrays = data.arrays
      /\ data'.local_size = data.local_size /\ data'.signature = data.signature
  BY <1>2 DEF InitPredicate, Advance, DataFields
<1>5. /\ ~(data.pc > NumPredicates /\ data.pc <= NumPredicates + NumLocals)
      /\ data.pc # NumPredicates + NumLocals + 1 /\ data.pc # CodeStart + 1
  BY <1>2, <1>3
<1>6. {n \in 1 .. NumArgs : NumPredicates + NumLocals + 1 + n = data.pc} = {}
  BY <1>2, <1>3
<1>7. data'.predicates = data.predicates \cup (IF data.pc <= NumPredicates THEN {kernel.predicates[data.pc]} ELSE {})
  BY <1>3, <1>4
<1>8. DOMAIN data'.signature = DOMAIN data.signature \cup
        {n \in 1 .. NumArgs : NumPredicates + NumLocals + 1 + n = data.pc}
  BY <1>4, <1>6
<1>9. RecordedInv'
  BY <1>1, <1>2, <1>4, <1>5, <1>7, <1>8, RecordedStep
<1> QED BY <1>1, <1>9, FillKeeps DEF DriverIInv

\* The code itself: what is before it stays recorded.
LEMMA CodeKeeps == ASSUME DriverIInv, LoadParameters \/ OtherInstruction PROVE DriverIInv'
<1>1. Running /\ Fills /\ Current.op \in CodeOps
  BY DEF LoadParameters, OtherInstruction, CodeOps
<1>2. /\ DOMAIN data = DataFields /\ data.allocated \subseteq InUse
      /\ NumPredicates \in Nat /\ NumLocals \in Nat /\ NumArgs \in Nat /\ data.pc \in Nat \ {0}
      /\ CodeStart = NumPredicates + NumLocals + NumArgs + 1
      /\ DispatchLength(kernel.source) \in Nat
      /\ kernel.source.usesetup => DispatchLength(kernel.source) = 8
  BY <1>1, Tables
<1>3. data.pc > CodeStart + DispatchLength(kernel.source)
  BY <1>1, PlaceOf
<1>4. LoadParameters =>
      /\ DOMAIN data' = DataFields /\ data'.pc = data.pc + 1
      /\ data'.allocated = data.allocated /\ data'.predicates = data.predicates
      /\ data'.arrays = data.arrays
      /\ data'.local_size = data.local_size /\ data'.signature = data.signature
  <2> HAVE LoadParameters
  <2>1. \E words : data' = Advance([data EXCEPT !.words = words])
    BY DEF LoadParameters
  <2>2. /\ DOMAIN data' = DataFields /\ data'.pc = data.pc + 1
        /\ data'.allocated = data.allocated /\ data'.predicates = data.predicates
        /\ data'.arrays = data.arrays
        /\ data'.local_size = data.local_size /\ data'.signature = data.signature
    BY <1>2, <2>1 DEF Advance, DataFields
  <2> QED BY <2>2
<1>5. /\ DOMAIN data' = DataFields /\ data'.pc = data.pc + 1
      /\ data'.allocated = data.allocated /\ data'.predicates = data.predicates
      /\ data'.arrays = data.arrays
      /\ data'.local_size = data.local_size /\ data'.signature = data.signature
  <2>1. CASE OtherInstruction
    BY <1>2, <2>1 DEF OtherInstruction, Advance, DataFields
  <2> QED BY <1>4, <2>1
<1>6. /\ ~(data.pc > NumPredicates /\ data.pc <= NumPredicates + NumLocals) /\ ~(data.pc <= NumPredicates)
      /\ data.pc # NumPredicates + NumLocals + 1
      /\ ~(kernel.source.usesetup /\ data.pc = CodeStart + 1)
  BY <1>2, <1>3
<1>7. {n \in 1 .. NumArgs : NumPredicates + NumLocals + 1 + n = data.pc} = {}
  BY <1>2, <1>3
<1>8. data'.predicates = data.predicates \cup (IF data.pc <= NumPredicates THEN {kernel.predicates[data.pc]} ELSE {})
  BY <1>5, <1>6
<1>9. DOMAIN data'.signature = DOMAIN data.signature \cup
        {n \in 1 .. NumArgs : NumPredicates + NumLocals + 1 + n = data.pc}
  BY <1>5, <1>7
<1>10. RecordedInv'
  BY <1>1, <1>2, <1>5, <1>6, <1>8, <1>9, RecordedStep
<1> QED BY <1>1, <1>10, FillKeeps DEF DriverIInv

------------------------------------------------------------------------------
(***************************************************************************)
(* What every run of the driver keeps.                                     *)
(***************************************************************************)
\* The invariant is one of the driver: every step keeps it.
THEOREM DriverInvariant == Spec => []DriverIInv
<1>1. Init => DriverIInv
  BY DriverStart
<1>2. DriverIInv /\ [Next]_vars => DriverIInv'
  <2> SUFFICES ASSUME DriverIInv, [Next]_vars PROVE DriverIInv'
    OBVIOUS
  <2>1. CASE Lower
    BY <2>1, LowerKeeps
  <2>2. CASE PassStep
    BY <2>2, FlowKeeps, TypesKeep, ArgumentStoresKeep, MemoryKeeps, PredicatesKeep, ResetKeeps, EmitKeeps
       DEF PassStep
  <2>3. CASE FillStep
    BY <2>3, AllocateKeeps, StoreKeeps, LocalKeeps, InitKeeps, CodeKeeps, EndOfCodeKeeps DEF FillStep
  <2>4. CASE UNCHANGED vars
    <3>1. UNCHANGED <<file, ahead, passes, kernel, data, text>>
      BY <2>4 DEF vars
    <3>2. DriverInv' /\ Left' = Left
      BY <3>1 DEF DriverIInv, DriverInv, Left
    <3>3. NumArgs' = NumArgs /\ NumLocals' = NumLocals /\ NumPredicates' = NumPredicates
      BY <3>1 DEF NumArgs, NumLocals, NumPredicates
    <3>4. LoweredInv' /\ PlacedInv'
      BY <3>1, <3>2, <3>3 DEF DriverIInv, LoweredInv, PlacedInv
    <3>5. ArraysBefore(data.pc)' = ArraysBefore(data.pc)
      BY <3>1, <3>3 DEF ArraysBefore
    <3>6. RecordedInv'
      BY <3>1, <3>2, <3>3, <3>5 DEF DriverIInv, RecordedInv
    <3> QED BY <3>2, <3>4, <3>6 DEF DriverIInv
  <2> QED BY <2>1, <2>2, <2>3, <2>4 DEF Next
<1> QED BY <1>1, <1>2, PTL DEF Spec

\* The end of a pipeline is what is left of it.
LEMMA EndOfPipeline ==
  ASSUME NEW k, NEW n \in 1 .. 10, n <= PassesOf(k)
  PROVE  SubSeq(Pipeline(k.target), Len(Pipeline(k.target)) - n + 1, Len(Pipeline(k.target))) = Rest(n)
<1> DEFINE N == PassesOf(k)
<1>1. Pipeline(k.target) = Rest(N) /\ Len(Pipeline(k.target)) = N
  BY PipelineIsRest
<1>2. N \in 1 .. 10 /\ n <= N
  BY DEF PassesOf
<1> HIDE DEF N
<1>3. Rest(N) \in Seq(PassName) /\ Len(Rest(N)) = N /\ \A i \in 1 .. N : Rest(N)[i] = PassAt(10 - N + i)
  <2>1. N \in Nat
    BY <1>2
  <2> QED BY <2>1, RestIsList
<1>4. Rest(n) \in Seq(PassName) /\ Len(Rest(n)) = n /\ \A i \in 1 .. n : Rest(n)[i] = PassAt(10 - n + i)
  BY RestIsList
<1>5. SubSeq(Rest(N), N - n + 1, N) \in Seq(PassName) /\ Len(SubSeq(Rest(N), N - n + 1, N)) = n
      /\ \A i \in 1 .. n : SubSeq(Rest(N), N - n + 1, N)[i] = Rest(N)[N - n + i]
  <2>1. \A i \in N - n + 1 .. N : Rest(N)[i] \in PassName
    BY <1>2, <1>3
  <2>2. N - n + 1 \in 1 .. N + 1 /\ N - (N - n + 1) + 1 = n /\ N - n + 1 <= N
    BY <1>2
  <2> QED BY <1>2, <1>3, <2>1, <2>2
<1>6. \A i \in 1 .. n : Rest(N)[N - n + i] = PassAt(10 - n + i)
  <2> TAKE i \in 1 .. n
  <2>1. N - n + i \in 1 .. N /\ 10 - N + (N - n + i) = 10 - n + i
    BY <1>2
  <2> QED BY <1>3, <2>1
<1>7. SubSeq(Rest(N), N - n + 1, N) = Rest(n)
  <2> DEFINE s == SubSeq(Rest(N), N - n + 1, N)
             r == Rest(n)
  <2>1. s \in Seq(PassName) /\ Len(s) = n /\ r \in Seq(PassName) /\ Len(r) = n
    BY <1>4, <1>5
  <2>2. \A i \in 1 .. n : s[i] = r[i]
    BY <1>4, <1>5, <1>6
  <2>3. n \in Nat
    OBVIOUS
  <2> HIDE DEF s, r
  <2>4. s = r
    BY <2>1, <2>2, <2>3, ListIsFunction
  <2> QED BY <2>4 DEF s, r
<1> QED BY <1>1, <1>7

\* The passes that are left are the end of a pipeline, the kernels that are left
\* those that are not printed, and the place in the code is one of the code.
THEOREM DriverTypes == Spec => []TypeOK
<1>1. DriverIInv => TypeOK
  <2> SUFFICES ASSUME DriverIInv PROVE TypeOK
    OBVIOUS
  <2>1. DriverInv /\ LoweredInv /\ RecordedInv
    BY DEF DriverIInv
  <2>2. file \in Seq(ToSet(file)) /\ Left \in 0 .. 10 /\ passes = Rest(Left)
    BY <2>1, FilesAssumption DEF DriverInv
  <2>3. passes = <<>> \/ \E k \in DOMAIN file : passes = SubSeq(Pipeline(file[k].target),
          Len(Pipeline(file[k].target)) - Len(passes) + 1, Len(Pipeline(file[k].target)))
    <3>1. CASE Left = 0
      BY <2>2, <3>1, NextPass
    <3>2. CASE Left # 0
      <4>1. kernel.source \in ToSet(file) /\ Left <= PassesOf(kernel.source)
        BY <2>1, <3>2 DEF LoweredInv
      <4>2. PICK k \in DOMAIN file : file[k] = kernel.source
        BY <4>1 DEF ToSet
      <4>3. Left \in 1 .. 10 /\ Left <= PassesOf(file[k])
        BY <2>2, <3>2, <4>1, <4>2
      <4>4. SubSeq(Pipeline(file[k].target), Len(Pipeline(file[k].target)) - Left + 1,
                   Len(Pipeline(file[k].target))) = Rest(Left)
        BY <4>3, EndOfPipeline
      <4> QED BY <2>2, <4>4 DEF Left
    <3> QED BY <3>1, <3>2
  <2>4. Len(text) + Len(ahead) \in {Len(file) - 1, Len(file)}
    <3>1. Len(file) \in Nat
      BY <2>2
    <3>2. Len(text) + Len(ahead) = Len(file) - (IF Left = 0 THEN 0 ELSE 1)
      BY <2>1 DEF DriverInv
    <3> QED BY <3>1, <3>2
  <2>5. At("fill") => data.pc \in 1 .. Len(kernel.instructions) + 1
    BY <2>1, <2>2, PassNumber DEF RecordedInv
  <2>6. data.allocated \subseteq InUse
    BY <2>1 DEF RecordedInv
  <2> QED BY <2>3, <2>4, <2>5, <2>6 DEF TypeOK
<1> QED BY <1>1, DriverInvariant, PTL

\* What the code of a kernel reads is there before it reads it: the passes put
\* predicates, arrays and argument stores before it, in this order.
THEOREM DriverPrefix == Spec => []PrefixBeforeCode
<1>1. DriverIInv => PrefixBeforeCode
  <2> SUFFICES ASSUME DriverIInv, Running, Current.op \in {"load", "compute", "access"}
               PROVE  /\ DOMAIN data.signature = DOMAIN kernel.args
                      /\ data.predicates = ToSet(kernel.predicates)
                      /\ Cardinality(DOMAIN data.arrays) = Len(kernel.locals)
                      /\ Current.op = "load" => Current.base \in data.allocated
    BY DEF PrefixBeforeCode
  <2> DEFINE pc == data.pc
  <2>1. /\ NumPredicates \in Nat /\ NumLocals \in Nat /\ NumArgs \in Nat /\ pc \in Nat \ {0}
        /\ CodeStart = NumPredicates + NumLocals + NumArgs + 1
        /\ DispatchLength(kernel.source) \in Nat
        /\ kernel.source.usesetup => DispatchLength(kernel.source) = 8
    BY Tables
  <2>2. pc > CodeStart + DispatchLength(kernel.source)
    BY PlaceOf DEF CodeOps
  <2>3. Left = 2 /\ (Current.op = "load" => Current.base = "args" \/ (kernel.source.usesetup /\ Current.base = "setup"))
    BY <2>2, Place
  <2>4. RecordedInv /\ LoweredInv
    BY DEF DriverIInv
  <2>5. DOMAIN kernel.args = 1 .. NumArgs
    BY <2>3, <2>4 DEF LoweredInv
  <2> HIDE DEF pc
  <2>6. DOMAIN data.signature = DOMAIN kernel.args
    <3>1. DOMAIN data.signature = {n \in 1 .. NumArgs : NumPredicates + NumLocals + 1 + n < pc}
      BY <2>3, <2>4 DEF RecordedInv, pc
    <3>2. \A n \in 1 .. NumArgs : NumPredicates + NumLocals + 1 + n < pc
      BY <2>1, <2>2
    <3> QED BY <2>5, <3>1, <3>2
  <2>7. data.predicates = ToSet(kernel.predicates)
    <3>1. data.predicates = {kernel.predicates[n] : n \in {m \in 1 .. NumPredicates : m < pc}}
      BY <2>3, <2>4 DEF RecordedInv, pc
    <3>2. {m \in 1 .. NumPredicates : m < pc} = 1 .. NumPredicates
      BY <2>1, <2>2
    <3>3. IsList(kernel.predicates)
      BY <2>3, PartsAreLists
    <3>4. DOMAIN kernel.predicates = 1 .. NumPredicates
      BY <3>3, Lists DEF NumPredicates
    <3> QED BY <3>1, <3>2, <3>4 DEF ToSet
  <2>8. Cardinality(DOMAIN data.arrays) = Len(kernel.locals)
    <3>1. Cardinality(DOMAIN data.arrays) = ArraysBefore(pc)
      BY <2>3, <2>4 DEF RecordedInv, pc
    <3>2. ArraysBefore(pc) = NumLocals
      BY <2>1, <2>2 DEF ArraysBefore
    <3> QED BY <3>1, <3>2 DEF NumLocals
  <2>9. Current.op = "load" => Current.base \in data.allocated
    <3>1. pc > NumPredicates + NumLocals + 1 => "args" \in data.allocated
      BY <2>3, <2>4 DEF RecordedInv, pc
    <3>2. kernel.source.usesetup /\ pc > NumPredicates + NumLocals + NumArgs + 2 => "setup" \in data.allocated
      BY <2>3, <2>4 DEF RecordedInv, pc
    <3>3. pc > NumPredicates + NumLocals + 1
      BY <2>1, <2>2
    <3>4. kernel.source.usesetup => pc > NumPredicates + NumLocals + NumArgs + 2
      BY <2>1, <2>2
    <3> QED BY <2>3, <3>1, <3>2, <3>3, <3>4
  <2> QED BY <2>6, <2>7, <2>8, <2>9
<1> QED BY <1>1, DriverInvariant, PTL
==============================================================================
