--------------------------- MODULE LaunchTypesProofs ---------------------------
(***************************************************************************)
(* Types of launch quantities, for every launch: that of a sum of two      *)
(* registers denotes the sum of theirs, and the simplification of a sum of *)
(* several keeps what the types add up to.                                 *)
(***************************************************************************)
EXTENDS LaunchTypes, WellFoundedInduction, SequenceTheorems, TLAPS
------------------------------------------------------------------------------
(***************************************************************************)
(* Recursion over naturals, and numbers.                                   *)
(***************************************************************************)
\* A set of naturals that is not empty has a smallest element.
LEMMA NatMin ==
  ASSUME NEW S \in SUBSET Nat, S # {}
  PROVE  \E m \in S : \A x \in S : m <= x
<1>1. PICK m \in S : \A y \in S : ~(<<y, m>> \in OpToRel(<, Nat))
  BY WFMin, NatLessThanWellFounded
<1>2. \A y \in S : ~(y < m)
  BY <1>1 DEF OpToRel
<1> QED
  BY <1>2

\* A set of naturals with zero and every successor has all of them.
LEMMA NatInductive ==
  ASSUME NEW S \in SUBSET Nat, 0 \in S, \A n \in S : n + 1 \in S
  PROVE  S = Nat
<1> SUFFICES ASSUME Nat \ S # {} PROVE FALSE
  OBVIOUS
<1>1. PICK m \in Nat \ S : \A x \in Nat \ S : m <= x
  <2>1. Nat \ S \in SUBSET Nat
    OBVIOUS
  <2> QED
    BY <2>1, NatMin
<1>2. m # 0 /\ m - 1 \in Nat /\ m - 1 \in S
  BY <1>1
<1> QED
  BY <1>1, <1>2

\* N steps of a set, and what a walk by them reaches after each.
Steps(N, S) == [1 .. N -> [S -> S]]
Walks(N, S, start, step) ==
  {g \in [0 .. N -> S] : \A n \in 0 .. N : g[n] = IF n = 0 THEN start ELSE step[n][g[n - 1]]}

\* A function that is defined step by step exists.
LEMMA Rounds ==
  ASSUME NEW N \in Nat, NEW S, NEW start \in S, NEW step \in Steps(N, S)
  PROVE  \E g : g \in Walks(N, S, start, step)
<1> USE DEF Steps
<1> DEFINE Good(g, m) == \A n \in 0 .. m : g[n] = IF n = 0 THEN start ELSE step[n][g[n - 1]]
           Defined == {m \in Nat : m <= N => \E g \in [0 .. m -> S] : Good(g, m)}
<1>1. 0 \in Defined
  <2> DEFINE g == [n \in 0 .. 0 |-> start]
  <2>1. g \in [0 .. 0 -> S] /\ Good(g, 0)
    OBVIOUS
  <2> QED BY <2>1
<1>2. ASSUME NEW m \in Defined PROVE m + 1 \in Defined
  <2>0. m + 1 \in Nat
    OBVIOUS
  <2> SUFFICES ASSUME m + 1 <= N PROVE \E g \in [0 .. m + 1 -> S] : Good(g, m + 1)
    <3> HIDE DEF Good
    <3> QED BY <2>0
  <2>1. m \in Nat /\ m <= N
    OBVIOUS
  <2>2. PICK f \in [0 .. m -> S] : Good(f, m)
    BY <2>1
  <2> DEFINE g == [n \in 0 .. m + 1 |-> IF n <= m THEN f[n] ELSE step[m + 1][f[m]]]
  <2>3. m + 1 \in 1 .. N /\ m \in 0 .. m
    BY <2>1
  <2>4. step[m + 1][f[m]] \in S
    BY <2>2, <2>3
  <2>5. g \in [0 .. m + 1 -> S]
    BY <2>1, <2>2, <2>4
  <2>6. ASSUME NEW n \in 0 .. m + 1 PROVE g[n] = IF n = 0 THEN start ELSE step[n][g[n - 1]]
    <3>1. CASE n <= m
      <4>1. n \in 0 .. m
        BY <2>1, <3>1
      <4>2. g[n] = f[n]
        BY <2>1, <3>1
      <4>3. f[n] = IF n = 0 THEN start ELSE step[n][f[n - 1]]
        BY <2>2, <4>1
      <4>4. n # 0 => g[n - 1] = f[n - 1]
        BY <2>1, <3>1
      <4> HIDE DEF g
      <4> QED BY <4>2, <4>3, <4>4
    <3>2. CASE n = m + 1
      <4>1. g[n] = step[m + 1][f[m]] /\ g[m] = f[m] /\ n - 1 = m /\ n # 0
        BY <2>1, <3>2
      <4> HIDE DEF g
      <4> QED BY <4>1, <3>2
    <3> QED BY <2>1, <3>1, <3>2
  <2> HIDE DEF g
  <2> QED BY <2>5, <2>6
<1>3. N \in Defined
  <2>1. Defined \in SUBSET Nat
    OBVIOUS
  <2> HIDE DEF Defined
  <2>2. Defined = Nat
    BY <1>1, <1>2, <2>1, NatInductive
  <2> QED BY <2>2
<1> QED BY <1>3 DEF Walks

\* A list without one of its elements.
LEMMA Removed ==
  ASSUME NEW T, NEW s \in Seq(T), NEW e
  PROVE  RemoveFirst(s, e) \in Seq(T)
<1> SUFFICES ASSUME NEW i \in 1 .. Len(s), s[i] = e PROVE RemoveAt(s, SelectInSeq(s, LAMBDA v : v = e)) \in Seq(T)
  BY DEF RemoveFirst
<1> DEFINE I == {j \in 1 .. Len(s) : s[j] = e}
<1>1. I \in SUBSET Nat /\ I # {}
  OBVIOUS
<1>2. \E m \in I : \A x \in I : m <= x
  BY <1>1, NatMin
<1>3. Min(I) \in I
  BY <1>2 DEF Min
<1>4. SelectInSeq(s, LAMBDA v : v = e) = Min(I)
  BY <1>1 DEF SelectInSeq
<1> HIDE DEF I
<1>5. Min(I) \in 1 .. Len(s)
  BY <1>3 DEF I
<1>6. \A m \in 1 .. Len(s) : SubSeq(s, 1, m - 1) \in Seq(T) /\ SubSeq(s, m + 1, Len(s)) \in Seq(T)
  <2> TAKE m \in 1 .. Len(s)
  <2>1. Len(s) \in Nat /\ m - 1 \in Int /\ m + 1 \in Int
    OBVIOUS
  <2>2. \A j \in 1 .. m - 1 : s[j] \in T
    OBVIOUS
  <2>3. \A j \in m + 1 .. Len(s) : s[j] \in T
    OBVIOUS
  <2> QED BY <2>1, <2>2, <2>3
<1>7. RemoveAt(s, Min(I)) \in Seq(T)
  BY <1>5, <1>6 DEF RemoveAt
<1> QED BY <1>4, <1>7

\* The elements of a list are taken out of another one by one.
LEMMA WithoutSteps ==
  ASSUME NEW T, NEW types \in Seq(T), NEW G, NEW gone \in Seq(G)
  PROVE  \E rest : /\ Without(types, gone) = rest[Len(gone)]
                  /\ \A n \in 0 .. Len(gone) :
                       rest[n] = IF n = 0 THEN types ELSE RemoveFirst(rest[n - 1], gone[n])
<1> DEFINE N == Len(gone)
           Row(f) == [n \in 0 .. N |-> IF n = 0 THEN types ELSE RemoveFirst(f[n - 1], gone[n])]
           rest == CHOOSE f : f = Row(f)
           step == [n \in 1 .. N |-> [s \in Seq(T) |-> RemoveFirst(s, gone[n])]]
<1>1. N \in Nat
  OBVIOUS
<1>2. step \in [1 .. N -> [Seq(T) -> Seq(T)]]
  BY Removed
<1>3. Without(types, gone) = rest[N]
  BY DEF Without
<1> HIDE DEF N
<1>4. \E g : g = Row(g)
  <2> DEFINE S == Seq(T)
  <2>0. types \in S /\ step \in Steps(N, S)
    BY <1>2 DEF Steps
  <2> HIDE DEF step, S
  <2>a. \E g : g \in Walks(N, S, types, step)
    BY <1>1, <2>0, Rounds
  <2>1. PICK g \in [0 .. N -> S] : \A n \in 0 .. N : g[n] = IF n = 0 THEN types ELSE step[n][g[n - 1]]
    BY <2>a DEF Walks
  <2>2. \A n \in 0 .. N : n # 0 => step[n][g[n - 1]] = RemoveFirst(g[n - 1], gone[n])
    <3> TAKE n \in 0 .. N
    <3> HAVE n # 0
    <3>1. n \in 1 .. N /\ n - 1 \in 0 .. N
      BY <1>1
    <3>2. g[n - 1] \in Seq(T)
      BY <2>1, <3>1 DEF S
    <3> QED BY <3>1, <3>2 DEF step
  <2>3. g = Row(g)
    BY <2>1, <2>2
  <2> QED BY <2>3
<1>5. rest = Row(rest)
  <2> HIDE DEF Row
  <2> QED BY <1>4
<1>6. \A n \in 0 .. N : rest[n] = IF n = 0 THEN types ELSE RemoveFirst(rest[n - 1], gone[n])
  <2> HIDE DEF rest
  <2> QED BY <1>5
<1> HIDE DEF rest
<1> QED BY <1>3, <1>6 DEF N

\* Without some of its elements a list has no others.
LEMMA WithoutIsList ==
  ASSUME NEW T, NEW types \in Seq(T), NEW G, NEW gone \in Seq(G)
  PROVE  Without(types, gone) \in Seq(T)
<1> DEFINE N == Len(gone)
<1>1. N \in Nat
  OBVIOUS
<1>2. PICK rest : /\ Without(types, gone) = rest[N]
                  /\ \A n \in 0 .. N : rest[n] = IF n = 0 THEN types ELSE RemoveFirst(rest[n - 1], gone[n])
  BY WithoutSteps
<1> HIDE DEF N
<1>3. Without(types, gone) = rest[N]
  BY <1>2
<1>6. \A n \in 0 .. N : rest[n] = IF n = 0 THEN types ELSE RemoveFirst(rest[n - 1], gone[n])
  BY <1>2
<1> DEFINE Good == {n \in Nat : n <= N => rest[n] \in Seq(T)}
<1>7. 0 \in Good
  BY <1>1, <1>6
<1>8. ASSUME NEW n \in Good PROVE n + 1 \in Good
  <2> SUFFICES ASSUME n + 1 <= N PROVE rest[n + 1] \in Seq(T)
    OBVIOUS
  <2>1. n \in Nat /\ n <= N /\ n + 1 \in 0 .. N /\ n + 1 # 0 /\ (n + 1) - 1 = n
    BY <1>1
  <2>2. rest[n] \in Seq(T) /\ rest[n + 1] = RemoveFirst(rest[n], gone[n + 1])
    BY <1>6, <2>1
  <2> QED BY <2>2, Removed
<1>9. N \in Good
  <2>1. Good \in SUBSET Nat
    OBVIOUS
  <2> HIDE DEF Good
  <2>2. Good = Nat
    BY <1>7, <1>8, <2>1, NatInductive
  <2> QED BY <1>1, <2>2
<1> QED BY <1>3, <1>9

------------------------------------------------------------------------------
(***************************************************************************)
(* The types of registers that hold no pointers.                           *)
(***************************************************************************)
NumberTypes == ({"PLAIN"} \X {"none"}) \cup (Quantities \X DOMAIN Launch)

\* A type of a register is that of a number or that of an address.
LEMMA TypesSplit ==
  /\ Plain \in NumberTypes
  /\ \A t \in NumberTypes : t \in RegisterTypes /\ t[1] \notin AddressTypes
  /\ \A t \in RegisterTypes : t[1] \notin AddressTypes => t \in NumberTypes
BY DEF NumberTypes, RegisterTypes, Plain, AddressTypes, Quantities

\* A combination in a dimension whose types all occur among the given ones.
Applicable(types, i, d) ==
  /\ i \in 1 .. 4 /\ d \in DOMAIN Launch
  /\ \A n \in DOMAIN SumSimplifyCombinations[i].of : <<SumSimplifyCombinations[i].of[n], d>> \in ToSet(types)

\* A round of the simplification does nothing or replaces one combination.
LEMMA ReducedShape ==
  ASSUME NEW types \in Seq(NumberTypes), Len(types) > 0, Reduced(types) # types
  PROVE  \E i \in 1 .. 4, d \in DOMAIN Launch :
           /\ Applicable(types, i, d)
           /\ Reduced(types) = Append(Without(types, Consumed(SumSimplifyCombinations[i], d)),
                                     <<SumSimplifyCombinations[i].to, d>>)
<1> DEFINE Applies(c, d) == \A t \in ToSet(Consumed(c, d)) : t \in ToSet(types)
           found == {p \in (DOMAIN SumSimplifyCombinations) \X (DOMAIN Dimensions) :
                       Applies(SumSimplifyCombinations[p[1]], Dimensions[p[2]])}
           first == CHOOSE p \in found :
                      \A q \in found : p[1] < q[1] \/ (p[1] = q[1] /\ p[2] <= q[2])
           c     == SumSimplifyCombinations[first[1]]
           d     == Dimensions[first[2]]
<1>1. Reduced(types) = IF Len(types) = 1 \/ found = {} THEN types
                       ELSE Append(Without(types, Consumed(c, d)), <<c.to, d>>)
  BY DEF Reduced
<1>0. found # {} /\ Reduced(types) = Append(Without(types, Consumed(c, d)), <<c.to, d>>)
  BY <1>1
\* The smallest pair: the smallest first number, and with it the smallest second.
<1>2. first \in found
  <2> DEFINE Firsts == {i \in 1 .. 4 : \E j \in 1 .. 3 : <<i, j>> \in found}
  <2>1. DOMAIN SumSimplifyCombinations = 1 .. 4 /\ DOMAIN Dimensions = 1 .. 3
    BY DEF SumSimplifyCombinations, Dimensions
  <2>2. \A p \in found : p = <<p[1], p[2]>> /\ p[1] \in 1 .. 4 /\ p[2] \in 1 .. 3
    BY <2>1
  <2> HIDE DEF found
  <2>a. PICK p \in found : TRUE
    BY <1>0
  <2>b. <<p[1], p[2]>> \in found /\ p[1] \in 1 .. 4 /\ p[2] \in 1 .. 3
    BY <2>2
  <2>c. p[1] \in Firsts
    BY <2>b
  <2>3. Firsts \in SUBSET Nat
    OBVIOUS
  <2>4. PICK i \in Firsts : \A x \in Firsts : i <= x
    <3> HIDE DEF Firsts
    <3> QED BY <2>c, <2>3, NatMin
  <2> DEFINE Seconds == {j \in 1 .. 3 : <<i, j>> \in found}
  <2>d. PICK k \in 1 .. 3 : <<i, k>> \in found
    OBVIOUS
  <2>e. k \in Seconds
    BY <2>d
  <2>5. Seconds \in SUBSET Nat
    OBVIOUS
  <2>6. PICK j \in Seconds : \A x \in Seconds : j <= x
    <3> HIDE DEF Seconds
    <3> QED BY <2>e, <2>5, NatMin
  <2>7. \A q \in found : i < q[1] \/ (i = q[1] /\ j <= q[2])
    <3> TAKE q \in found
    <3>1. q = <<q[1], q[2]>> /\ q[1] \in 1 .. 4 /\ q[2] \in 1 .. 3 /\ i \in 1 .. 4 /\ j \in 1 .. 3
      BY <2>2
    <3>2. q[1] \in Firsts /\ (i = q[1] => q[2] \in Seconds)
      BY <3>1
    <3>3. i <= q[1] /\ (i = q[1] => j <= q[2])
      BY <2>4, <2>6, <3>2
    <3> QED BY <3>1, <3>3
  <2>8. <<i, j>> \in found /\ \A q \in found : <<i, j>>[1] < q[1] \/ (<<i, j>>[1] = q[1] /\ <<i, j>>[2] <= q[2])
    BY <2>7
  <2> QED BY <2>8
<1> HIDE DEF first, found
<1>3. first[1] \in 1 .. 4 /\ first[2] \in 1 .. 3 /\ Applies(c, d)
  BY <1>2 DEF found, SumSimplifyCombinations, Dimensions
<1>4. DOMAIN c.of = 1 .. Len(c.of) /\ Len(c.of) \in {2, 3} /\ c.of[1] # "PLAIN"
  BY <1>3 DEF SumSimplifyCombinations
<1>5. \A n \in DOMAIN c.of : <<c.of[n], d>> \in ToSet(types)
  <2>1. \A n \in DOMAIN c.of : Consumed(c, d)[n] = <<c.of[n], d>> /\ Consumed(c, d)[n] \in ToSet(Consumed(c, d))
    BY <1>4 DEF Consumed, ToSet
  <2> HIDE DEF c, d
  <2> QED BY <1>3, <2>1
<1>6. d \in DOMAIN Launch
  <2>1. ToSet(types) \subseteq NumberTypes
    BY DEF ToSet
  <2>2. 1 \in DOMAIN c.of
    BY <1>4
  <2> HIDE DEF c, d
  <2>3. <<c.of[1], d>> \in NumberTypes
    BY <1>5, <2>1, <2>2
  <2> QED BY <1>4, <2>3 DEF NumberTypes
<1>7. Applicable(types, first[1], d)
  BY <1>3, <1>5, <1>6 DEF Applicable
<1> HIDE DEF d
<1> QED BY <1>0, <1>3, <1>6, <1>7

\* The types of a combination, as a list.
LEMMA ConsumedIsList ==
  ASSUME NEW i \in 1 .. 4, NEW d \in DOMAIN Launch
  PROVE  /\ Consumed(SumSimplifyCombinations[i], d) \in Seq(NumberTypes)
         /\ <<SumSimplifyCombinations[i].to, d>> \in NumberTypes
<1> DEFINE c == SumSimplifyCombinations[i]
<1>1. /\ DOMAIN c.of = 1 .. Len(c.of) /\ Len(c.of) \in Nat /\ c.to \in Quantities
      /\ \A n \in DOMAIN c.of : c.of[n] \in Quantities
  <2>1. /\ DOMAIN c.of = 1 .. Len(c.of) /\ Len(c.of) \in Nat /\ c.to \in {"GLOBAL_ID", "GLOBAL_SIZE"}
        /\ \/ Len(c.of) = 2 /\ c.of[1] \in {"GLOBAL_OFFSET", "WORK_ITEM_ID", "NUM_GROUPS"}
              /\ c.of[2] \in {"WORK_GROUP_ID_WORK_ITEM_ID", "WORK_GROUP_ID_LOCAL_SIZE_OFFSET", "WORK_GROUP_ID_LOCAL_SIZE"}
           \/ Len(c.of) = 3 /\ c.of[1] = "GLOBAL_OFFSET" /\ c.of[2] = "WORK_ITEM_ID"
              /\ c.of[3] = "WORK_GROUP_ID_LOCAL_SIZE"
    BY DEF SumSimplifyCombinations
  <2> HIDE DEF c
  <2> QED BY <2>1 DEF Quantities
<1> HIDE DEF c
<1>2. \A n \in 1 .. Len(c.of) : <<c.of[n], d>> \in NumberTypes
  BY <1>1 DEF NumberTypes
<1>3. Consumed(c, d) = [n \in 1 .. Len(c.of) |-> <<c.of[n], d>>]
  BY <1>1 DEF Consumed
<1>4. Consumed(c, d) \in Seq(NumberTypes)
  BY <1>1, <1>2, <1>3
<1>5. <<c.to, d>> \in NumberTypes
  BY <1>1 DEF NumberTypes
<1> QED BY <1>4, <1>5 DEF c

\* A round of the simplification of a sum leaves types of numbers.
LEMMA ReducedIsList ==
  ASSUME NEW types \in Seq(NumberTypes), Len(types) > 0
  PROVE  Reduced(types) \in Seq(NumberTypes) /\ Len(Reduced(types)) > 0
<1> SUFFICES ASSUME Reduced(types) # types
             PROVE  Reduced(types) \in Seq(NumberTypes) /\ Len(Reduced(types)) > 0
  OBVIOUS
<1>1. PICK i \in 1 .. 4, d \in DOMAIN Launch :
        Reduced(types) = Append(Without(types, Consumed(SumSimplifyCombinations[i], d)),
                                <<SumSimplifyCombinations[i].to, d>>)
  BY ReducedShape
<1> DEFINE rest == Without(types, Consumed(SumSimplifyCombinations[i], d))
           e    == <<SumSimplifyCombinations[i].to, d>>
<1>2. rest \in Seq(NumberTypes) /\ e \in NumberTypes
  BY ConsumedIsList, WithoutIsList
<1> HIDE DEF rest, e
<1>3. Append(rest, e) \in Seq(NumberTypes) /\ Len(Append(rest, e)) > 0
  BY <1>2
<1> QED BY <1>1, <1>3 DEF rest, e

\* What every round keeps, the whole simplification keeps.
LEMMA SimplifiedKeeps ==
  ASSUME NEW S \in SUBSET Seq(NumberTypes), NEW types \in S, \A s \in S : Reduced(s) \in S
  PROVE  Simplified(types) \in S
<1> DEFINE N == Len(types)
           Row(f) == [n \in 0 .. N |-> IF n = 0 THEN types ELSE Reduced(f[n - 1])]
           rounds == CHOOSE f : f = Row(f)
           step == [n \in 1 .. N |-> [s \in S |-> Reduced(s)]]
<1>1. N \in Nat
  OBVIOUS
<1>2. \A s \in S : Reduced(s) \in S
  OBVIOUS
<1>3. Simplified(types) = rounds[N]
  BY DEF Simplified
<1> HIDE DEF N
<1>4. step \in Steps(N, S)
  BY <1>2 DEF Steps
<1>5. \E g : g = Row(g)
  <2> HIDE DEF step
  <2>a. \E g : g \in Walks(N, S, types, step)
    BY <1>1, <1>4, Rounds
  <2>1. PICK g \in [0 .. N -> S] : \A n \in 0 .. N : g[n] = IF n = 0 THEN types ELSE step[n][g[n - 1]]
    BY <2>a DEF Walks
  <2>2. \A n \in 0 .. N : n # 0 => step[n][g[n - 1]] = Reduced(g[n - 1])
    <3> TAKE n \in 0 .. N
    <3> HAVE n # 0
    <3>1. n \in 1 .. N /\ n - 1 \in 0 .. N
      BY <1>1
    <3> QED BY <2>1, <3>1 DEF step
  <2>3. g = Row(g)
    BY <2>1, <2>2
  <2> QED BY <2>3
<1>6. rounds = Row(rounds)
  <2> HIDE DEF Row
  <2> QED BY <1>5
<1>7. \A n \in 0 .. N : rounds[n] = IF n = 0 THEN types ELSE Reduced(rounds[n - 1])
  <2> HIDE DEF rounds
  <2> QED BY <1>6
<1> HIDE DEF rounds
<1> DEFINE Good == {n \in Nat : n <= N => rounds[n] \in S}
<1>8. 0 \in Good
  BY <1>1, <1>7
<1>9. ASSUME NEW n \in Good PROVE n + 1 \in Good
  <2> SUFFICES ASSUME n + 1 <= N PROVE rounds[n + 1] \in S
    OBVIOUS
  <2>1. n \in Nat /\ n <= N /\ n + 1 \in 0 .. N /\ n + 1 # 0 /\ (n + 1) - 1 = n
    BY <1>1
  <2>2. rounds[n] \in S /\ rounds[n + 1] = Reduced(rounds[n])
    BY <1>7, <2>1
  <2> QED BY <1>2, <2>2
<1>10. N \in Good
  <2>1. Good \in SUBSET Nat
    OBVIOUS
  <2> HIDE DEF Good
  <2>2. Good = Nat
    BY <1>8, <1>9, <2>1, NatInductive
  <2> QED BY <1>1, <2>2
<1> QED BY <1>3, <1>10

\* So the simplification leaves a list of types of numbers.
LEMMA SimplifiedIsList ==
  ASSUME NEW types \in Seq(NumberTypes), Len(types) > 0
  PROVE  Simplified(types) \in Seq(NumberTypes) /\ Len(Simplified(types)) > 0
<1> DEFINE S == {s \in Seq(NumberTypes) : Len(s) > 0}
<1>1. S \in SUBSET Seq(NumberTypes) /\ types \in S
  OBVIOUS
<1>2. \A s \in S : Reduced(s) \in S
  BY ReducedIsList
<1>3. Simplified(types) \in S
  <2> HIDE DEF S
  <2> QED BY <1>1, <1>2, SimplifiedKeeps
<1> QED BY <1>3

------------------------------------------------------------------------------
(***************************************************************************)
(* Launch quantities.                                                      *)
(***************************************************************************)
\* A type that names a quantity has a number.
LEMMA Quantity ==
  ASSUME NEW q \in Quantities, NEW d \in DOMAIN Launch
  PROVE  /\ Named(<<q, d>>) /\ Denoted(<<q, d>>) = Meaning(Launch[d])[q] /\ Meaning(Launch[d])[q] \in Int
         /\ <<q, d>> \in NumberTypes
<1>1. /\ Launch[d].group \in Int /\ Launch[d].size \in Int /\ Launch[d].item \in Int
      /\ Launch[d].offset \in Int /\ Launch[d].groups \in Int
  BY LaunchAssumption
<1>2. ASSUME NEW l, l.group \in Int, l.size \in Int, l.item \in Int, l.offset \in Int, l.groups \in Int
      PROVE  Meaning(l)[q] \in Int
  BY <1>2 DEF Meaning, Quantities
<1> QED BY <1>1, <1>2 DEF Named, Denoted, NumberTypes

(* The type that v_add gives to the sum of two registers by their types     *)
(* (v_add.py) is one of a launch quantity only if both of them are, and     *)
(* then the quantity is the sum of theirs.                                  *)
THEOREM TypeOfSumNames ==
  ASSUME NEW t \in NumberTypes, NEW u \in NumberTypes
  PROVE  /\ TypeOfSum(t, u) \in NumberTypes
         /\ Named(TypeOfSum(t, u)) =>
              /\ Named(t) /\ Named(u)
              /\ Denoted(TypeOfSum(t, u)) = Denoted(t) + Denoted(u)
              /\ Denoted(TypeOfSum(t, u)) \in Int
<1>1. CASE ~(Named(t) /\ t[2] = u[2] /\ \E k \in DOMAIN SumPatterns : {t[1], u[1]} \in SumPatterns[k])
  <2>1. TypeOfSum(t, u) = Plain
    BY <1>1 DEF TypeOfSum
  <2>2. ~Named(Plain)
    BY LaunchAssumption DEF Named, Plain
  <2> QED BY <2>1, <2>2, TypesSplit
<1>2. CASE Named(t) /\ t[2] = u[2] /\ \E k \in DOMAIN SumPatterns : {t[1], u[1]} \in SumPatterns[k]
  <2> DEFINE k == CHOOSE j \in DOMAIN SumPatterns : {t[1], u[1]} \in SumPatterns[j]
             d == t[2]
             l == Launch[d]
  <2>1. k \in DOMAIN SumPatterns /\ {t[1], u[1]} \in SumPatterns[k]
    BY <1>2
  <2>2. TypeOfSum(t, u) = <<k, d>>
    BY <1>2 DEF TypeOfSum
  <2>3. d \in DOMAIN Launch /\ u[2] = d
    BY <1>2 DEF Named
  <2>4. t = <<t[1], d>> /\ u = <<u[1], d>> /\ t[1] \in Quantities /\ u[1] \in Quantities
    BY <2>3, LaunchAssumption DEF NumberTypes
  <2> HIDE DEF k
  <2>5. /\ k \in Quantities
        /\ \/ k = "GLOBAL_ID" /\ {t[1], u[1]} = {"WORK_GROUP_ID_LOCAL_SIZE_OFFSET", "WORK_ITEM_ID"}
           \/ k = "GLOBAL_ID" /\ {t[1], u[1]} = {"GLOBAL_OFFSET", "WORK_GROUP_ID_WORK_ITEM_ID"}
           \/ k = "WORK_GROUP_ID_WORK_ITEM_ID" /\ {t[1], u[1]} = {"WORK_GROUP_ID_LOCAL_SIZE", "WORK_ITEM_ID"}
           \/ k = "WORK_GROUP_ID_LOCAL_SIZE_OFFSET" /\ {t[1], u[1]} = {"WORK_GROUP_ID_LOCAL_SIZE", "GLOBAL_OFFSET"}
    BY <2>1 DEF SumPatterns, Quantities
  <2>6. /\ Meaning(l)[k] \in Int /\ Denoted(<<k, d>>) = Meaning(l)[k] /\ Named(<<k, d>>)
        /\ Denoted(t) = Meaning(l)[t[1]] /\ Named(t) /\ Denoted(u) = Meaning(l)[u[1]] /\ Named(u)
        /\ <<k, d>> \in NumberTypes
    BY <2>3, <2>4, <2>5, Quantity
  <2>7. Meaning(l)[k] = Meaning(l)[t[1]] + Meaning(l)[u[1]]
    <3>1. /\ l.group \in Int /\ l.size \in Int /\ l.item \in Int /\ l.offset \in Int /\ l.groups \in Int
      BY <2>3, LaunchAssumption
    <3>2. \A p, q, x, y : {p, q} = {x, y} => (p = x /\ q = y) \/ (p = y /\ q = x)
      OBVIOUS
    <3>3. l.group * l.size \in Int
      BY <3>1
    <3> HIDE DEF l, d
    <3>a. /\ Meaning(l)["WORK_ITEM_ID"] = l.item /\ Meaning(l)["GLOBAL_OFFSET"] = l.offset
          /\ Meaning(l)["WORK_GROUP_ID_LOCAL_SIZE"] = l.group * l.size
          /\ Meaning(l)["WORK_GROUP_ID_LOCAL_SIZE_OFFSET"] = l.group * l.size + l.offset
          /\ Meaning(l)["WORK_GROUP_ID_WORK_ITEM_ID"] = l.group * l.size + l.item
          /\ Meaning(l)["GLOBAL_ID"] = l.group * l.size + l.item + l.offset
      BY DEF Meaning
    <3> DEFINE m == Meaning(l)
    <3>b. /\ m["GLOBAL_ID"] = m["WORK_GROUP_ID_LOCAL_SIZE_OFFSET"] + m["WORK_ITEM_ID"]
          /\ m["GLOBAL_ID"] = m["WORK_ITEM_ID"] + m["WORK_GROUP_ID_LOCAL_SIZE_OFFSET"]
          /\ m["GLOBAL_ID"] = m["GLOBAL_OFFSET"] + m["WORK_GROUP_ID_WORK_ITEM_ID"]
          /\ m["GLOBAL_ID"] = m["WORK_GROUP_ID_WORK_ITEM_ID"] + m["GLOBAL_OFFSET"]
          /\ m["WORK_GROUP_ID_WORK_ITEM_ID"] = m["WORK_GROUP_ID_LOCAL_SIZE"] + m["WORK_ITEM_ID"]
          /\ m["WORK_GROUP_ID_WORK_ITEM_ID"] = m["WORK_ITEM_ID"] + m["WORK_GROUP_ID_LOCAL_SIZE"]
          /\ m["WORK_GROUP_ID_LOCAL_SIZE_OFFSET"] = m["WORK_GROUP_ID_LOCAL_SIZE"] + m["GLOBAL_OFFSET"]
          /\ m["WORK_GROUP_ID_LOCAL_SIZE_OFFSET"] = m["GLOBAL_OFFSET"] + m["WORK_GROUP_ID_LOCAL_SIZE"]
      BY <3>1, <3>3, <3>a
    <3> HIDE DEF m
    <3>c. m[k] = m[t[1]] + m[u[1]]
      <4>1. CASE k = "GLOBAL_ID" /\ {t[1], u[1]} = {"WORK_GROUP_ID_LOCAL_SIZE_OFFSET", "WORK_ITEM_ID"}
        <5>1. (t[1] = "WORK_GROUP_ID_LOCAL_SIZE_OFFSET" /\ u[1] = "WORK_ITEM_ID") \/ (t[1] = "WORK_ITEM_ID" /\ u[1] = "WORK_GROUP_ID_LOCAL_SIZE_OFFSET")
          BY <3>2, <4>1
        <5> QED BY <3>b, <4>1, <5>1
      <4>2. CASE k = "GLOBAL_ID" /\ {t[1], u[1]} = {"GLOBAL_OFFSET", "WORK_GROUP_ID_WORK_ITEM_ID"}
        <5>1. (t[1] = "GLOBAL_OFFSET" /\ u[1] = "WORK_GROUP_ID_WORK_ITEM_ID") \/ (t[1] = "WORK_GROUP_ID_WORK_ITEM_ID" /\ u[1] = "GLOBAL_OFFSET")
          BY <3>2, <4>2
        <5> QED BY <3>b, <4>2, <5>1
      <4>3. CASE k = "WORK_GROUP_ID_WORK_ITEM_ID" /\ {t[1], u[1]} = {"WORK_GROUP_ID_LOCAL_SIZE", "WORK_ITEM_ID"}
        <5>1. (t[1] = "WORK_GROUP_ID_LOCAL_SIZE" /\ u[1] = "WORK_ITEM_ID") \/ (t[1] = "WORK_ITEM_ID" /\ u[1] = "WORK_GROUP_ID_LOCAL_SIZE")
          BY <3>2, <4>3
        <5> QED BY <3>b, <4>3, <5>1
      <4>4. CASE k = "WORK_GROUP_ID_LOCAL_SIZE_OFFSET" /\ {t[1], u[1]} = {"WORK_GROUP_ID_LOCAL_SIZE", "GLOBAL_OFFSET"}
        <5>1. (t[1] = "WORK_GROUP_ID_LOCAL_SIZE" /\ u[1] = "GLOBAL_OFFSET") \/ (t[1] = "GLOBAL_OFFSET" /\ u[1] = "WORK_GROUP_ID_LOCAL_SIZE")
          BY <3>2, <4>4
        <5> QED BY <3>b, <4>4, <5>1
      <4> QED BY <2>5, <4>1, <4>2, <4>3, <4>4
    <3> QED BY <3>c DEF m
  <2> HIDE DEF l
  <2> QED BY <2>2, <2>6, <2>7
<1> QED BY <1>1, <1>2

------------------------------------------------------------------------------
(***************************************************************************)
(* Contents that keep the types of several operands.                       *)
(***************************************************************************)
\* A content of a number: as many types as operands.
WellTyped(c) ==
  /\ c.operation \in {"none", "+", "*"}
  /\ c.types \in Seq(NumberTypes) /\ Len(c.types) > 0
  /\ c.operation = "none" <=> Len(c.types) = 1

(* The content that apply_operation_to_nodes makes of two of numbers, and   *)
(* simplifies (operation_register_content.py), has a type for each of its   *)
(* operands, and is an ordinary content exactly when one is left.           *)
THEOREM CombinedWellTyped ==
  ASSUME NEW operation \in {"+", "*"}, NEW a, NEW b, WellTyped(a), WellTyped(b)
  PROVE  WellTyped(CombinedTypes(operation, a, b))
<1> DEFINE nested == {c \in {a, b} : c.operation # "none"}
           same   == \A c \in nested : c.operation = operation
           Types(c) == IF c.operation = "none" \/ same THEN c.types ELSE <<Plain>>
           all    == Types(a) \o Types(b)
           types  == IF operation = "+" THEN Simplified(all) ELSE all
           result == CombinedTypes(operation, a, b)
<1>1. /\ result.types = types
      /\ result.operation = IF Len(types) = 1 THEN "none" ELSE operation
  BY DEF CombinedTypes
<1> HIDE DEF result, same
<1>2. /\ Types(a) \in Seq(NumberTypes) /\ Len(Types(a)) > 0
      /\ Types(b) \in Seq(NumberTypes) /\ Len(Types(b)) > 0
  <2>1. <<Plain>> \in Seq(NumberTypes) /\ Len(<<Plain>>) > 0
    BY TypesSplit
  <2> QED BY <2>1 DEF WellTyped
<1> HIDE DEF Types
<1>3. all \in Seq(NumberTypes) /\ Len(all) > 0
  BY <1>2
<1> HIDE DEF all
<1>4. types \in Seq(NumberTypes) /\ Len(types) > 0
  BY <1>3, SimplifiedIsList
<1> HIDE DEF types
<1>5. WellTyped(result)
  BY <1>1, <1>4 DEF WellTyped
<1> QED BY <1>5 DEF result

------------------------------------------------------------------------------
(***************************************************************************)
(* What the types of a list add up to, with a value for each type.         *)
(***************************************************************************)
Total(value, types) ==
  LET sum[n \in 0 .. Len(types)] == IF n = 0 THEN 0 ELSE sum[n - 1] + value[types[n]]
  IN  sum[Len(types)]

\* The sums of the first types of a list.
Partial(f, value, types) ==
  /\ f \in [0 .. Len(types) -> Int] /\ f[0] = 0
  /\ \A n \in 1 .. Len(types) : f[n] = f[n - 1] + value[types[n]]

\* There are such sums, and the last of them is the total.
LEMMA TotalPartial ==
  ASSUME NEW value \in [NumberTypes -> Int], NEW types \in Seq(NumberTypes)
  PROVE  \E f : Partial(f, value, types) /\ Total(value, types) = f[Len(types)]
<1> DEFINE N == Len(types)
           Row(f) == [n \in 0 .. N |-> IF n = 0 THEN 0 ELSE f[n - 1] + value[types[n]]]
           sum == CHOOSE f : f = Row(f)
           step == [n \in 1 .. N |-> [x \in Int |-> x + value[types[n]]]]
<1>1. N \in Nat /\ \A n \in 1 .. N : value[types[n]] \in Int
  OBVIOUS
<1>2. Total(value, types) = sum[N]
  BY DEF Total
<1> HIDE DEF N
<1>3. step \in Steps(N, Int)
  BY <1>1 DEF Steps
<1>4. PICK g : g \in Walks(N, Int, 0, step)
  <2> DEFINE S == Int
  <2>1. 0 \in S /\ step \in Steps(N, S)
    BY <1>3
  <2> HIDE DEF step, S
  <2>2. \E g : g \in Walks(N, S, 0, step)
    BY <1>1, <2>1, Rounds
  <2> QED BY <2>2 DEF S
<1>5. g \in [0 .. N -> Int] /\ \A n \in 0 .. N : g[n] = IF n = 0 THEN 0 ELSE step[n][g[n - 1]]
  <2> HIDE DEF step
  <2> QED BY <1>4 DEF Walks
<1>6. \A n \in 0 .. N : n # 0 => step[n][g[n - 1]] = g[n - 1] + value[types[n]]
  <2> TAKE n \in 0 .. N
  <2> HAVE n # 0
  <2>1. n \in 1 .. N /\ n - 1 \in 0 .. N
    BY <1>1
  <2> QED BY <1>5, <2>1 DEF step
<1>7. \E f : f = Row(f)
  <2> HIDE DEF step
  <2>1. g = Row(g)
    BY <1>5, <1>6
  <2> QED BY <2>1
<1>8. sum = Row(sum)
  <2> HIDE DEF Row
  <2> QED BY <1>7
<1>9. \A n \in 0 .. N : sum[n] = IF n = 0 THEN 0 ELSE sum[n - 1] + value[types[n]]
  <2> HIDE DEF sum
  <2> QED BY <1>8
<1> HIDE DEF sum, step
<1> DEFINE Same == {n \in Nat : n <= N => sum[n] = g[n]}
<1>10. 0 \in Same
  BY <1>1, <1>5, <1>9
<1>11. ASSUME NEW n \in Same PROVE n + 1 \in Same
  <2> SUFFICES ASSUME n + 1 <= N PROVE sum[n + 1] = g[n + 1]
    OBVIOUS
  <2>1. n \in Nat /\ n <= N /\ n + 1 \in 0 .. N /\ n + 1 # 0 /\ (n + 1) - 1 = n
    BY <1>1
  <2> QED BY <1>5, <1>6, <1>9, <2>1
<1>12. Same = Nat
  <2>1. Same \in SUBSET Nat
    OBVIOUS
  <2> HIDE DEF Same
  <2> QED BY <1>10, <1>11, <2>1, NatInductive
<1>13. sum[N] = g[N]
  BY <1>1, <1>12
<1>14. Partial(g, value, types)
  <2>1. g[0] = 0
    BY <1>1, <1>5
  <2>2. \A n \in 1 .. N : g[n] = g[n - 1] + value[types[n]]
    <3> TAKE n \in 1 .. N
    <3>1. n \in 0 .. N /\ n # 0
      BY <1>1
    <3> QED BY <1>5, <1>6, <3>1
  <2> QED BY <1>5, <2>1, <2>2 DEF Partial, N
<1> QED BY <1>2, <1>13, <1>14 DEF N

\* Two such rows of sums are one.
LEMMA PartialIsOne ==
  ASSUME NEW value \in [NumberTypes -> Int], NEW types \in Seq(NumberTypes), NEW f, Partial(f, value, types)
  PROVE  Total(value, types) = f[Len(types)]
<1> DEFINE N == Len(types)
<1>1. N \in Nat
  OBVIOUS
<1>2. PICK g : Partial(g, value, types) /\ Total(value, types) = g[N]
  BY TotalPartial
<1>3. f[0] = 0 /\ \A n \in 1 .. N : f[n] = f[n - 1] + value[types[n]]
  BY DEF Partial
<1>4. g[0] = 0 /\ \A n \in 1 .. N : g[n] = g[n - 1] + value[types[n]]
  BY <1>2 DEF Partial
<1> HIDE DEF N
<1> DEFINE Same == {n \in Nat : n <= N => f[n] = g[n]}
<1>5. 0 \in Same
  BY <1>3, <1>4
<1>6. ASSUME NEW n \in Same PROVE n + 1 \in Same
  <2> SUFFICES ASSUME n + 1 <= N PROVE f[n + 1] = g[n + 1]
    OBVIOUS
  <2>1. n \in Nat /\ n <= N /\ n + 1 \in 1 .. N /\ (n + 1) - 1 = n
    BY <1>1
  <2> QED BY <1>3, <1>4, <2>1
<1>7. Same = Nat
  <2>1. Same \in SUBSET Nat
    OBVIOUS
  <2> HIDE DEF Same
  <2> QED BY <1>5, <1>6, <2>1, NatInductive
<1>8. f[N] = g[N]
  BY <1>1, <1>7
<1> QED BY <1>2, <1>8 DEF N

\* One more type.
LEMMA TotalAppended ==
  ASSUME NEW value \in [NumberTypes -> Int], NEW types \in Seq(NumberTypes), NEW t \in NumberTypes
  PROVE  Total(value, types) \in Int /\ Total(value, Append(types, t)) = Total(value, types) + value[t]
<1> DEFINE N == Len(types)
           more == Append(types, t)
<1>1. N \in Nat /\ more \in Seq(NumberTypes) /\ Len(more) = N + 1 /\ value[t] \in Int
  OBVIOUS
<1>2. PICK f : Partial(f, value, types) /\ Total(value, types) = f[N]
  BY TotalPartial
<1>3. f \in [0 .. N -> Int] /\ f[0] = 0 /\ \A n \in 1 .. N : f[n] = f[n - 1] + value[types[n]]
  BY <1>2 DEF Partial
<1>4. more[N + 1] = t /\ \A n \in 1 .. N : more[n] = types[n]
  OBVIOUS
<1> HIDE DEF more, N
<1> DEFINE g == [n \in 0 .. N + 1 |-> IF n <= N THEN f[n] ELSE f[N] + value[t]]
<1>5. /\ g \in [0 .. N + 1 -> Int] /\ g[N + 1] = f[N] + value[t] /\ f[N] \in Int
      /\ \A n \in 0 .. N : g[n] = f[n]
  BY <1>1, <1>3
<1> HIDE DEF g
<1>6. g[0] = 0
  BY <1>1, <1>3, <1>5
<1>7. ASSUME NEW n \in 1 .. N + 1 PROVE g[n] = g[n - 1] + value[more[n]]
  <2>1. CASE n \in 1 .. N
    <3>1. n \in 0 .. N /\ n - 1 \in 0 .. N
      BY <1>1, <2>1
    <3> QED BY <1>3, <1>4, <1>5, <2>1, <3>1
  <2>2. CASE n = N + 1
    <3>1. n - 1 = N /\ N \in 0 .. N
      BY <1>1, <2>2
    <3> QED BY <1>4, <1>5, <2>2, <3>1
  <2> QED BY <1>1, <2>1, <2>2
<1>8. Partial(g, value, more)
  BY <1>1, <1>5, <1>6, <1>7 DEF Partial
<1>9. Total(value, more) = g[Len(more)]
  BY <1>1, <1>8, PartialIsOne
<1> QED BY <1>1, <1>2, <1>5, <1>9 DEF more

\* One type fewer: its value goes, and the others stay.
LEMMA TotalRemoved ==
  ASSUME NEW value \in [NumberTypes -> Int], NEW types \in Seq(NumberTypes), NEW e \in ToSet(types)
  PROVE  /\ RemoveFirst(types, e) \in Seq(NumberTypes)
         /\ Total(value, RemoveFirst(types, e)) = Total(value, types) - value[e]
         /\ \A t \in ToSet(types) : t # e => t \in ToSet(RemoveFirst(types, e))
         /\ ToSet(RemoveFirst(types, e)) \subseteq ToSet(types)
<1> DEFINE N == Len(types)
           rest == RemoveFirst(types, e)
<1>1. N \in Nat /\ \A n \in 1 .. N : types[n] \in NumberTypes /\ value[types[n]] \in Int
  OBVIOUS
\* The place of the first e.
<1>2. PICK m \in 1 .. N : types[m] = e /\ rest = RemoveAt(types, m)
  <2> DEFINE I == {j \in 1 .. N : types[j] = e}
  <2>1. I \in SUBSET Nat /\ I # {}
    BY DEF ToSet
  <2>2. \E m \in I : \A x \in I : m <= x
    BY <2>1, NatMin
  <2>3. Min(I) \in I
    BY <2>2 DEF Min
  <2>4. SelectInSeq(types, LAMBDA v : v = e) = Min(I)
    BY <2>1 DEF SelectInSeq
  <2>5. \E i \in 1 .. N : types[i] = e
    BY <2>1
  <2>6. rest = RemoveAt(types, SelectInSeq(types, LAMBDA v : v = e))
    BY <2>5 DEF RemoveFirst
  <2>7. rest = RemoveAt(types, Min(I))
    BY <2>4, <2>6
  <2> HIDE DEF rest
  <2> QED BY <2>3, <2>7
<1>3. /\ rest \in Seq(NumberTypes) /\ Len(rest) = N - 1
      /\ \A n \in 1 .. m - 1 : rest[n] = types[n]
      /\ \A n \in m .. N - 1 : rest[n] = types[n + 1]
  <2> DEFINE before == SubSeq(types, 1, m - 1)
             after  == SubSeq(types, m + 1, N)
  <2>1. /\ before \in Seq(NumberTypes) /\ Len(before) = m - 1
        /\ \A n \in 1 .. m - 1 : before[n] = types[n]
    <3>1. m - 1 \in Nat /\ \A j \in 1 .. m - 1 : types[j] \in NumberTypes
      BY <1>1
    <3> QED BY <1>1, <3>1
  <2>2. /\ after \in Seq(NumberTypes) /\ Len(after) = N - m
        /\ \A n \in 1 .. N - m : after[n] = types[m + n]
    <3>1. N - m \in Nat /\ m + 1 \in Int /\ \A j \in m + 1 .. N : types[j] \in NumberTypes
      BY <1>1
    <3>2. after \in Seq(NumberTypes) /\ Len(after) = N - m
      BY <1>1, <3>1
    <3>3. \A n \in 1 .. N - m : after[n] = types[(m + 1) + n - 1] /\ (m + 1) + n - 1 = m + n
      BY <1>1, <3>1
    <3> QED BY <3>2, <3>3
  <2>3. rest = before \o after
    BY <1>2 DEF RemoveAt
  <2> HIDE DEF before, after, rest, N
  <2>4. rest \in Seq(NumberTypes) /\ Len(rest) = (m - 1) + (N - m) /\ (m - 1) + (N - m) = N - 1
    BY <1>1, <2>1, <2>2, <2>3
  <2>5. \A n \in 1 .. m - 1 : rest[n] = before[n]
    BY <1>1, <2>1, <2>2, <2>3
  <2>6. \A n \in m .. N - 1 : rest[n] = after[n - (m - 1)]
    BY <1>1, <2>1, <2>2, <2>3
  <2>7. ASSUME NEW n \in m .. N - 1 PROVE rest[n] = types[n + 1]
    <3>1. n - (m - 1) \in 1 .. N - m /\ m + (n - (m - 1)) = n + 1
      BY <1>1
    <3> QED BY <2>2, <2>6, <3>1
  <2> QED BY <2>1, <2>4, <2>5, <2>7
<1> HIDE DEF rest
<1>4. PICK f : Partial(f, value, types) /\ Total(value, types) = f[N]
  BY TotalPartial
<1>5. f \in [0 .. N -> Int] /\ f[0] = 0 /\ \A n \in 1 .. N : f[n] = f[n - 1] + value[types[n]]
  BY <1>4 DEF Partial
<1>6. ToSet(types) = {types[n] : n \in 1 .. N} /\ ToSet(rest) = {rest[n] : n \in 1 .. N - 1}
  <2>1. DOMAIN types = 1 .. N /\ DOMAIN rest = 1 .. N - 1
    BY <1>3
  <2> HIDE DEF N
  <2> QED BY <2>1 DEF ToSet
<1> HIDE DEF N
<1> DEFINE g == [n \in 0 .. N - 1 |-> IF n < m THEN f[n] ELSE f[n + 1] - value[e]]
<1>7. value[e] \in Int
  BY <1>1, <1>2
<1>8. /\ g \in [0 .. N - 1 -> Int]
      /\ \A n \in 0 .. m - 1 : g[n] = f[n]
      /\ \A n \in m .. N - 1 : g[n] = f[n + 1] - value[e]
  <2>1. \A n \in 0 .. N - 1 : n \in 0 .. N /\ n + 1 \in 0 .. N
    BY <1>1
  <2>2. \A n \in 0 .. N - 1 : f[n] \in Int /\ f[n + 1] \in Int
    BY <1>5, <2>1
  <2>3. \A n \in 0 .. N - 1 : f[n + 1] - value[e] \in Int
    BY <1>7, <2>2
  <2>4. \A n \in 0 .. N - 1 : g[n] = IF n < m THEN f[n] ELSE f[n + 1] - value[e]
    OBVIOUS
  <2>5. g \in [0 .. N - 1 -> Int]
    BY <2>2, <2>3
  <2> HIDE DEF g
  <2>6. \A n \in 0 .. m - 1 : n \in 0 .. N - 1 /\ n < m
    BY <1>1
  <2>7. \A n \in m .. N - 1 : n \in 0 .. N - 1 /\ ~(n < m)
    BY <1>1
  <2> QED BY <2>4, <2>5, <2>6, <2>7
<1> HIDE DEF g
<1>9. g[0] = 0
  BY <1>1, <1>5, <1>8
<1>10. f[m] = f[m - 1] + value[e] /\ f[m - 1] \in Int
  <2>1. m - 1 \in 0 .. N
    BY <1>1
  <2> QED BY <1>2, <1>5, <2>1
<1>11. ASSUME NEW n \in 1 .. N - 1 PROVE g[n] = g[n - 1] + value[rest[n]]
  <2>1. CASE n < m
    <3>1. n \in 0 .. m - 1 /\ n - 1 \in 0 .. m - 1 /\ n \in 1 .. m - 1 /\ n \in 1 .. N
      BY <1>1, <2>1
    <3> QED BY <1>3, <1>5, <1>8, <3>1
  <2>2. CASE n = m
    <3>1. n \in m .. N - 1 /\ n - 1 \in 0 .. m - 1 /\ n + 1 \in 1 .. N /\ (n + 1) - 1 = m /\ n - 1 = m - 1
      BY <1>1, <2>2
    <3>2. g[n] = f[n + 1] - value[e] /\ g[n - 1] = f[m - 1] /\ rest[n] = types[n + 1]
      BY <1>3, <1>8, <3>1
    <3>3. f[n + 1] = f[m] + value[types[n + 1]] /\ value[types[n + 1]] \in Int
      BY <1>1, <1>5, <3>1
    <3> QED BY <1>7, <1>10, <3>2, <3>3
  <2>3. CASE n > m
    <3>1. n \in m .. N - 1 /\ n - 1 \in m .. N - 1 /\ n + 1 \in 1 .. N /\ (n + 1) - 1 = n /\ (n - 1) + 1 = n
          /\ n \in 0 .. N
      BY <1>1, <2>3
    <3>2. g[n] = f[n + 1] - value[e] /\ g[n - 1] = f[n] - value[e] /\ rest[n] = types[n + 1]
      BY <1>3, <1>8, <3>1
    <3>3. f[n + 1] = f[n] + value[types[n + 1]] /\ value[types[n + 1]] \in Int /\ f[n] \in Int
      BY <1>1, <1>5, <3>1
    <3> QED BY <1>7, <3>2, <3>3
  <2> QED BY <1>1, <2>1, <2>2, <2>3
<1>12. Partial(g, value, rest)
  BY <1>3, <1>8, <1>9, <1>11 DEF Partial
<1>13. Total(value, rest) = g[N - 1]
  BY <1>3, <1>12, PartialIsOne
<1>14. g[N - 1] = f[N] - value[e]
  <2>1. CASE m = N
    <3>1. N - 1 \in 0 .. m - 1 /\ m - 1 = N - 1
      BY <1>1, <2>1
    <3>2. g[N - 1] = f[m - 1]
      BY <1>8, <3>1
    <3> QED BY <1>7, <1>10, <2>1, <3>2
  <2>2. CASE m < N
    <3>1. N - 1 \in m .. N - 1 /\ (N - 1) + 1 = N
      BY <1>1, <2>2
    <3> QED BY <1>8, <3>1
  <2> QED BY <1>1, <2>1, <2>2
<1>15. \A n \in 1 .. N : types[n] # e => types[n] \in ToSet(rest)
  <2> TAKE n \in 1 .. N
  <2> HAVE types[n] # e
  <2>1. CASE n < m
    <3>1. n \in 1 .. m - 1 /\ n \in 1 .. N - 1
      BY <1>1, <2>1
    <3> QED BY <1>3, <1>6, <3>1
  <2>2. CASE n > m
    <3>1. n - 1 \in m .. N - 1 /\ n - 1 \in 1 .. N - 1 /\ (n - 1) + 1 = n
      BY <1>1, <2>2
    <3>2. rest[n - 1] = types[n]
      BY <1>3, <3>1
    <3> QED BY <1>6, <3>1, <3>2
  <2> QED BY <1>1, <1>2, <2>1, <2>2
<1>16. \A n \in 1 .. N - 1 : rest[n] \in ToSet(types)
  <2> TAKE n \in 1 .. N - 1
  <2>1. CASE n < m
    <3>1. n \in 1 .. m - 1 /\ n \in 1 .. N
      BY <1>1, <2>1
    <3> QED BY <1>3, <1>6, <3>1
  <2>2. CASE n >= m
    <3>1. n \in m .. N - 1 /\ n + 1 \in 1 .. N
      BY <1>1, <2>2
    <3> QED BY <1>3, <1>6, <3>1
  <2> QED BY <1>1, <2>1, <2>2
<1> QED BY <1>3, <1>4, <1>6, <1>13, <1>14, <1>15, <1>16 DEF rest

\* Two or three different types fewer.
LEMMA TotalWithout ==
  ASSUME NEW value \in [NumberTypes -> Int], NEW types \in Seq(NumberTypes), NEW gone \in Seq(NumberTypes),
         Len(gone) \in {2, 3}, \A n \in 1 .. Len(gone) : gone[n] \in ToSet(types),
         gone[1] # gone[2], Len(gone) = 3 => gone[1] # gone[3] /\ gone[2] # gone[3]
  PROVE  /\ Without(types, gone) \in Seq(NumberTypes)
         /\ ToSet(Without(types, gone)) \subseteq ToSet(types)
         /\ Total(value, types) = Total(value, Without(types, gone)) + (value[gone[1]] + value[gone[2]])
                                 + (IF Len(gone) = 2 THEN 0 ELSE value[gone[3]])
<1>1. PICK rest : /\ Without(types, gone) = rest[Len(gone)]
                  /\ \A n \in 0 .. Len(gone) : rest[n] = IF n = 0 THEN types ELSE RemoveFirst(rest[n - 1], gone[n])
  BY WithoutSteps
<1>2. /\ rest[0] = types /\ rest[1] = RemoveFirst(types, gone[1]) /\ rest[2] = RemoveFirst(rest[1], gone[2])
      /\ Len(gone) = 3 => rest[3] = RemoveFirst(rest[2], gone[3])
  BY <1>1
<1>3. gone[1] \in ToSet(types) /\ gone[2] \in ToSet(types) /\ (Len(gone) = 3 => gone[3] \in ToSet(types))
  OBVIOUS
<1>4. \A t \in ToSet(types) : t \in NumberTypes
  BY DEF ToSet
<1> DEFINE r1 == rest[1]
           r2 == rest[2]
           r3 == rest[3]
           x  == gone[1]
           y  == gone[2]
           z  == gone[3]
<1>5. /\ r1 = RemoveFirst(types, x) /\ r2 = RemoveFirst(r1, y) /\ (Len(gone) = 3 => r3 = RemoveFirst(r2, z))
      /\ x \in ToSet(types) /\ y \in ToSet(types) /\ (Len(gone) = 3 => z \in ToSet(types))
      /\ x # y /\ (Len(gone) = 3 => x # z /\ y # z)
  BY <1>2, <1>3
<1>6. Without(types, gone) = IF Len(gone) = 2 THEN r2 ELSE r3
  BY <1>1
<1> HIDE DEF r1, r2, r3, x, y, z
<1>7. value[x] \in Int /\ value[y] \in Int /\ (Len(gone) = 3 => value[z] \in Int)
  BY <1>4, <1>5
<1>8. /\ r1 \in Seq(NumberTypes)
      /\ Total(value, r1) = Total(value, types) - value[x]
      /\ \A t \in ToSet(types) : t # x => t \in ToSet(r1)
      /\ ToSet(r1) \subseteq ToSet(types)
  BY <1>5, TotalRemoved
<1>9. y \in ToSet(r1) /\ (Len(gone) = 3 => z \in ToSet(r1))
  BY <1>5, <1>8
<1>10. /\ r2 \in Seq(NumberTypes)
       /\ Total(value, r2) = Total(value, r1) - value[y]
       /\ \A t \in ToSet(r1) : t # y => t \in ToSet(r2)
       /\ ToSet(r2) \subseteq ToSet(r1)
  BY <1>5, <1>8, <1>9, TotalRemoved
<1>11. Total(value, types) \in Int /\ Total(value, r1) \in Int /\ Total(value, r2) \in Int
  BY <1>8, <1>10, TotalAppended, TypesSplit
<1> DEFINE t  == Total(value, types)
           t1 == Total(value, r1)
           t2 == Total(value, r2)
           vx == value[x]
           vy == value[y]
<1>12. /\ t \in Int /\ t1 \in Int /\ t2 \in Int /\ vx \in Int /\ vy \in Int
       /\ t1 = t - vx /\ t2 = t1 - vy
  BY <1>7, <1>8, <1>10, <1>11
<1>13. ToSet(r2) \subseteq ToSet(types)
  BY <1>8, <1>10
<1>14. \A u \in Seq(NumberTypes) : \A e \in ToSet(u) :
         /\ RemoveFirst(u, e) \in Seq(NumberTypes)
         /\ Total(value, RemoveFirst(u, e)) = Total(value, u) - value[e]
         /\ ToSet(RemoveFirst(u, e)) \subseteq ToSet(u)
  BY TotalRemoved
<1>15. CASE Len(gone) = 2
  <2>1. Without(types, gone) = r2
    BY <1>6, <1>15
  <2> HIDE DEF t, t1, t2, vx, vy
  <2>2. t = t2 + (vx + vy) + 0
    BY <1>12
  <2> QED BY <1>10, <1>13, <1>15, <2>1, <2>2 DEF t, t2, vx, vy, x, y
<1>16. CASE Len(gone) = 3
  <2>1. z \in ToSet(r2) /\ Without(types, gone) = r3
    BY <1>5, <1>6, <1>9, <1>10, <1>16
  <2>2. r3 = RemoveFirst(r2, z) /\ value[z] \in Int
    BY <1>5, <1>7, <1>16
  <2>3. r2 \in Seq(NumberTypes)
    BY <1>10
  <2>4. /\ r3 \in Seq(NumberTypes)
        /\ Total(value, r3) = Total(value, r2) - value[z]
        /\ ToSet(r3) \subseteq ToSet(r2)
    BY <2>1, <2>2, <2>3, <1>14
  <2>5. Total(value, r3) \in Int
    BY <2>4, TotalAppended, TypesSplit
  <2> DEFINE t3 == Total(value, r3)
             vz == value[z]
  <2>6. t3 \in Int /\ vz \in Int /\ t3 = t2 - vz
    BY <2>2, <2>4, <2>5
  <2> HIDE DEF t, t1, t2, t3, vx, vy, vz
  <2>7. t = t3 + (vx + vy) + vz
    BY <1>12, <2>6
  <2> QED BY <1>13, <1>16, <2>1, <2>4, <2>7 DEF t, t3, vx, vy, vz, x, y, z
<1> QED BY <1>15, <1>16

------------------------------------------------------------------------------
(***************************************************************************)
(* The simplification of a sum of several types.                           *)
(***************************************************************************)
\* Types that name a launch quantity have its value; the others have any.
Agrees(value) == \A t \in NumberTypes : Named(t) => value[t] = Denoted(t)

\* No operand is known to be a number of groups.
NoGroups(types) == \A t \in ToSet(types) : t[1] # "NUM_GROUPS"

\* The first three combinations are the sum of what they consume.
LEMMA CombinationDenotes ==
  ASSUME NEW value \in [NumberTypes -> Int], Agrees(value), NEW i \in 1 .. 3, NEW d \in DOMAIN Launch
  PROVE  LET c == SumSimplifyCombinations[i]
             gone == Consumed(c, d)
         IN  /\ Len(gone) \in {2, 3} /\ DOMAIN c.of = 1 .. Len(gone) /\ c.to = "GLOBAL_ID"
             /\ \A n \in 1 .. Len(gone) : gone[n] = <<c.of[n], d>>
             /\ gone[1] # gone[2] /\ (Len(gone) = 3 => gone[1] # gone[3] /\ gone[2] # gone[3])
             /\ value[<<c.to, d>>] = (value[gone[1]] + value[gone[2]]) + (IF Len(gone) = 2 THEN 0 ELSE value[gone[3]])
<1> DEFINE c == SumSimplifyCombinations[i]
           gone == Consumed(c, d)
           l == Launch[d]
           m == Meaning(l)
<1>1. /\ c.to = "GLOBAL_ID" /\ DOMAIN c.of = 1 .. Len(c.of)
      /\ \/ Len(c.of) = 3 /\ c.of[1] = "GLOBAL_OFFSET" /\ c.of[2] = "WORK_ITEM_ID"
            /\ c.of[3] = "WORK_GROUP_ID_LOCAL_SIZE"
         \/ Len(c.of) = 2 /\ c.of[1] = "GLOBAL_OFFSET" /\ c.of[2] = "WORK_GROUP_ID_WORK_ITEM_ID"
         \/ Len(c.of) = 2 /\ c.of[1] = "WORK_ITEM_ID" /\ c.of[2] = "WORK_GROUP_ID_LOCAL_SIZE_OFFSET"
  BY DEF SumSimplifyCombinations
<1> HIDE DEF c
<1>2. gone \in Seq(NumberTypes) /\ DOMAIN gone = 1 .. Len(c.of) /\ \A n \in 1 .. Len(c.of) : gone[n] = <<c.of[n], d>>
  <2>1. gone \in Seq(NumberTypes)
    <3>1. i \in 1 .. 4
      OBVIOUS
    <3>2. Consumed(SumSimplifyCombinations[i], d) \in Seq(NumberTypes)
      BY <3>1, ConsumedIsList
    <3> QED BY <3>2 DEF c
  <2>2. DOMAIN gone = 1 .. Len(c.of) /\ \A n \in 1 .. Len(c.of) : gone[n] = <<c.of[n], d>>
    BY <1>1 DEF Consumed
  <2> QED BY <2>1, <2>2
<1>3. Len(gone) = Len(c.of)
  <2> HIDE DEF gone
  <2>1. Len(gone) \in Nat /\ DOMAIN gone = 1 .. Len(gone)
    BY <1>2
  <2> QED BY <1>1, <1>2, <2>1
<1> HIDE DEF gone
<1>4. ASSUME NEW q \in Quantities PROVE value[<<q, d>>] = m[q] /\ m[q] \in Int
  BY Quantity DEF Agrees
<1>5. /\ l.group \in Int /\ l.size \in Int /\ l.item \in Int /\ l.offset \in Int
  BY LaunchAssumption
<1>6. l.group * l.size \in Int
  BY <1>5
<1> HIDE DEF l
<1>7. /\ m["WORK_ITEM_ID"] = l.item /\ m["GLOBAL_OFFSET"] = l.offset
      /\ m["WORK_GROUP_ID_LOCAL_SIZE"] = l.group * l.size
      /\ m["WORK_GROUP_ID_LOCAL_SIZE_OFFSET"] = l.group * l.size + l.offset
      /\ m["WORK_GROUP_ID_WORK_ITEM_ID"] = l.group * l.size + l.item
      /\ m["GLOBAL_ID"] = l.group * l.size + l.item + l.offset
  BY DEF Meaning
<1> HIDE DEF m
<1>8. /\ m["GLOBAL_ID"] = (m["GLOBAL_OFFSET"] + m["WORK_ITEM_ID"]) + m["WORK_GROUP_ID_LOCAL_SIZE"]
      /\ m["GLOBAL_ID"] = (m["GLOBAL_OFFSET"] + m["WORK_GROUP_ID_WORK_ITEM_ID"]) + 0
      /\ m["GLOBAL_ID"] = (m["WORK_ITEM_ID"] + m["WORK_GROUP_ID_LOCAL_SIZE_OFFSET"]) + 0
  BY <1>5, <1>6, <1>7
<1>9. /\ value[<<"GLOBAL_ID", d>>] = m["GLOBAL_ID"] /\ value[<<"GLOBAL_OFFSET", d>>] = m["GLOBAL_OFFSET"]
      /\ value[<<"WORK_ITEM_ID", d>>] = m["WORK_ITEM_ID"]
      /\ value[<<"WORK_GROUP_ID_LOCAL_SIZE", d>>] = m["WORK_GROUP_ID_LOCAL_SIZE"]
      /\ value[<<"WORK_GROUP_ID_WORK_ITEM_ID", d>>] = m["WORK_GROUP_ID_WORK_ITEM_ID"]
      /\ value[<<"WORK_GROUP_ID_LOCAL_SIZE_OFFSET", d>>] = m["WORK_GROUP_ID_LOCAL_SIZE_OFFSET"]
  BY <1>4 DEF Quantities
<1>10. gone[1] = <<c.of[1], d>> /\ gone[2] = <<c.of[2], d>> /\ (Len(gone) = 3 => gone[3] = <<c.of[3], d>>)
  <2>1. 1 \in 1 .. Len(c.of) /\ 2 \in 1 .. Len(c.of) /\ (Len(c.of) = 3 => 3 \in 1 .. Len(c.of))
    BY <1>1
  <2> QED BY <1>2, <1>3, <2>1
<1>11. value[<<c.to, d>>] = (value[gone[1]] + value[gone[2]]) + (IF Len(gone) = 2 THEN 0 ELSE value[gone[3]])
  BY <1>1, <1>3, <1>8, <1>9, <1>10
<1>12. gone[1] # gone[2] /\ (Len(gone) = 3 => gone[1] # gone[3] /\ gone[2] # gone[3])
  BY <1>1, <1>3, <1>10
<1> QED BY <1>1, <1>2, <1>3, <1>11, <1>12 DEF gone, c

\* A round keeps the sum.
LEMMA ReducedKeepsSum ==
  ASSUME NEW value \in [NumberTypes -> Int], Agrees(value),
         NEW types \in Seq(NumberTypes), Len(types) > 0, NoGroups(types)
  PROVE  NoGroups(Reduced(types)) /\ Total(value, Reduced(types)) = Total(value, types)
<1> SUFFICES ASSUME Reduced(types) # types
             PROVE  NoGroups(Reduced(types)) /\ Total(value, Reduced(types)) = Total(value, types)
  OBVIOUS
<1>1. PICK i \in 1 .. 4, d \in DOMAIN Launch :
        /\ Applicable(types, i, d)
        /\ Reduced(types) = Append(Without(types, Consumed(SumSimplifyCombinations[i], d)),
                                  <<SumSimplifyCombinations[i].to, d>>)
  BY ReducedShape
<1> DEFINE c == SumSimplifyCombinations[i]
           gone == Consumed(c, d)
           rest == Without(types, gone)
           e    == <<c.to, d>>
<1>2. \A n \in DOMAIN c.of : <<c.of[n], d>> \in ToSet(types)
  BY <1>1 DEF Applicable
<1>3. i \in 1 .. 3
  <2>1. i = 4 => 1 \in DOMAIN c.of /\ c.of[1] = "NUM_GROUPS"
    BY DEF SumSimplifyCombinations
  <2>2. i # 4
    <3> HIDE DEF c
    <3> QED BY <1>2, <2>1 DEF NoGroups
  <2> QED BY <2>2
<1>4. /\ Len(gone) \in {2, 3} /\ DOMAIN c.of = 1 .. Len(gone) /\ c.to = "GLOBAL_ID"
      /\ \A n \in 1 .. Len(gone) : gone[n] = <<c.of[n], d>>
      /\ gone[1] # gone[2] /\ (Len(gone) = 3 => gone[1] # gone[3] /\ gone[2] # gone[3])
      /\ value[e] = (value[gone[1]] + value[gone[2]]) + (IF Len(gone) = 2 THEN 0 ELSE value[gone[3]])
  BY <1>3, CombinationDenotes
<1>5. gone \in Seq(NumberTypes) /\ e \in NumberTypes
  BY ConsumedIsList
<1>6. Reduced(types) = Append(rest, e)
  BY <1>1
<1> HIDE DEF gone, c
<1>7. \A n \in 1 .. Len(gone) : gone[n] \in ToSet(types)
  BY <1>2, <1>4
<1>8. /\ rest \in Seq(NumberTypes) /\ ToSet(rest) \subseteq ToSet(types)
      /\ Total(value, types) = Total(value, rest) + (value[gone[1]] + value[gone[2]])
                              + (IF Len(gone) = 2 THEN 0 ELSE value[gone[3]])
  BY <1>4, <1>5, <1>7, TotalWithout
<1>9. /\ value[gone[1]] \in Int /\ value[gone[2]] \in Int /\ (Len(gone) = 3 => value[gone[3]] \in Int)
  BY <1>4, <1>5
<1>10. e[1] # "NUM_GROUPS"
  BY <1>4
<1> HIDE DEF rest, e
<1>11. Total(value, rest) \in Int /\ Total(value, Append(rest, e)) = Total(value, rest) + value[e]
  BY <1>5, <1>8, TotalAppended
<1>12. Total(value, Append(rest, e)) = Total(value, types)
  BY <1>4, <1>8, <1>9, <1>11
<1>13. NoGroups(Append(rest, e))
  <2>1. \A t \in ToSet(Append(rest, e)) : t \in ToSet(rest) \/ t = e
    BY <1>5, <1>8 DEF ToSet
  <2> QED BY <1>8, <1>10, <2>1 DEF NoGroups
<1> QED BY <1>6, <1>12, <1>13

(* maybe_simplify (operation_register_content.py), whatever the launch and  *)
(* however long the list: replacing the types of operands by GLOBAL_ID, as  *)
(* often as it applies, keeps what the operands add up to, where an operand *)
(* without a type of its own may have any value. Without the number of      *)
(* groups, which the fourth combination takes for a summand.                *)
THEOREM SimplifiedKeepsSum ==
  ASSUME NEW value \in [NumberTypes -> Int], Agrees(value),
         NEW types \in Seq(NumberTypes), Len(types) > 0, NoGroups(types)
  PROVE  Total(value, Simplified(types)) = Total(value, types)
<1> DEFINE S == {s \in Seq(NumberTypes) :
                   Len(s) > 0 /\ NoGroups(s) /\ Total(value, s) = Total(value, types)}
<1>1. S \in SUBSET Seq(NumberTypes) /\ types \in S
  OBVIOUS
<1>2. \A s \in S : Reduced(s) \in S
  <2> TAKE s \in S
  <2>1. s \in Seq(NumberTypes) /\ Len(s) > 0 /\ NoGroups(s) /\ Total(value, s) = Total(value, types)
    OBVIOUS
  <2>2. Reduced(s) \in Seq(NumberTypes) /\ Len(Reduced(s)) > 0
    BY <2>1, ReducedIsList
  <2>3. NoGroups(Reduced(s)) /\ Total(value, Reduced(s)) = Total(value, s)
    BY <2>1, ReducedKeepsSum
  <2> QED BY <2>1, <2>2, <2>3
<1>3. Simplified(types) \in S
  <2> HIDE DEF S
  <2> QED BY <1>1, <1>2, SimplifiedKeeps
<1> QED BY <1>3
=============================================================================
