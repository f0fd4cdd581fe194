-------------------------- MODULE OpenCLTypesProofs --------------------------
(***************************************************************************)
(* The common type of operands: any number of components, sizes of any     *)
(* width.                                                                  *)
(***************************************************************************)
EXTENDS MCTypes, TLAPS

\* Types of n components; a floating-point type counts as signed.
Vectors(n) ==
  {t \in [size : Nat \ {0}, signed : BOOLEAN, integer : BOOLEAN, components : {n}] :
     t.integer = FALSE => t.signed = TRUE}
\* The operands of one sum: vectors of as many components, or values of unknown type.
Operands(n) == Vectors(n) \cup {UNKNOWN}

\* What decides between two types: integers give way to floating point, then signed integers that
\* are not wider to unsigned ones.
Joined(t, u, j, n) ==
  /\ j \in Vectors(n)
  /\ j.size = Larger(t.size, u.size)
  /\ j.integer <=> t.integer /\ u.integer
  /\ j.signed <=> \/ ~j.integer
                  \/ t.signed /\ u.signed
                  \/ t.signed /\ t.size > u.size
                  \/ u.signed /\ u.size > t.size------------------------------------------------------------------------------
LEMMA WidenedIs ==
  ASSUME NEW s, NEW g, NEW i, NEW n, NEW t, t = Type(s, g, i, n), NEW u, Larger(n, u.components) = n
  PROVE  Widened(t, u) = Type(Larger(s, u.size), g, i, n)
<1> DEFINE a == Larger(s, u.size)
<1> HIDE DEF a
<1>1. t \in [size : {s}, signed : {g}, integer : {i}, components : {n}] /\ t.size = s /\ t.components = n
  BY DEF Type
<1>2. [t EXCEPT !.size = a, !.components = n] \in [size : {a}, signed : {g}, integer : {i}, components : {n}]
  BY <1>1
<1>3. ASSUME NEW w, w \in [size : {a}, signed : {g}, integer : {i}, components : {n}]
      PROVE  w = Type(a, g, i, n)
  BY <1>3 DEF Type
<1>4. Widened(t, u) = [t EXCEPT !.size = a, !.components = n]
  BY <1>1 DEF Widened, a
<1> QED
  BY <1>2, <1>3, <1>4 DEF a

LEMMA VectorFields ==
  ASSUME NEW n \in Nat \ {0}, NEW t \in Vectors(n)
  PROVE  /\ t.size \in Nat \ {0} /\ t.signed \in BOOLEAN /\ t.integer \in BOOLEAN /\ t.components = n
         /\ t = Type(t.size, t.signed, t.integer, n)
         /\ t.integer \/ t.signed
         /\ t # UNKNOWN
  BY DEF Vectors, Type, UNKNOWN

LEMMA VectorOf ==
  ASSUME NEW n \in Nat \ {0}, NEW s \in Nat \ {0}, NEW g \in BOOLEAN, NEW i \in BOOLEAN, i \/ g
  PROVE  Type(s, g, i, n) \in Vectors(n)
  BY DEF Vectors, Type

\* Two vectors as long are as large if and only if their components are.
LEMMA SameSize ==
  ASSUME NEW n \in Nat \ {0}, NEW t \in Vectors(n), NEW u \in Vectors(n)
  PROVE  get_size(t) = get_size(u) <=> t.size = u.size
<1>1. ASSUME NEW x \in Nat, NEW y \in Nat, x < y PROVE x * n < y * n
  <2>1. PICK d \in Nat \ {0} : y = x + d
    <3>1. y - x \in Nat \ {0} /\ y = x + (y - x)
      BY <1>1
    <3> QED
      BY <3>1
  <2>2. y * n = x * n + d * n
    BY <2>1
  <2>3. d * n > 0 /\ d * n \in Nat /\ x * n \in Nat
    OBVIOUS
  <2> QED
    BY <2>2, <2>3
<1>2. t.size \in Nat /\ u.size \in Nat /\ get_size(t) = t.size * n /\ get_size(u) = u.size * n
  BY VectorFields DEF get_size
<1>3. CASE t.size < u.size
  BY <1>1, <1>2, <1>3
<1>4. CASE u.size < t.size
  BY <1>1, <1>2, <1>4
<1> QED
  BY <1>2, <1>3, <1>4

LEMMA JoinOfVectors ==
  ASSUME NEW n \in Nat \ {0}, NEW t \in Vectors(n), NEW u \in Vectors(n)
  PROVE  Joined(t, u, get_common_type(t, u), n)
<1> DEFINE j == get_common_type(t, u)
<1>f. /\ t.size \in Nat \ {0} /\ t.signed \in BOOLEAN /\ t.integer \in BOOLEAN /\ t.components = n
      /\ u.size \in Nat \ {0} /\ u.signed \in BOOLEAN /\ u.integer \in BOOLEAN /\ u.components = n
      /\ t = Type(t.size, t.signed, t.integer, n) /\ u = Type(u.size, u.signed, u.integer, n)
      /\ t.integer \/ t.signed
      /\ u.integer \/ u.signed
      /\ t # UNKNOWN /\ u # UNKNOWN
  BY VectorFields
<1>n. Larger(n, n) = n /\ \A m \in Nat : Larger(m, m) = m
  BY DEF Larger
<1>s. Larger(t.size, u.size) \in Nat \ {0} /\ Larger(u.size, t.size) = Larger(t.size, u.size)
  BY <1>f DEF Larger
<1>w. /\ Widened(t, u) = Type(Larger(t.size, u.size), t.signed, t.integer, n)
      /\ Widened(u, t) = Type(Larger(t.size, u.size), u.signed, u.integer, n)
  BY <1>f, <1>n, <1>s, WidenedIs
<1>t. ASSUME NEW s, NEW g, NEW i
      PROVE  Type(s, g, i, n).size = s /\ Type(s, g, i, n).signed = g /\ Type(s, g, i, n).integer = i
  BY DEF Type
<1>1. CASE t = u
  <2>1. j = t
    BY <1>1 DEF get_common_type
  <2>2. Larger(t.size, u.size) = t.size
    BY <1>1, <1>f, <1>n
  <2> QED
    BY <2>1, <2>2, <1>1, <1>f DEF Joined
<1>2. CASE t # u /\ t.integer # u.integer
  <2>1. CASE t.integer /\ ~u.integer
    <3>1. j = FloatOf(u, t)
      BY <2>1, <1>2, <1>f DEF get_common_type
    <3>2. j = Type(Larger(t.size, u.size), u.signed, u.integer, n)
      <4>1. CASE get_size(t) = get_size(u)
        BY <4>1, <3>1, SameSize, <1>f, <1>n DEF FloatOf
      <4>2. CASE get_size(t) # get_size(u)
        BY <4>2, <3>1, <1>w DEF FloatOf
      <4> QED
        BY <4>1, <4>2
    <3> QED
      BY <3>2, <2>1, <1>f, <1>s, <1>t, VectorOf DEF Joined
  <2>2. CASE ~t.integer /\ u.integer
    <3>1. j = FloatOf(t, u)
      BY <2>2, <1>2, <1>f DEF get_common_type
    <3>2. j = Type(Larger(t.size, u.size), t.signed, t.integer, n)
      <4>1. CASE get_size(t) = get_size(u)
        BY <4>1, <3>1, SameSize, <1>f, <1>n DEF FloatOf
      <4>2. CASE get_size(t) # get_size(u)
        BY <4>2, <3>1, <1>w DEF FloatOf
      <4> QED
        BY <4>1, <4>2
    <3> QED
      BY <3>2, <2>2, <1>f, <1>s, <1>t, VectorOf DEF Joined
  <2> QED
    BY <2>1, <2>2, <1>2, <1>f
<1>3. CASE t # u /\ t.integer = u.integer /\ t.signed = u.signed
  <2>1. j = Widened(t, u)
    BY <1>3, <1>f DEF get_common_type
  <2> QED
    BY <2>1, <1>3, <1>f, <1>s, <1>t, <1>w, VectorOf DEF Joined
<1>4. CASE t.integer = u.integer /\ t.signed # u.signed
  <2>1. t.integer /\ u.integer
    BY <1>4, <1>f
  <2>2. CASE t.signed /\ ~u.signed
    <3>1. j = IntegerOf(t, u)
      BY <2>1, <2>2, <1>f DEF get_common_type
    <3>2. /\ j \in Vectors(n) /\ j.size = Larger(t.size, u.size) /\ j.integer
          /\ j.signed <=> t.size > u.size
      <4>1. CASE u.size >= t.size
        <5>1. ~(t.size > u.size) /\ Larger(t.size, u.size) = u.size
          BY <4>1, <1>f DEF Larger
        <5>2. j = Type(u.size, FALSE, TRUE, n)
          BY <4>1, <3>1, <2>1, <2>2, <1>f, <1>n DEF IntegerOf, Type
        <5>3. Type(u.size, FALSE, TRUE, n) \in Vectors(n)
          BY <1>f, VectorOf
        <5>4. /\ Type(u.size, FALSE, TRUE, n).size = u.size
              /\ Type(u.size, FALSE, TRUE, n).integer = TRUE /\ Type(u.size, FALSE, TRUE, n).signed = FALSE
          BY DEF Type
        <5> QED
          BY <5>1, <5>2, <5>3, <5>4
      <4>2. CASE ~(u.size >= t.size)
        <5>1. t.size > u.size /\ Larger(t.size, u.size) = t.size
          BY <4>2, <1>f DEF Larger
        <5>2. j = Type(t.size, TRUE, TRUE, n)
          BY <4>2, <3>1, <2>1, <2>2, <1>f, <1>n DEF IntegerOf, Type
        <5>3. Type(t.size, TRUE, TRUE, n) \in Vectors(n)
          BY <1>f, VectorOf
        <5>4. /\ Type(t.size, TRUE, TRUE, n).size = t.size
              /\ Type(t.size, TRUE, TRUE, n).integer = TRUE /\ Type(t.size, TRUE, TRUE, n).signed = TRUE
          BY DEF Type
        <5> QED
          BY <5>1, <5>2, <5>3, <5>4
      <4> QED
        BY <4>1, <4>2
    <3> QED
      BY <3>2, <2>1, <2>2, <1>f DEF Joined
  <2>3. CASE ~t.signed /\ u.signed
    <3>1. j = IntegerOf(u, t)
      BY <2>1, <2>3, <1>f DEF get_common_type
    <3>2. /\ j \in Vectors(n) /\ j.size = Larger(t.size, u.size) /\ j.integer
          /\ j.signed <=> u.size > t.size
      <4>1. CASE t.size >= u.size
        <5>1. ~(u.size > t.size) /\ Larger(t.size, u.size) = t.size
          BY <4>1, <1>f DEF Larger
        <5>2. j = Type(t.size, FALSE, TRUE, n)
          BY <4>1, <3>1, <2>1, <2>3, <1>f, <1>n DEF IntegerOf, Type
        <5>3. Type(t.size, FALSE, TRUE, n) \in Vectors(n)
          BY <1>f, VectorOf
        <5>4. /\ Type(t.size, FALSE, TRUE, n).size = t.size
              /\ Type(t.size, FALSE, TRUE, n).integer = TRUE /\ Type(t.size, FALSE, TRUE, n).signed = FALSE
          BY DEF Type
        <5> QED
          BY <5>1, <5>2, <5>3, <5>4
      <4>2. CASE ~(t.size >= u.size)
        <5>1. u.size > t.size /\ Larger(t.size, u.size) = u.size
          BY <4>2, <1>f DEF Larger
        <5>2. j = Type(u.size, TRUE, TRUE, n)
          BY <4>2, <3>1, <2>1, <2>3, <1>f, <1>n DEF IntegerOf, Type
        <5>3. Type(u.size, TRUE, TRUE, n) \in Vectors(n)
          BY <1>f, VectorOf
        <5>4. /\ Type(u.size, TRUE, TRUE, n).size = u.size
              /\ Type(u.size, TRUE, TRUE, n).integer = TRUE /\ Type(u.size, TRUE, TRUE, n).signed = TRUE
          BY DEF Type
        <5> QED
          BY <5>1, <5>2, <5>3, <5>4
      <4> QED
        BY <4>1, <4>2
    <3> QED
      BY <3>2, <2>1, <2>3, <1>f DEF Joined
  <2> QED
    BY <2>2, <2>3, <1>4, <1>f
<1> QED
  BY <1>1, <1>2, <1>3, <1>4

\* A value of unknown type takes the type of the other.
LEMMA JoinWithUnknown ==
  ASSUME NEW t
  PROVE  get_common_type(t, UNKNOWN) = t /\ get_common_type(UNKNOWN, t) = t
<1>1. CASE t = UNKNOWN
  BY <1>1 DEF get_common_type
<1>2. CASE t # UNKNOWN
  BY <1>2 DEF get_common_type
<1> QED
  BY <1>1, <1>2

\* Types that agree in their fields are equal.
LEMMA JoinedUnique ==
  ASSUME NEW n \in Nat \ {0}, NEW j \in Vectors(n), NEW k \in Vectors(n),
         j.size = k.size, j.signed = k.signed, j.integer = k.integer
  PROVE  j = k
  BY VectorFields

LEMMA OperandsClosed ==
  ASSUME NEW n \in Nat \ {0}, NEW t \in Operands(n), NEW u \in Operands(n)
  PROVE  get_common_type(t, u) \in Operands(n)
<1>1. CASE t = UNKNOWN \/ u = UNKNOWN
  BY <1>1, JoinWithUnknown
<1>2. CASE t \in Vectors(n) /\ u \in Vectors(n)
  BY <1>2, JoinOfVectors DEF Joined, Operands
<1> QED
  BY <1>1, <1>2 DEF Operands
------------------------------------------------------------------------------
(***************************************************************************)
(* The order of operands.                                                  *)
(***************************************************************************)
\* The common type of two operands does not depend on their order, whatever their sizes and however
\* many components they have (get_common_type of expression_node.py).
THEOREM CommonTypeCommutes ==
  ASSUME NEW n \in Nat \ {0}, NEW t \in Operands(n), NEW u \in Operands(n)
  PROVE  get_common_type(t, u) = get_common_type(u, t)
<1>1. CASE t = UNKNOWN \/ u = UNKNOWN
  BY <1>1, JoinWithUnknown
<1>2. CASE t \in Vectors(n) /\ u \in Vectors(n)
  <2> DEFINE j == get_common_type(t, u)
             k == get_common_type(u, t)
  <2>1. Joined(t, u, j, n) /\ Joined(u, t, k, n)
    BY <1>2, JoinOfVectors
  <2>2. t.size \in Nat /\ u.size \in Nat
    BY <1>2, VectorFields
  <2> HIDE DEF j, k
  <2>3. j \in Vectors(n) /\ k \in Vectors(n)
    BY <2>1 DEF Joined
  <2>4. j.size = k.size
    BY <2>1, <2>2 DEF Joined, Larger
  <2>5. (j.integer <=> k.integer) /\ (j.signed <=> k.signed)
    BY <2>1 DEF Joined
  <2>6. j.integer = k.integer /\ j.signed = k.signed
    BY <2>3, <2>5, VectorFields
  <2>7. j = k
    BY <2>3, <2>4, <2>6, JoinedUnique
  <2> QED
    BY <2>7 DEF j, k
<1> QED
  BY <1>1, <1>2 DEF Operands

\* Nor does that of three operands depend on which two meet first.
THEOREM CommonTypeAssociates ==
  ASSUME NEW n \in Nat \ {0}, NEW t \in Operands(n), NEW u \in Operands(n), NEW v \in Operands(n)
  PROVE  get_common_type(get_common_type(t, u), v) = get_common_type(t, get_common_type(u, v))
<1>1. CASE t = UNKNOWN \/ u = UNKNOWN \/ v = UNKNOWN
  BY <1>1, JoinWithUnknown
<1>2. CASE t \in Vectors(n) /\ u \in Vectors(n) /\ v \in Vectors(n)
  <2> DEFINE a == get_common_type(t, u)
             b == get_common_type(u, v)
             j == get_common_type(a, v)
             k == get_common_type(t, b)
  <2>1. Joined(t, u, a, n) /\ Joined(u, v, b, n)
    BY <1>2, JoinOfVectors
  <2> HIDE DEF a, b
  <2>2. a \in Vectors(n) /\ b \in Vectors(n)
    BY <2>1 DEF Joined
  <2>3. Joined(a, v, j, n) /\ Joined(t, b, k, n)
    BY <1>2, <2>2, JoinOfVectors
  <2>4. t.size \in Nat /\ u.size \in Nat /\ v.size \in Nat
    BY <1>2, VectorFields
  <2> HIDE DEF j, k
  <2>5. j \in Vectors(n) /\ k \in Vectors(n)
    BY <2>3 DEF Joined
  <2>6. j.size = k.size
    BY <2>1, <2>3, <2>4 DEF Joined, Larger
  <2>7. j.integer <=> k.integer
    BY <2>1, <2>3 DEF Joined
  <2>8. j.signed <=> k.signed
    <3>1. /\ a.size = IF t.size >= u.size THEN t.size ELSE u.size
          /\ b.size = IF u.size >= v.size THEN u.size ELSE v.size
      BY <2>1 DEF Joined, Larger
    <3>2. /\ a.integer <=> t.integer /\ u.integer
          /\ b.integer <=> u.integer /\ v.integer
          /\ a.signed <=> ~a.integer \/ (t.signed /\ u.signed) \/ (t.signed /\ t.size > u.size) \/ (u.signed /\ u.size > t.size)
          /\ b.signed <=> ~b.integer \/ (u.signed /\ v.signed) \/ (u.signed /\ u.size > v.size) \/ (v.signed /\ v.size > u.size)
          /\ j.signed <=> ~j.integer \/ (a.signed /\ v.signed) \/ (a.signed /\ a.size > v.size) \/ (v.signed /\ v.size > a.size)
          /\ k.signed <=> ~k.integer \/ (t.signed /\ b.signed) \/ (t.signed /\ t.size > b.size) \/ (b.signed /\ b.size > t.size)
          /\ j.integer <=> a.integer /\ v.integer
          /\ k.integer <=> t.integer /\ b.integer
      BY <2>1, <2>3 DEF Joined
    <3>3. CASE ~j.integer
      BY <3>2, <3>3, <2>7
    <3>4. CASE j.integer
      BY <3>1, <3>2, <3>4, <2>4, <2>7, SMT
    <3> QED
      BY <3>3, <3>4
  <2>9. j.integer = k.integer /\ j.signed = k.signed
    BY <2>5, <2>7, <2>8, VectorFields
  <2>10. j = k
    BY <2>5, <2>6, <2>9, JoinedUnique
  <2> QED
    BY <2>10 DEF a, b, j, k
<1> QED
  BY <1>1, <1>2 DEF Operands

\* The common type has room for the values of either operand.
LEMMA CommonTypeRepresents ==
  ASSUME NEW n \in Nat \ {0}, NEW t \in Operands(n), NEW u \in Operands(n)
  PROVE  Represents(get_common_type(t, u), t)
<1> DEFINE j == get_common_type(t, u)
<1>1. /\ UNKNOWN.components = 1 /\ UNKNOWN.size = 0 /\ UNKNOWN.integer = TRUE /\ UNKNOWN.signed = TRUE
  BY DEF UNKNOWN, Type
<1>2. CASE u = UNKNOWN
  <2>1. j = t
    BY <1>2, JoinWithUnknown
  <2>2. t.components \in Nat /\ t.size \in Nat
    BY <1>1, VectorFields DEF Operands
  <2> QED
    BY <2>1, <2>2 DEF Represents
<1>3. CASE t = UNKNOWN /\ u \in Vectors(n)
  <2>1. j = u
    BY <1>3, JoinWithUnknown
  <2>2. u.components = n /\ u.size \in Nat
    BY <1>3, VectorFields
  <2> QED
    BY <2>1, <2>2, <1>1, <1>3 DEF Represents
<1>4. CASE t \in Vectors(n) /\ u \in Vectors(n)
  <2>1. Joined(t, u, j, n)
    BY <1>4, JoinOfVectors
  <2> HIDE DEF j
  <2>2. t.size \in Nat /\ u.size \in Nat /\ t.components = n /\ j.components = n
    BY <1>4, <2>1, VectorFields DEF Joined
  <2>3. j.size = IF t.size >= u.size THEN t.size ELSE u.size
    BY <2>1 DEF Joined, Larger
  <2>4. j.integer => t.integer
    BY <2>1 DEF Joined
  <2>5. j.integer /\ ~t.signed => ~j.signed \/ j.size > t.size
    BY <2>1, <2>2, <2>3 DEF Joined
  <2> QED
    BY <2>2, <2>3, <2>4, <2>5 DEF Represents, j
<1> QED
  BY <1>2, <1>3, <1>4 DEF Operands
------------------------------------------------------------------------------
(***************************************************************************)
(* The sums of the run.                                                    *)
(***************************************************************************)
JoinInv == \E n \in Nat \ {0} : common \in Operands(n) /\ left \in Operands(n) /\ right \in Operands(n)

LEMMA RecordIn ==
  ASSUME NEW A, NEW B, NEW C, NEW D, NEW t \in [size : A, signed : B, integer : C, components : D],
         NEW n, t.components = n, t.size \in Nat \ {0},
         B \subseteq BOOLEAN, C \subseteq BOOLEAN
  PROVE  t \in [size : Nat \ {0}, signed : BOOLEAN, integer : BOOLEAN, components : {n}]
  OBVIOUS

LEMMA TogetherAreOperands ==
  ASSUME NEW n \in {1, 2}
  PROVE  Together(n) \subseteq Operands(n)
<1> SUFFICES ASSUME NEW t \in OpenCLTypes, t.components = n, t # UNKNOWN PROVE t \in Vectors(n)
  BY DEF Together, Operands
<1>1. CASE t \in [size : {1, 2, 4, 8}, signed : BOOLEAN, integer : {TRUE}, components : {1, 2, 3, 4, 8}]
  <2>0. t.size \in Nat \ {0} /\ t.components = n
    BY <1>1
  <2>1. t \in [size : Nat \ {0}, signed : BOOLEAN, integer : BOOLEAN, components : {n}]
    BY <1>1, <2>0, RecordIn
  <2>2. t.integer = TRUE
    BY <1>1
  <2> QED
    BY <2>1, <2>2 DEF Vectors
<1>2. CASE t \in [size : {2, 4, 8}, signed : {TRUE}, integer : {FALSE}, components : {1, 2, 3, 4, 8}]
  <2>0. t.size \in Nat \ {0} /\ t.components = n
    BY <1>2
  <2>1. t \in [size : Nat \ {0}, signed : BOOLEAN, integer : BOOLEAN, components : {n}]
    BY <1>2, <2>0, RecordIn
  <2>2. t.signed = TRUE
    BY <1>2
  <2> QED
    BY <2>1, <2>2 DEF Vectors
<1> QED
  BY <1>1, <1>2 DEF OpenCLTypes

LEMMA JoinInvCorrect == JoinSpec => []JoinInv
<1>1. JoinInit => JoinInv
  BY TogetherAreOperands DEF JoinInit, JoinInv
<1>2. JoinInv /\ [Meet]_joins => JoinInv'
  BY OperandsClosed DEF JoinInv, Meet, joins
<1> QED
  BY <1>1, <1>2, PTL DEF JoinSpec

\* Neither the order of the operands nor the order in which they meet shows in the type of a sum.
THEOREM OrderDoesNotMatterCorrect == JoinSpec => []OrderDoesNotMatter
<1>1. JoinInv => OrderDoesNotMatter
  BY CommonTypeCommutes, CommonTypeAssociates DEF JoinInv, OrderDoesNotMatter
<1> QED
  BY <1>1, JoinInvCorrect, PTL

\* The type of a sum represents every operand that has gone into it.
THEOREM NothingLostCorrect == JoinSpec => NothingLost
<1>1. JoinInv /\ [Meet]_joins => [Represents(common', common) /\ Represents(common', left)]_joins
  <2> SUFFICES ASSUME JoinInv, Meet PROVE Represents(common', common) /\ Represents(common', left)
    OBVIOUS
  <2>1. PICK n \in Nat \ {0} : common \in Operands(n) /\ left \in Operands(n)
    BY DEF JoinInv
  <2>2. common' = get_common_type(common, left) /\ common' = get_common_type(left, common)
    BY <2>1, CommonTypeCommutes DEF Meet
  <2> QED
    BY <2>1, <2>2, CommonTypeRepresents
<1> QED
  BY <1>1, JoinInvCorrect, PTL DEF JoinSpec, NothingLost
==============================================================================
