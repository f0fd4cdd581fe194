--------------------------- MODULE ConditionsProofs ---------------------------
(***************************************************************************)
(* What the operations on execution conditions mean, for every condition   *)
(* and every lane: the facts that make s_xor_b64, s_andn2_b64 and s_or_b64 *)
(* on exec come out right.                                                 *)
(***************************************************************************)
EXTENDS Conditions, TLAPS

Chain == SUBSET (Text \ {DEFAULT})

\* make_not(c) is a text, is true exactly where c is not, and is never c.
LEMMA MakeNot ==
  ASSUME NEW c \in Text, NEW lane
  PROVE  /\ make_not(c) \in Text
         /\ make_not(c) # c
         /\ Holds(lane, make_not(c)) <=> ~Holds(lane, c)
<1>1. c.neg \in Nat
  BY DEF Text
<1>2. CASE c.neg > 0
  <2>1. make_not(c) = [c EXCEPT !.neg = c.neg - 1]
    BY <1>2 DEF make_not
  <2>2. /\ make_not(c) \in Text /\ make_not(c).neg = c.neg - 1
        /\ make_not(c).kind = c.kind /\ make_not(c).id = c.id
    BY <1>1, <1>2, <2>1 DEF Text
  <2>3. (c.neg - 1) % 2 = 0 <=> c.neg % 2 # 0
    BY <1>1, <1>2
  <2> QED
    BY <1>1, <2>2, <2>3 DEF Holds
<1>3. CASE c.neg = 0
  <2>1. make_not(c) = [c EXCEPT !.neg = c.neg + 1]
    BY <1>3 DEF make_not, Wrap
  <2>2. /\ make_not(c) \in Text /\ make_not(c).neg = c.neg + 1
        /\ make_not(c).kind = c.kind /\ make_not(c).id = c.id
    BY <1>1, <1>3, <2>1 DEF Text
  <2>3. (c.neg + 1) % 2 = 0 <=> c.neg % 2 # 0
    BY <1>1
  <2> QED
    BY <1>1, <2>2, <2>3 DEF Holds
<1> QED
  BY <1>1, <1>2, <1>3

\* The empty text is true of every lane.
LEMMA EmptyHolds == ASSUME NEW lane PROVE Holds(lane, DEFAULT)
  BY DEF Holds, DEFAULT

\* Leaving out the empty text does not change what a chain selects.
LEMMA FromConditions ==
  ASSUME NEW S \in SUBSET Text, NEW lane
  PROVE  from_conditions(S) \in Chain /\ (Satisfies(lane, from_conditions(S)) <=> Satisfies(lane, S))
  BY EmptyHolds DEF from_conditions, Chain, Satisfies

\* C extends D by one text: xor keeps D and negates that text.
LEMMA XorOfExtension ==
  ASSUME NEW C \in Chain, NEW D \in Chain, Extends(C, D)
  PROVE  \E c \in C : /\ C \ D = {c} /\ c \notin D /\ C = D \cup {c}
                      /\ xor(C, D) = from_conditions(D \cup {make_not(c)})
<1>1. PICK c \in C : C \ D = {c}
  BY DEF Extends
<1>2. (CHOOSE x \in C : C \ D = {x}) = c
  BY <1>1
<1> QED
  BY <1>1, <1>2 DEF Extends, StrictSubset, xor

\* xor of a condition and one it extends selects the lanes that only the latter selects.
LEMMA XorMeans ==
  ASSUME NEW C \in Chain, NEW D \in Chain, NEW lane, Extends(C, D)
  PROVE  /\ xor(C, D) \in Chain
         /\ Satisfies(lane, xor(C, D)) <=> (Satisfies(lane, C) # Satisfies(lane, D))
<1>1. PICK c \in C : /\ C = D \cup {c}
                     /\ xor(C, D) = from_conditions(D \cup {make_not(c)})
  BY XorOfExtension
<1>2. c \in Text /\ D \in SUBSET Text
  BY DEF Chain
<1>3. make_not(c) \in Text /\ (Holds(lane, make_not(c)) <=> ~Holds(lane, c))
  BY <1>2, MakeNot
<1>4. /\ xor(C, D) \in Chain
      /\ Satisfies(lane, xor(C, D)) <=> Satisfies(lane, D \cup {make_not(c)})
  BY <1>1, <1>2, <1>3, FromConditions
<1>5. Satisfies(lane, D \cup {make_not(c)}) <=> (Satisfies(lane, D) /\ ~Holds(lane, c))
  BY <1>3 DEF Satisfies
<1>6. Satisfies(lane, C) <=> (Satisfies(lane, D) /\ Holds(lane, c))
  BY <1>1 DEF Satisfies
<1>7. Satisfies(lane, C) \in BOOLEAN /\ Satisfies(lane, D) \in BOOLEAN
  BY DEF Satisfies
<1> QED
  BY <1>4, <1>5, <1>6, <1>7

\* ExecCondition.__xor__ selects the lanes exactly one of its operands selects, whenever its
\* asserts let it through.
THEOREM ExecXorMeans ==
  ASSUME NEW C \in Chain, NEW D \in Chain, NEW lane, xor_defined(C, D)
  PROVE  /\ ExecXor(C, D) \in Chain
         /\ Satisfies(lane, ExecXor(C, D)) <=> (Satisfies(lane, C) # Satisfies(lane, D))
<1>0. Satisfies(lane, C) \in BOOLEAN /\ Satisfies(lane, D) \in BOOLEAN
  BY DEF Satisfies
<1>1. CASE Extends(C, D)
  <2>1. ExecXor(C, D) = xor(C, D)
    BY <1>1 DEF ExecXor, Extends
  <2> QED
    BY <1>1, <2>1, XorMeans
<1>2. CASE Extends(D, C)
  <2>1. ExecXor(C, D) = xor(D, C)
    BY <1>2 DEF ExecXor, Extends, StrictSubset
  <2>2. /\ xor(D, C) \in Chain
        /\ Satisfies(lane, xor(D, C)) <=> (Satisfies(lane, D) # Satisfies(lane, C))
    BY <1>2, XorMeans
  <2> QED
    BY <1>0, <2>1, <2>2
<1> QED
  BY <1>1, <1>2 DEF xor_defined

\* Two texts that are negations of each other: one is true exactly where the other is not.
LEMMA NegationsMean ==
  ASSUME NEW c \in Text, NEW d \in Text, NEW lane, are_negations(c, d)
  PROVE  Holds(lane, c) <=> ~Holds(lane, d)
  BY MakeNot DEF are_negations

\* ExecCondition.__or__ selects the lanes one of its operands selects, unless it falls back on
\* the characters of its operands.
THEOREM ExecOrMeans ==
  ASSUME NEW C \in Chain, NEW D \in Chain, NEW lane, Joinable(C, D)
  PROVE  /\ ExecOr(C, D) \in Chain
         /\ Satisfies(lane, ExecOr(C, D)) <=> (Satisfies(lane, C) \/ Satisfies(lane, D))
<1>0. /\ C \in SUBSET Text /\ D \in SUBSET Text /\ C \cap D \in SUBSET Text
  BY DEF Chain
<1>1. CASE Siblings(C, D)
  <2>1. PICK c \in C, d \in D : C \ D = {c} /\ D \ C = {d} /\ are_negations(c, d)
    BY <1>1 DEF Siblings
  <2>2. C = (C \cap D) \cup {c} /\ D = (C \cap D) \cup {d}
    BY <2>1
  <2>3. Holds(lane, c) <=> ~Holds(lane, d)
    BY <1>0, <2>1, NegationsMean
  <2>4. ExecOr(C, D) = from_conditions(C \cap D)
    BY <1>1 DEF ExecOr, sibling_parent
  <2>5. /\ ExecOr(C, D) \in Chain
        /\ Satisfies(lane, ExecOr(C, D)) <=> Satisfies(lane, C \cap D)
    BY <1>0, <2>4, FromConditions
  <2>6. /\ Satisfies(lane, C) <=> (Satisfies(lane, C \cap D) /\ Holds(lane, c))
        /\ Satisfies(lane, D) <=> (Satisfies(lane, C \cap D) /\ Holds(lane, d))
    BY <2>2 DEF Satisfies
  <2> QED
    BY <2>3, <2>5, <2>6
<1>2. CASE ~Siblings(C, D) /\ D \subseteq C
  <2>1. ExecOr(C, D) = from_conditions(D)
    BY <1>2 DEF ExecOr
  <2>2. Satisfies(lane, C) => Satisfies(lane, D)
    BY <1>2 DEF Satisfies
  <2> QED
    BY <1>0, <2>1, <2>2, FromConditions
<1>3. CASE ~Siblings(C, D) /\ ~(D \subseteq C) /\ C \subseteq D
  <2>1. ExecOr(C, D) = from_conditions(C)
    BY <1>3 DEF ExecOr
  <2>2. Satisfies(lane, D) => Satisfies(lane, C)
    BY <1>3 DEF Satisfies
  <2> QED
    BY <1>0, <2>1, <2>2, FromConditions
<1> QED
  BY <1>1, <1>2, <1>3 DEF Joinable

\* if-else: xor of a branch and its enclosing condition is the sibling of the branch, and the
\* two join to the enclosing condition.
THEOREM ElseRoundTrip ==
  ASSUME NEW C \in Chain, NEW D \in Chain, Extends(C, D), Consistent(C)
  PROVE  Siblings(C, ExecXor(C, D)) /\ ExecOr(C, ExecXor(C, D)) = D
<1>1. PICK c \in C : /\ C = D \cup {c} /\ c \notin D
                     /\ xor(C, D) = from_conditions(D \cup {make_not(c)})
  BY XorOfExtension
<1> DEFINE n == make_not(c)
<1>2. c \in Text /\ DEFAULT \notin D
  BY DEF Chain
<1>3. n # c
  BY <1>2, MakeNot
<1>4. are_negations(c, n)
  BY DEF are_negations
<1>5. n \notin C /\ n # DEFAULT
  BY <1>4 DEF Consistent
<1>6. ExecXor(C, D) = D \cup {n}
  <2>1. ExecXor(C, D) = xor(C, D)
    BY DEF ExecXor, Extends
  <2> QED
    BY <1>1, <1>2, <1>5, <2>1 DEF from_conditions
<1>7. /\ C \ (D \cup {n}) = {c} /\ (D \cup {n}) \ C = {n}
      /\ C \cap (D \cup {n}) = D
  BY <1>1, <1>3, <1>5
<1>8. Siblings(C, D \cup {n})
  BY <1>4, <1>7 DEF Siblings
<1>9. ExecOr(C, D \cup {n}) = D
  BY <1>2, <1>7, <1>8 DEF ExecOr, sibling_parent, from_conditions
<1> QED
  BY <1>6, <1>8, <1>9

------------------------------------------------------------------------------
(***************************************************************************)
(* The two registers of module Conditions.                                 *)
(***************************************************************************)
\* What a register can be given is a text.
LEMMA TextsType == Texts \subseteq Text
  BY AtomsAssumption DEF Texts, Text, DEFAULT, Kinds

\* __or__ gives a normalised chain, in the fallback too.
LEMMA OrType == ASSUME NEW C \in Chain, NEW D \in Chain PROVE ExecOr(C, D) \in Chain
<1>1. Characters \in Chain
  BY DEF Characters, Chain, Text, DEFAULT, Kinds
<1> QED
  BY <1>1 DEF ExecOr, sibling_parent, from_conditions, Chain

\* No operation leaves the empty text in a chain (_normalize_and_chain).
THEOREM ChainsNormal == ConditionsSpec => []ChainOK
<1>1. ConditionsInit => ChainOK
  BY DEF ConditionsInit, ChainOK
<1>2. ChainOK /\ [ConditionsNext]_cvars => ChainOK'
  <2> SUFFICES ASSUME ChainOK, [ConditionsNext]_cvars PROVE ChainOK'
    OBVIOUS
  <2>0. left \in Chain /\ right \in Chain
    BY DEF ChainOK, Chain
  <2>1. ASSUME NEW c \in Texts, And(c) \/ Set(c) PROVE ChainOK'
    BY <2>0, <2>1, TextsType DEF And, Set, ExecAnd, from_conditions, ChainOK, Chain
  <2>2. CASE Xor
    BY <2>0, <2>2, ExecXorMeans DEF Xor, ChainOK, Chain
  <2>3. CASE Or
    BY <2>0, <2>3, OrType DEF Or, ChainOK, Chain
  <2>4. CASE Save \/ Swap
    BY <2>4 DEF Save, Swap, ChainOK
  <2>5. CASE UNCHANGED cvars
    BY <2>5 DEF cvars, ChainOK
  <2> QED
    BY <2>1, <2>2, <2>3, <2>4, <2>5 DEF ConditionsNext
<1> QED
  BY <1>1, <1>2, PTL DEF ConditionsSpec

\* For any comparisons and any sequence of operations, the else condition selects the lanes
\* of exactly one of the two registers.
THEOREM XorIsSound == ConditionsSpec => []XorSound
<1>1. ChainOK => XorSound
  BY ExecXorMeans DEF ChainOK, Chain, XorSound
<1> QED
  BY <1>1, ChainsNormal, PTL

\* For any comparisons and any sequence of operations, the joined condition selects the lanes
\* of either register, where it is not the fallback.
THEOREM OrIsSound == ConditionsSpec => []OrSound
<1>1. ChainOK => OrSound
  BY ExecOrMeans DEF ChainOK, Chain, OrSound
<1> QED
  BY <1>1, ChainsNormal, PTL

\* For any comparisons and any sequence of operations, if and else join to what encloses them.
THEOREM ElseAlwaysCloses == ConditionsSpec => []ElseCloses
<1>1. ChainOK => ElseCloses
  BY ElseRoundTrip DEF ChainOK, Chain, ElseCloses
<1> QED
  BY <1>1, ChainsNormal, PTL
==============================================================================
