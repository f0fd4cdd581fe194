------------------------------ MODULE Conditions ------------------------------
(***************************************************************************)
(* Two execution conditions, as two registers hold them, and every         *)
(* operation of src/src/logical_variable.py on them, in every order.       *)
(***************************************************************************)
EXTENDS ExecCondition

CONSTANTS
  Atoms,   \* unwrapped texts a comparison can produce
  MaxNeg   \* bound on the number of "!( )" around a text

ASSUME AtomsAssumption == Atoms \subseteq Text \ {DEFAULT} /\ MaxNeg \in Nat

VARIABLES left, right

cvars == <<left, right>>

\* A register takes one more text, or a text alone (a comparison writes it anew).
And(c) == left' = ExecAnd(left, c) /\ UNCHANGED right
Set(c) == left' = from_conditions({c}) /\ UNCHANGED right

\* The else of a branch: the two asserts guard it.
Xor == xor_defined(left, right) /\ left' = ExecXor(left, right) /\ UNCHANGED right
Or == left' = ExecOr(left, right) /\ UNCHANGED right

Save == right' = left /\ UNCHANGED left
Swap == left' = right /\ right' = left

Texts == {[c EXCEPT !.neg = n] : c \in Atoms, n \in 0 .. MaxNeg} \cup {DEFAULT}

ConditionsInit == left = {} /\ right = {}

ConditionsNext ==
  \/ \E c \in Texts : And(c) \/ Set(c)
  \/ Xor
  \/ Or
  \/ Save
  \/ Swap

ConditionsSpec == ConditionsInit /\ [][ConditionsNext]_cvars

------------------------------------------------------------------------------
\* A chain never holds the empty text, which Python would print as a stray "&&".
ChainOK == left \in SUBSET (Text \ {DEFAULT}) /\ right \in SUBSET (Text \ {DEFAULT})

\* The lanes, and those of them a condition selects.
Lanes == SUBSET {<<c.kind, c.id>> : c \in Atoms}

\* Where the asserts of __xor__ let it through, it selects the lanes that exactly one of its
\* operands selects: the meaning of s_xor_b64, and of s_andn2_b64 on a saved exec.
XorSound ==
  xor_defined(left, right) =>
    \A l \in Lanes : Satisfies(l, ExecXor(left, right)) <=> (Satisfies(l, left) # Satisfies(l, right))

\* Unless it falls back on the characters of its operands, __or__ selects the lanes that one
\* of them selects.
Joinable(C, D) == Siblings(C, D) \/ C \subseteq D \/ D \subseteq C
OrSound ==
  Joinable(left, right) =>
    \A l \in Lanes : Satisfies(l, ExecOr(left, right)) <=> (Satisfies(l, left) \/ Satisfies(l, right))

\* if (c) .. else ..: what __xor__ makes of a branch and its enclosing condition is recognised
\* as the sibling of that branch, and the two together give the enclosing condition back, as
\* long as no text of the branch negates another one or the empty text.
Consistent(C) == \A c \in C, d \in C \cup {DEFAULT} : ~are_negations(c, d)
ElseCloses ==
  (Extends(left, right) /\ Consistent(left)) =>
    /\ Siblings(left, ExecXor(left, right))
    /\ ExecOr(left, ExecXor(left, right)) = right
==============================================================================
