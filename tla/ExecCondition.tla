---------------------------- MODULE ExecCondition ----------------------------
(***************************************************************************)
(* The algebra of execution conditions (src/src/logical_variable.py).      *)
(*                                                                         *)
(* An ExecCondition is a chain of condition texts joined by &&.  The chain *)
(* is normalised to a sorted list without the empty text, and everything   *)
(* the decompiler asks of it (equality, inclusion, top) depends only on    *)
(* the set of its texts, so here a condition is that set: a subset of      *)
(* Text \ {DEFAULT}, with {} for the default condition.                    *)
(*                                                                         *)
(* A text is a record: the comparison, variable or stray character it is   *)
(* built around, or the value of an ordinary register, and the number of   *)
(* "!( )" wrapped around that.                                             *)
(***************************************************************************)
EXTENDS Naturals

Kinds == {"empty", "char", "cmp", "value", "var"}

Text == [kind : Kinds, id : Nat, neg : Nat]

DEFAULT == [kind |-> "empty", id |-> 0, neg |-> 0]

\* The text of comparison number i, of the value computed at node i, and the name "var<i>" of a
\* merge variable.
Cmp(i) == [kind |-> "cmp", id |-> i, neg |-> 0]
Value(i) == [kind |-> "value", id |-> i, neg |-> 0]
Var(i) == [kind |-> "var", id |-> i, neg |-> 0]

\* f"!({text})" always wraps; make_not unwraps a text that is already wrapped.
Wrap(c) == [c EXCEPT !.neg = @ + 1]
make_not(c) == IF c.neg > 0 THEN [c EXCEPT !.neg = @ - 1] ELSE Wrap(c)

\* Mutant: only the left text may be the wrapped one.
are_negations_left(l, r) == l = Wrap(r)
are_negations(l, r) == l = make_not(r) \/ r = make_not(l)

\* The chain without the empty text.  Mutant: the empty text stays.
from_conditions_all(S) == S
from_conditions(S) == S \ {DEFAULT}

(***************************************************************************)
(* The order in which Python sorts the texts: "!" comes before every other *)
(* character, so a more deeply negated text comes first, and then the      *)
(* comparisons come in the order of their numbers.                         *)
(***************************************************************************)
KindRank(k) ==
  CASE k = "empty" -> 0 [] k = "char" -> 1 [] k = "cmp" -> 2 [] k = "value" -> 3 [] k = "var" -> 4

TextLess(c, d) ==
  \/ c.neg > d.neg
  \/ c.neg = d.neg /\ KindRank(c.kind) < KindRank(d.kind)
  \/ c.neg = d.neg /\ c.kind = d.kind /\ c.id < d.id

\* The last element of the sorted chain; the empty text for the default condition.
top(C) ==
  LET last == {c \in C : \A d \in C : ~TextLess(c, d)}
  IN  IF last = {} THEN DEFAULT ELSE CHOOSE c \in last : TRUE

ExecAnd(C, c) == from_conditions(C \cup {c})

\* The condition two else-branches have in common, if they differ in one negated text.
Siblings(C, D) ==
  \E c \in C, d \in D : C \ D = {c} /\ D \ C = {d} /\ are_negations(c, d)
\* Mutant: everything either branch requires.
sibling_parent_both(C, D) == from_conditions(C \cup D)
sibling_parent(C, D) == from_conditions(C \cap D)

\* The characters of str(self) + "||" + str(other), over which from_conditions iterates.
Characters == {[kind |-> "char", id |-> 0, neg |-> 0]}

ExecOr(C, D) ==
  CASE Siblings(C, D)                    -> sibling_parent(C, D)
    [] ~Siblings(C, D) /\ D \subseteq C  -> from_conditions(D)
    [] ~Siblings(C, D) /\ C \subseteq D  -> from_conditions(C)
    [] OTHER                             -> Characters

StrictSubset(C, D) == C \subseteq D /\ C # D

\* The two asserts of __xor__ and xor: one condition extends the other by a single text.
Extends(C, D) == StrictSubset(D, C) /\ \E c \in C : C \ D = {c}
xor_defined(C, D) == Extends(C, D) \/ Extends(D, C)

\* Mutant: the text that is taken away is not negated.
xor_plain(C, D) == from_conditions(D \cup {CHOOSE c \in C : C \ D = {c}})
xor(C, D) == from_conditions(D \cup {make_not(CHOOSE c \in C : C \ D = {c})})
ExecXor(C, D) == IF StrictSubset(D, C) THEN xor(C, D) ELSE xor(D, C)

(***************************************************************************)
(* What a condition means.  A lane gives every unwrapped text a truth      *)
(* value (the empty text is true); a wrapped text flips it.                *)
(***************************************************************************)
Holds(lane, c) ==
  LET truth == c.kind = "empty" \/ <<c.kind, c.id>> \in lane
  IN  IF c.neg % 2 = 0 THEN truth ELSE ~truth

Satisfies(lane, C) == \A c \in C : Holds(lane, c)
==============================================================================
