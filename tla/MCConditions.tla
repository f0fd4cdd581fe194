---------------------------- MODULE MCConditions ----------------------------
(* Conditions over two comparisons and a merge variable. *)
EXTENDS Conditions

MCAtoms == {Cmp(1), Cmp(2), Var(0)}
==============================================================================
