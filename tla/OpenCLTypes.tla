----------------------------- MODULE OpenCLTypes -----------------------------
(***************************************************************************)
(* The types of values (src/expression_manager/types, expression_node.py,  *)
(* opencl_types.py): a type is the size of a component in bytes, whether   *)
(* it is signed, whether it is an integer, and how many components it has. *)
(***************************************************************************)
EXTENDS Integers

Type(size, signed, integer, components) ==
    [size |-> size, signed |-> signed, integer |-> integer, components |-> components]

UNKNOWN == Type(0, TRUE, TRUE, 1)
INT     == Type(4, TRUE, TRUE, 1)
UINT    == Type(4, FALSE, TRUE, 1)

(* The members of OpenCLTypes: a floating-point type counts as signed. *)
OpenCLTypes ==
    {UNKNOWN}
      \cup [size : {1, 2, 4, 8}, signed : BOOLEAN, integer : {TRUE}, components : {1, 2, 3, 4, 8}]
      \cup [size : {2, 4, 8}, signed : {TRUE}, integer : {FALSE}, components : {1, 2, 3, 4, 8}]

get_size(t) == t.size * t.components

Larger(m, n) == IF m >= n THEN m ELSE n
Widened(t, u) == [t EXCEPT !.size = Larger(t.size, u.size), !.components = Larger(t.components, u.components)]

(* Which of the two types an integer and a floating-point type widen is     *)
(* decided by their sizes over all components.                             *)
FloatOf(float, int) == IF get_size(int) = get_size(float) THEN float ELSE Widened(float, int)

\* Mutant: of a signed and an unsigned integer the signed one wins.
IntegerOf_second(signed, unsigned) == [signed EXCEPT !.components = Larger(signed.components, unsigned.components)]
\* Mutant: the unsigned one wins.
IntegerOf_wider(signed, unsigned) == [unsigned EXCEPT !.components = Larger(signed.components, unsigned.components)]

(* Of a signed and an unsigned integer the wider wins, and the unsigned one *)
(* when they are equally wide.                                             *)
IntegerOf(signed, unsigned) ==
    [IF unsigned.size >= signed.size THEN unsigned ELSE signed
        EXCEPT !.components = Larger(signed.components, unsigned.components)]

get_common_type(first, second) ==
    CASE first = second                            -> first
      [] first # second /\ first = UNKNOWN         -> second
      [] first # second /\ second = UNKNOWN        -> first
      [] OTHER ->
           CASE first.integer /\ ~second.integer   -> FloatOf(second, first)
             [] ~first.integer /\ second.integer   -> FloatOf(first, second)
             [] first.integer = second.integer /\ first.signed = second.signed -> Widened(first, second)
             [] first.integer = second.integer /\ first.signed /\ ~second.signed -> IntegerOf(first, second)
             [] OTHER -> IntegerOf(second, first)

set_number_of_components(t, n) == [t EXCEPT !.components = n]

==============================================================================
