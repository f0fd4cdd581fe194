------------------------------- MODULE MCTypes -------------------------------
EXTENDS OpenCLTypes

(* The type of a sum is formed from left to right: `common` is the type so *)
(* far, `left` and `right` are the types of the operands to come.          *)
VARIABLES common, left, right

joins == <<common, left, right>>

(* Scalars among themselves, and vectors of two components. *)
Together(n) == {t \in OpenCLTypes : t.components = n} \cup {UNKNOWN}
JoinInit == \E n \in {1, 2} : common \in Together(n) /\ left \in Together(n) /\ right \in Together(n)
Meet == common' = get_common_type(common, left) /\ left' = right /\ UNCHANGED right
JoinSpec == JoinInit /\ [][Meet]_joins

(* A type represents the values of another: enough components, a float for *)
(* a float, and for integers C's conversion to a type of at least its size. *)
Represents(t, u) ==
    /\ t.components >= u.components
    /\ t.size >= u.size
    /\ t.integer => u.integer
    /\ t.integer /\ u.integer /\ ~u.signed => ~t.signed \/ t.size > u.size

(* Neither the order of the operands nor the order in which they meet      *)
(* shows in the type of the sum (expression_node.py get_common_type).      *)
OrderDoesNotMatter ==
    /\ get_common_type(common, left) = get_common_type(left, common)
    /\ get_common_type(get_common_type(common, left), right)
         = get_common_type(common, get_common_type(left, right))

(* A step never gives up what the type represented before, nor what the    *)
(* operand needs (expression_node.py get_common_type).                     *)
NothingLost == [][Represents(common', common) /\ Represents(common', left)]_joins
==============================================================================
