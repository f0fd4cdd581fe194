---------------------------- MODULE MCExpressions ----------------------------
(* Expressions that grow by a few operations from a few leaves, and, apart from *)
(* them, the types of sums.                                                     *)
EXTENDS Expressions, MCTypes

Sizes == [d \in Dims |-> IF d = "X" THEN 4 ELSE 1]

ItemOf(kind, d) == create_work_item_function_node(0, <<kind, d>>)
Item(kind)  == ItemOf(kind, "X")
Var(name)   == create_var_node(0, <<name>>, Hint(UINT, FALSE, FALSE, FALSE))
Pointer     == create_var_node(0, <<"data">>, Hint(INT, FALSE, TRUE, TRUE))
Const(n)    == create_const_node(0, <<n, 1>>, INT)
Compare(a, b) == create_op_node(0, "<", Var(a), Var(b), Hint(UINT, FALSE, FALSE, FALSE))
GroupStart  == create_op_node(0, "*", Item("WORK_GROUP_ID"), Const(4), Hint(UINT, FALSE, FALSE, FALSE))

Scenario(leaves, operators, n) == [leaves |-> leaves, ops |-> operators, steps |-> n]

Arithmetic == {
    Scenario(<<Item("WORK_GROUP_ID"), Item("WORK_ITEM_ID"), Item("GLOBAL_OFFSET"), Const(4)>>, {"+", "*"}, 3),
    Scenario(<<GroupStart, Item("WORK_ITEM_ID"), Item("GLOBAL_OFFSET"), ItemOf("GLOBAL_OFFSET", "Y")>>, {"+"}, 3),
    Scenario(<<Var("a"), Var("b"), Var("x")>>, {"+", "-"}, 3),
    Scenario(<<Var("x"), Const(2), Const(-1)>>, {"+", "*"}, 3),
    Scenario(<<Var("x"), Const(2)>>, {"+", "-", "*", "/"}, 3)}
ConditionsOf == {
    Scenario(<<Compare("a", "b"), Compare("b", "a"), Const(1)>>, {"&&", "||", "^", "!"}, 3)}

Replacing == {
    Scenario(<<Var("a"), Var("b"), Const(4)>>, {"+", "*", "replace"}, 3),
    Scenario(<<GroupStart, Item("WORK_ITEM_ID"), Item("GLOBAL_OFFSET")>>, {"+", "replace"}, 3)}
Pointers == {
    Scenario(<<Pointer, Var("a"), Var("b")>>, {"+"}, 2)}

Exact == Arithmetic \cup ConditionsOf \cup Replacing \cup Pointers
Sums  == {Scenario(<<Var("a"), Var("b"), Var("x")>>, {"+", "-"}, 3)}

(* Two assignments of small values.                                        *)
Names == {<<"WORK_GROUP_ID", "X">>, <<"WORK_ITEM_ID", "X">>, <<"GLOBAL_OFFSET", "X">>, <<"NUM_GROUPS", "X">>,
          <<"GLOBAL_OFFSET", "Y">>,
          <<"a">>, <<"b">>, <<"x">>, <<"data">>, <<"var">>}
Assign(group, item, offset, groups, a, b, x) ==
    [n \in Names |-> CASE n[1] = "WORK_GROUP_ID" -> <<group, 1>> [] n[1] = "WORK_ITEM_ID" -> <<item, 1>>
                       [] n = <<"GLOBAL_OFFSET", "X">> -> <<offset, 1>>
                       [] n = <<"GLOBAL_OFFSET", "Y">> -> <<offset + 1, 1>> [] n[1] = "NUM_GROUPS" -> <<groups, 1>>
                       [] n[1] = "a" -> <<a, 1>> [] n[1] = "b" -> <<b, 1>> [] n[1] = "x" -> <<x, 1>>
                       [] n[1] = "data" -> <<97, 1>> [] n[1] = "var" -> <<6, 1>>]
Values == {Assign(3, 2, 13, 7, 5, 7, 3), Assign(1, 3, 0, 2, 7, 3, 5)}

Idle == common = UNKNOWN /\ left = UNKNOWN /\ right = UNKNOWN
NoPool == pool = <<>> /\ original = <<>> /\ fresh = 1 /\ ops = {} /\ steps = 0

MCInit == (Init /\ Idle) \/ (JoinInit /\ NoPool)
MCNext == (Next /\ UNCHANGED joins) \/ (Meet /\ UNCHANGED vars)
MCSpec == MCInit /\ [][MCNext]_<<vars, joins>>
==============================================================================
