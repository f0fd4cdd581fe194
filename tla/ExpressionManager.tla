-------------------------- MODULE ExpressionManager --------------------------
(***************************************************************************)
(* The expression manager (src/expression_manager): every register of the  *)
(* decompiler holds an expression, which is simplified when it is built.   *)
(* The manager also keeps, for every expression it returned, the operation *)
(* as it was asked for, because replacing a part of an expression by a     *)
(* variable must find that part again.                                     *)
(*                                                                         *)
(* An expression is a tree of nodes; a node carries the identity its       *)
(* object has in the program, which a copy keeps, and the manager is       *)
(*   original   what a returned expression was asked for                   *)
(*   fresh      the identities used so far                                 *)
(***************************************************************************)
EXTENDS OpenCLTypes, Sequences, SequencesExt, FiniteSets

CONSTANT size_of_workgroups  \* per dimension, the size the configuration promises

Dims == {"X", "Y"}
Comparisons == {"==", "!=", "<", "<=", ">", ">="}
Logical == {"!", "&&", "||", "^"}

-----------------------------------------------------------------------------
(* Nodes.  A number is a fraction in lowest terms: the division of two      *)
(* constants is exact.                                                     *)
Fraction(n, d) ==
    LET s == IF d < 0 THEN -1 ELSE 1
        g == CHOOSE k \in 1 .. s * d :
                /\ n % k = 0 /\ d % k = 0
                /\ \A m \in (k + 1) .. s * d : ~(n % m = 0 /\ d % m = 0)
    IN  <<(s * n) \div g, (s * d) \div g>>

Hint(type, const, pointer, global) ==
    [type |-> type, const |-> const, pointer |-> pointer, global |-> global]

common_hint(g, h) ==
    Hint(get_common_type(g.type, h.type), g.const /\ h.const, g.pointer /\ h.pointer, g.global /\ h.global)

NoNode == [type |-> "NONE"]
Node(id, type, value, num, left, right, hint) ==
    [id |-> id, type |-> type, value |-> value, num |-> num, left |-> left, right |-> right, hint |-> hint]

create_const_node(id, num, type) ==
    Node(id, "CONST", <<>>, num, NoNode, NoNode, Hint(type, TRUE, FALSE, FALSE))
create_work_item_function_node(id, name) ==
    Node(id, "WORK_ITEM_FUNCTION", name, <<0, 1>>, NoNode, NoNode, Hint(UINT, FALSE, FALSE, FALSE))
create_var_node(id, name, hint) == Node(id, "VAR", name, <<0, 1>>, NoNode, NoNode, hint)
create_op_node(id, op, left, right, hint) == Node(id, "OP", <<op>>, <<0, 1>>, left, right, hint)
get_empty_node(id) == Node(id, "UNKNOWN", <<>>, <<0, 1>>, NoNode, NoNode, Hint(UNKNOWN, FALSE, FALSE, FALSE))

IsOp(n, op) == n.type = "OP" /\ n.value = <<op>>
IsFunction(n, kind) == n.type = "WORK_ITEM_FUNCTION" /\ n.value[1] = kind
IsConst(n) == n.type = "CONST"
const_zero_node(n) == IsConst(n) /\ n.num = <<0, 1>>
const_one_node(n) == IsConst(n) /\ n.num = <<1, 1>>
const_negative_node(n) == IsConst(n) /\ n.hint.type.signed /\ n.num[1] < 0
Absolute(n) == [n EXCEPT !.num[1] = -@]

RECURSIVE Contents(_)
Contents(n) ==
    IF n = NoNode THEN NoNode
    ELSE [n EXCEPT !.id = 0, !.left = Contents(n.left), !.right = Contents(n.right)]
contents_equal(n, m) == Contents(n) = Contents(m)

-----------------------------------------------------------------------------
(* Values: a fraction for every assignment of the work-item functions and   *)
(* variables; 1 and 0 are true and false, and an unknown condition holds.   *)
Truth(b) == IF b THEN <<1, 1>> ELSE <<0, 1>>
Holds(a) == a[1] # 0
Less(a, b) == a[1] * b[2] < b[1] * a[2]

Apply(op, a, b) ==
    CASE op = "+"  -> Fraction(a[1] * b[2] + b[1] * a[2], a[2] * b[2])
      [] op = "-"  -> Fraction(a[1] * b[2] - b[1] * a[2], a[2] * b[2])
      [] op = "*"  -> Fraction(a[1] * b[1], a[2] * b[2])
      [] op = "/"  -> Fraction(a[1] * b[2], a[2] * b[1])
      [] op = "==" -> Truth(a = b)
      [] op = "!=" -> Truth(a # b)
      [] op = "<"  -> Truth(Less(a, b))
      [] op = "<=" -> Truth(~Less(b, a))
      [] op = ">"  -> Truth(Less(b, a))
      [] op = ">=" -> Truth(~Less(a, b))
      [] op = "!"  -> Truth(~Holds(a))
      [] op = "&&" -> Truth(Holds(a) /\ Holds(b))
      [] op = "||" -> Truth(Holds(a) \/ Holds(b))
      [] op = "^"  -> Truth(Holds(a) # Holds(b))
      [] op = "min" -> IF Less(b, a) THEN b ELSE a

(* A launch: work groups of the size the configuration promises. *)
Function(name, env) ==
    LET v(kind) == env[<<kind, name[2]>>][1] IN
    CASE name[1] = "LOCAL_SIZE"  -> size_of_workgroups[name[2]]
      [] name[1] = "GLOBAL_ID"   -> v("GLOBAL_OFFSET") + v("WORK_GROUP_ID") * size_of_workgroups[name[2]]
                                      + v("WORK_ITEM_ID")
      [] name[1] = "GLOBAL_SIZE" -> v("NUM_GROUPS") * size_of_workgroups[name[2]]
      [] OTHER -> env[name][1]

RECURSIVE Eval(_, _)
Eval(n, env) ==
    CASE n.type = "CONST"              -> n.num
      [] n.type = "WORK_ITEM_FUNCTION" -> <<Function(n.value, env), 1>>
      [] n.type = "VAR"                -> env[n.value]
      [] n.type = "UNKNOWN"            -> <<1, 1>>
      [] IsOp(n, "!")                  -> Truth(~Holds(Eval(n.left, env)))
      [] OTHER                         -> Apply(n.value[1], Eval(n.left, env), Eval(n.right, env))

-----------------------------------------------------------------------------
(* Sums are flattened into terms: a node, the work-item function it is (the *)
(* product of group id and local size counts as one), and its sign.        *)
IsGroupTimesSize(n) ==
    /\ IsOp(n, "*")
    /\ \E d \in Dims : {n.left.value, n.right.value} = {<<"WORK_GROUP_ID", d>>, <<"LOCAL_SIZE", d>>}
    /\ n.left.type = "WORK_ITEM_FUNCTION" /\ n.right.type = "WORK_ITEM_FUNCTION"

Term(n, plus) ==
    [node |-> n, plus |-> plus,
     reg |-> IF IsGroupTimesSize(n) THEN <<"WORK_GROUP_ID_LOCAL_SIZE", n.left.value[2]>>
             ELSE IF n.type = "WORK_ITEM_FUNCTION" THEN n.value ELSE <<>>]

RECURSIVE node_to_list_of_sum_of_nodes(_, _)
node_to_list_of_sum_of_nodes(n, plus) ==
    IF IsOp(n, "+") \/ IsOp(n, "-")
    THEN node_to_list_of_sum_of_nodes(n.left, plus)
           \o node_to_list_of_sum_of_nodes(n.right, IF n.value = <<"+">> THEN plus ELSE ~plus)
    ELSE <<Term(n, plus)>>

(* A subtracted term cancels the first equal term of the list, which holds  *)
(* the added terms and the subtracted ones that found none to cancel.      *)
\* Mutant: all of them.
Cancel_all(terms, minus) ==
    LET kept == SelectSeq(terms, LAMBDA t : ~contents_equal(t.node, minus.node)) IN
    IF Len(kept) = Len(terms) THEN Append(terms, minus) ELSE kept
Cancel(terms, minus) ==
    LET equal == {i \in 1 .. Len(terms) : contents_equal(terms[i].node, minus.node)} IN
    IF equal = {} THEN Append(terms, minus)
    ELSE RemoveAt(terms, CHOOSE i \in equal : \A j \in equal : i <= j)

Cancelled(terms) ==
    FoldLeft(Cancel, SelectSeq(terms, LAMBDA t : t.plus), SelectSeq(terms, LAMBDA t : ~t.plus))

(* The first k terms of each of the kinds give way to k of another. *)
Occurrences(terms, reg) == {i \in 1 .. Len(terms) : terms[i].plus /\ terms[i].reg = reg}
FirstOf(S, k) == {i \in S : Cardinality({j \in S : j <= i}) <= k}
Fewest(sets) == CHOOSE k \in {Cardinality(S) : S \in sets} : \A S \in sets : k <= Cardinality(S)
Without(terms, S) ==
    FoldLeftDomain(LAMBDA acc, i : IF i \in S THEN acc ELSE Append(acc, terms[i]), <<>>, terms)

Collapse(terms, kinds, k, function) ==
    LET n    == Fewest(kinds)
        gone == UNION {FirstOf(S, n) : S \in kinds}
    IN  Without(terms, gone)
          \o [i \in 1 .. n |-> Term(create_work_item_function_node(k + i, function), TRUE)]

(* global_offset + group_id * local_size + local_id is get_global_id.       *)
GlobalIds(k, terms, d) ==
    Collapse(terms,
             {Occurrences(terms, <<name, d>>) :
                 name \in {"WORK_ITEM_ID", "GLOBAL_OFFSET", "WORK_GROUP_ID_LOCAL_SIZE"}},
             k, <<"GLOBAL_ID", d>>)

(* num_groups * size + group_id * local_size becomes get_global_size.       *)
IsGroupsTimesSize(n, d) ==
    IsOp(n, "*") /\ \E s \in {<<n.left, n.right>>, <<n.right, n.left>>} :
        s[1].value = <<"NUM_GROUPS", d>> /\ IsConst(s[2]) /\ s[2].num = <<size_of_workgroups[d], 1>>
GlobalSizes(k, terms, d) ==
    Collapse(terms,
             {{i \in 1 .. Len(terms) : terms[i].plus /\ IsGroupsTimesSize(terms[i].node, d)},
              Occurrences(terms, <<"WORK_GROUP_ID_LOCAL_SIZE", d>>)},
             k, <<"GLOBAL_SIZE", d>>)

Recognised(k, terms) ==
    IF Len(terms) < 2 THEN terms
    ELSE GlobalSizes(k + 6, GlobalIds(k + 4, GlobalSizes(k + 2, GlobalIds(k, terms, "X"), "X"), "Y"), "Y")

(* A sum that subtracts the same term twice, which Cancel takes for one that *)
(* is added and subtracted.                                                *)
SubtractsTwice(s0, s1) ==
    LET terms == node_to_list_of_sum_of_nodes(s0, TRUE) \o node_to_list_of_sum_of_nodes(s1, TRUE) IN
    \E i, j \in 1 .. Len(terms) :
        i # j /\ ~terms[i].plus /\ ~terms[j].plus /\ contents_equal(terms[i].node, terms[j].node)

(* An added term comes first, or 0 does. *)
AddedFirst(k, terms) ==
    LET added == {i \in 1 .. Len(terms) : terms[i].plus} IN
    IF terms[1].plus THEN terms
    ELSE IF added = {} THEN <<Term(create_const_node(k, <<0, 1>>, UINT), TRUE)>> \o terms
    ELSE LET i == CHOOSE i \in added : \A j \in added : i <= j
         IN  [terms EXCEPT ![1] = terms[i], ![i] = terms[1]]

Chain(k, terms, hint) ==
    FoldLeftDomain(LAMBDA n, i : IF i = 1 \/ const_zero_node(terms[i].node) THEN n
                           ELSE create_op_node(k + i, IF terms[i].plus THEN "+" ELSE "-", n, terms[i].node, hint),
                   terms[1].node, terms)

_parse_and_optimize_node_sum(k, s0, s1, hint) ==
    LET terms == Recognised(k + 10,
                            Cancelled(node_to_list_of_sum_of_nodes(s0, TRUE)
                                        \o node_to_list_of_sum_of_nodes(s1, TRUE)))
    IN  IF terms = <<>> THEN create_op_node(k, "+", s0, s1, hint)
        ELSE Chain(k + 20, AddedFirst(k + 9, terms), hint)

-----------------------------------------------------------------------------
(* The other operators *)
_optimized_nodes_mul(k, s0, s1, hint) ==
    LET swapped == s0.value = <<>> \/ s0.value[1] # "WORK_GROUP_ID"
        group   == IF swapped THEN s1 ELSE s0
        size    == IF swapped THEN s0 ELSE s1
        name(kind) == create_work_item_function_node(k + (IF kind = "LOCAL_SIZE" THEN 1 ELSE 2), <<kind, group.value[2]>>)
    IN  CASE const_zero_node(s0) -> s0
          [] ~const_zero_node(s0) /\ const_zero_node(s1) -> s1
          [] ~const_zero_node(s0) /\ ~const_zero_node(s1) /\ const_one_node(s0) -> s1
          [] ~const_zero_node(s0) /\ ~const_one_node(s0) /\ const_one_node(s1) -> s0
          [] OTHER ->
               IF IsFunction(group, "WORK_GROUP_ID") /\ IsConst(size) /\ size.num = <<size_of_workgroups[group.value[2]], 1>>
               THEN create_op_node(k, "*", name("WORK_GROUP_ID"), name("LOCAL_SIZE"), Hint(UINT, FALSE, FALSE, FALSE))
               ELSE create_op_node(k, "*", s0, s1, hint)

(* (x * a) / b becomes x * (a / b). *)
_optimized_nodes_div(k, s0, s1, hint) ==
    IF const_one_node(s1) THEN s0
    ELSE IF IsConst(s1) /\ IsOp(s0, "*") /\ IsConst(s0.right)
    THEN LET quotient == Apply("/", s0.right.num, s1.num)
             type     == get_common_type(s0.right.hint.type, s1.hint.type)
         IN  IF quotient = <<1, 1>> THEN s0.left
             ELSE [s0 EXCEPT !.right = create_const_node(k, quotient, type)]
    ELSE create_op_node(k, "/", s0, s1, hint)

(* Subtracting a negative constant adds, adding one subtracts; 0 - (x - y)  *)
(* is y - x and 0 - x * y is -1 * (x * y).                                 *)
RECURSIVE _optimized_nodes_sub(_, _, _, _, _), _optimized_nodes_sum(_, _, _, _, _)
_optimized_nodes_sub(m, k, s0, s1, hint) ==
    IF const_zero_node(s0) /\ IsOp(s1, "-") THEN _optimized_nodes_sub(m, k, s1.right, s1.left, hint)
    ELSE IF const_zero_node(s0) /\ (IsOp(s1, "*") \/ IsOp(s1, "/"))
         THEN _optimized_nodes_mul(k, create_const_node(k + 8, <<-1, 1>>, INT), s1, hint)
    ELSE IF const_zero_node(s1) THEN s0
    ELSE IF const_negative_node(s1) THEN _optimized_nodes_sum(m, k, s0, Absolute(s1), hint)
    ELSE IF s0 = s1 THEN create_const_node(k, <<0, 1>>, UINT)
    ELSE create_op_node(k, "-", s0, s1, hint)

AsAskedFor(m, n) == IF n \in DOMAIN m.original THEN m.original[n] ELSE n

_optimized_nodes_sum(m, k, s0, s1, hint) ==
    IF const_zero_node(s0) THEN s1
    ELSE IF const_zero_node(s1) THEN s0
    ELSE IF const_negative_node(s0) /\ ~const_negative_node(s1) THEN _optimized_nodes_sum(m, k, s1, s0, hint)
    ELSE IF const_negative_node(s1) THEN _optimized_nodes_sub(m, k, s0, Absolute(s1), hint)
    ELSE _parse_and_optimize_node_sum(k, s0,
             IF s0.hint.pointer /\ IsConst(s1) /\ s1.num[2] # 1 THEN m.original[s1] ELSE s1, hint)

_optimized_nodes_logical_operation(k, op, s0, s1, hint) ==
    LET unknown == {s \in {s0, s1} : s.type = "UNKNOWN"}
        known   == IF s0.type = "UNKNOWN" THEN s1 ELSE s0
        const   == IF IsConst(s0) THEN s0 ELSE s1
        other   == IF IsConst(s0) THEN s1 ELSE s0
        folded(b) == create_const_node(k, Truth(b), hint.type)
    IN  CASE unknown # {} /\ op = "^" -> create_op_node(k, "!", known, NoNode, known.hint)
          [] unknown # {} /\ op # "^" -> known
          [] unknown = {} /\ IsConst(const) /\ op = "||" /\ Holds(const.num) -> folded(TRUE)
          [] unknown = {} /\ IsConst(const) /\ op = "&&" -> IF Holds(const.num) THEN other ELSE folded(FALSE)
          [] OTHER -> create_op_node(k, op, s0, s1, hint)

-----------------------------------------------------------------------------
(* What the manager's users call.  Each takes the manager m and yields the  *)
(* manager after it, with the expression it returns as `node`.             *)
Returned(m, n, asked) == [node |-> n, original |-> (n :> asked) @@ m.original, fresh |-> m.fresh + 1]
Typed(n, type) == IF n.hint.type = UNKNOWN THEN [n EXCEPT !.hint.type = type] ELSE n
Addresses(n) == n.type = "VAR" /\ (n.hint.pointer \/ n.hint.global)

add_operation(m, a, b, op, type) ==
    LET k    == 64 * m.fresh
        s0   == Typed(a, type)
        s1   == Typed(b, type)
        both == IsConst(s0) /\ IsConst(s1)
        hint == IF both THEN Hint(get_common_type(s0.hint.type, s1.hint.type), TRUE, FALSE, FALSE)
                ELSE IF Addresses(s0) THEN s0.hint
                ELSE IF Addresses(s1) THEN s1.hint
                ELSE common_hint(s0.hint, s1.hint)
        node == CASE both -> create_const_node(k, Apply(op, s0.num, s1.num), hint.type)
                  [] ~both /\ op = "+" -> _optimized_nodes_sum(m, k, s0, s1, hint)
                  [] ~both /\ op = "-" -> _optimized_nodes_sub(m, k, s0, s1, hint)
                  [] ~both /\ op = "*" -> _optimized_nodes_mul(k, s0, s1, hint)
                  [] ~both /\ op = "/" -> _optimized_nodes_div(k, s0, s1, hint)
                  [] ~both /\ op \in Logical -> _optimized_nodes_logical_operation(k, op, s0, s1, hint)
                  [] OTHER -> create_op_node(k, op, s0, s1, hint)
    IN  Returned(m, node, create_op_node(k + 63, op, AsAskedFor(m, s0), AsAskedFor(m, s1), hint))
==============================================================================
