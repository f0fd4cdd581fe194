----------------------------- MODULE Expressions -----------------------------
(***************************************************************************)
(* Expressions that registers hold while operations are added to them,     *)
(* conditions are negated and parts are replaced by variables              *)
(* (src/expression_manager), and the texts printed for them.               *)
(***************************************************************************)
EXTENDS ExpressionManager

CONSTANTS
    Scenarios,           \* what a behaviour begins with: leaves, operators, steps
    Envs                 \* values of the work-item functions and variables

-----------------------------------------------------------------------------
(* What the manager's users call besides add_operation.                     *)
Inverted == ("==" :> "!=") @@ ("!=" :> "==") @@ ("<" :> ">=") @@ (">=" :> "<") @@ ("<=" :> ">") @@ (">" :> "<=")

add_logical_not_node(m, n) ==
    LET k   == 64 * m.fresh
        not == create_op_node(k + 63, "!", n, NoNode, n.hint)
    IN  CASE IsOp(n, "!") -> Returned(m, n.left, not)
          [] n.type = "OP" /\ n.value[1] \in Comparisons -> Returned(m, [n EXCEPT !.value = <<Inverted[@[1]]>>], not)
          [] IsConst(n) -> Returned(m, create_const_node(k, Truth(const_zero_node(n)), UINT), not)
          [] OTHER -> [node |-> not, original |-> m.original, fresh |-> m.fresh + 1]

RECURSIVE apply_optimizations(_, _)
apply_optimizations(m, n) ==
    CASE IsOp(n, "!") -> add_logical_not_node(m, n.left)
      [] n.type = "OP" /\ n.value # <<"!">> ->
           LET l == apply_optimizations(m, n.left)
               r == apply_optimizations(l, n.right)
           IN  add_operation(r, l.node, r.node, n.value[1], n.hint.type)
      [] n.type = "CONST" -> [m EXCEPT !.node = create_const_node(64 * m.fresh, n.num, n.hint.type), !.fresh = @ + 1]
      [] OTHER -> [m EXCEPT !.node = n]

RECURSIVE replace(_, _, _)
replace(n, from, to) ==
    CASE n = NoNode \/ contents_equal(n, to) -> n
      [] n # NoNode /\ ~contents_equal(n, to) /\ contents_equal(n, from) -> to
      [] OTHER -> IF n.type = "OP"
                  THEN [n EXCEPT !.left = replace(n.left, from, to), !.right = replace(n.right, from, to)]
                  ELSE n

(* The part is looked for as it was asked for, and then as it is.           *)
replace_node(m, n, from, to) ==
    LET asked  == AsAskedFor(m, n)
        first  == replace(asked, AsAskedFor(m, from), to)
        second == IF contents_equal(first, asked) THEN replace(first, from, to) ELSE first
        third  == IF contents_equal(second, asked) THEN replace(second, AsAskedFor(m, from), to) ELSE second
    IN  IF contents_equal(n, to) THEN [m EXCEPT !.node = n]
        ELSE apply_optimizations(m, third)

-----------------------------------------------------------------------------
(* Printing.  A text is a sequence of symbols and operands.                 *)
Sym(s) == <<[sym |-> s, node |-> NoNode]>>
Bracketed(text) == Sym("(") \o text \o Sym(")")
Has(text, s) == \E i \in 1 .. Len(text) : text[i].sym = s

\* Mutant: a difference in a difference goes without brackets.
check_op_node_needs_brackets_same(op, child) == child.type = "OP" /\ child.value # <<op>>
check_op_node_needs_brackets(op, child) == child.type = "OP" /\ (op = "-" \/ child.value # <<op>>)

IsPointer(n) == n.type = "VAR" /\ n.hint.pointer

RECURSIVE TextOf(_, _)
TextOf(n, root) ==
    LET op    == n.value[1]
        left  == TextOf(n.left, FALSE)
        right == TextOf(n.right, FALSE)
    IN  CASE n.type # "OP" -> <<[sym |-> "", node |-> n]>>
          [] IsOp(n, "!")  -> Sym("!") \o Bracketed(left)
          [] IsOp(n, "+") /\ IsPointer(n.left) ->
               left \o Sym("[") \o right \o (IF root THEN Sym("]") ELSE <<>>)
          [] OTHER ->
               (IF check_op_node_needs_brackets(op, n.left) /\ ~Has(left, "[") THEN Bracketed(left) ELSE left)
                 \o Sym(op)
                 \o (IF check_op_node_needs_brackets(op, n.right) THEN Bracketed(right) ELSE right)
                 \o (IF Has(left, "[") THEN Sym("]") ELSE <<>>)

(* What a compiler reads: an operator outside of all brackets binds weaker  *)
(* than those inside, of several the weakest and of these the last one; an  *)
(* indexed pointer is the address of the element.                          *)
Levels == <<{"||"}, {"&&"}, {"^"}, {"==", "!="}, Comparisons, {"+", "-"}, {"*", "/"}>>
Depth(text, i) == Cardinality({j \in 1 .. i : text[j].sym \in {"(", "["}})
                    - Cardinality({j \in 1 .. i : text[j].sym \in {")", "]"}})
WellFormed(text) == Depth(text, Len(text)) = 0 /\ \A i \in 1 .. Len(text) : Depth(text, i) >= 0

RECURSIVE ReadBack(_, _)
ReadBack(text, env) ==
    LET outside(l) == {i \in 1 .. Len(text) : text[i].sym \in Levels[l] /\ Depth(text, i) = 0}
        levels     == {l \in 1 .. Len(Levels) : outside(l) # {}}
        weakest    == CHOOSE l \in levels : \A k \in levels : l <= k
        last       == CHOOSE i \in outside(weakest) : \A j \in outside(weakest) : i >= j
    IN  CASE levels # {} -> Apply(text[last].sym, ReadBack(SubSeq(text, 1, last - 1), env),
                                                  ReadBack(SubSeq(text, last + 1, Len(text)), env))
          [] levels = {} /\ Len(text) = 1 -> Eval(text[1].node, env)
          [] levels = {} /\ text[1].sym = "(" -> ReadBack(SubSeq(text, 2, Len(text) - 1), env)
          [] levels = {} /\ text[1].sym = "!" -> Truth(~Holds(ReadBack(Tail(text), env)))
          [] OTHER -> Apply("+", Eval(text[1].node, env), ReadBack(SubSeq(text, 3, Len(text) - 1), env))

-----------------------------------------------------------------------------
VARIABLES
    pool,      \* what the registers hold: an expression and what it stands for
    original,  \* _optimized_nodes_to_original
    fresh,     \* number of identities used
    ops,       \* operators and number of operations of the scenario
    steps

vars == <<pool, original, fresh, ops, steps>>
manager == [node |-> NoNode, original |-> original, fresh |-> fresh]

(* An entry of the pool: the node, the computation it stands for without    *)
(* any simplification, whether it is a condition, and whether a sum in it   *)
(* subtracts the same term twice.                                          *)
Entry(node, asked, twice) == [node |-> node, asked |-> Contents(asked), twice |-> twice]
IsCondition(n) == n.type = "UNKNOWN" \/ (n.type = "OP" /\ n.value[1] \in Comparisons \cup Logical)

Init ==
    \E s \in Scenarios :
        /\ pool = [i \in 1 .. Len(s.leaves) |-> Entry([s.leaves[i] EXCEPT !.id = i], s.leaves[i], FALSE)]
        /\ original = <<>>
        /\ fresh = 1
        /\ ops = s.ops
        /\ steps = s.steps

Keep(m, entry) ==
    /\ pool' = Append(pool, entry)
    /\ original' = m.original
    /\ fresh' = m.fresh
    /\ steps' = steps - 1
    /\ UNCHANGED ops

HasPointer(n) == \E t \in Range(node_to_list_of_sum_of_nodes(n, TRUE)) : IsPointer(t.node)

Operate(op, i, j) ==
    /\ steps > 0
    /\ op \in ops \ {"!", "replace"}
    /\ \A k \in {i, j} : IsCondition(pool[k].asked) = (op \in Logical)
    /\ ~(HasPointer(pool[i].node) /\ HasPointer(pool[j].node))
    /\ op = "/" => IsConst(pool[j].node) /\ ~const_zero_node(pool[j].node)
    /\ LET m == add_operation(manager, pool[i].node, pool[j].node, op, UINT) IN
       Keep(m, Entry(m.node, create_op_node(0, op, pool[i].asked, pool[j].asked, m.node.hint),
                     pool[i].twice \/ pool[j].twice \/ (op \in {"+", "-"} /\ SubtractsTwice(pool[i].node, pool[j].node))))

Negate(i) ==
    /\ steps > 0
    /\ "!" \in ops
    /\ IsCondition(pool[i].asked)
    /\ LET m == add_logical_not_node(manager, pool[i].node) IN
       Keep(m, Entry(m.node, create_op_node(0, "!", pool[i].asked, NoNode, m.node.hint), pool[i].twice))

(* A variable takes the place of an expression in another one. *)
Replaced == create_var_node(0, <<"var">>, Hint(UINT, FALSE, FALSE, FALSE))
ReplaceBy(i, f) ==
    /\ steps > 0
    /\ "replace" \in ops
    /\ i # f /\ ~IsConst(pool[f].node)
    /\ LET m == replace_node(manager, pool[i].node, pool[f].node, Replaced) IN
       Keep(m, Entry(m.node, replace(pool[i].asked, pool[f].asked, Replaced), pool[i].twice \/ pool[f].twice))

Next == \E i, j \in 1 .. Len(pool) : (\E op \in ops : Operate(op, i, j)) \/ Negate(i) \/ ReplaceBy(i, j)
Spec == Init /\ [][Next]_vars

-----------------------------------------------------------------------------
(* A register's expression has the value of the computation that made it    *)
(* (expression_manager.py add_operation, add_logical_not_node).            *)
DenotesUnlessTwice ==
    \A e \in Range(pool) : ~e.twice => \A env \in Envs : Eval(e.node, env) = Eval(e.asked, env)
Denotes == \A e \in Range(pool) : \A env \in Envs : Eval(e.node, env) = Eval(e.asked, env)

(* The text of a condition or a value reads back as the expression          *)
(* (expression_helper_functions.py op_expression_to_string).               *)
ReadsBack(n) ==
    LET text == TextOf(n, TRUE) IN
    WellFormed(text) /\ \A env \in Envs : ReadBack(text, env) = Eval(n, env)
PrintedIsNode == \A e \in Range(pool) : ReadsBack(e.node)
==============================================================================
