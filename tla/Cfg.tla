--------------------------------- MODULE Cfg ---------------------------------
(***************************************************************************)
(* BuildDecompilerCfgPass: the control flow graph the decompiler builds,   *)
(* one node per IR instruction (src/src/ir/passes/decompilation/cfg.py and *)
(* the instructions it lowers).                                            *)
(*                                                                         *)
(* A node is a number, in the order of creation; node 1 is the root.  A    *)
(* node keeps its instruction, its parents and children in order, the      *)
(* execution condition of "$MASK" and, for every register, the text of its *)
(* value and its version (version 0: the register is not in node.state).   *)
(*                                                                         *)
(* exec_registers is ONE table for the whole kernel, not a part of         *)
(* node.state: what an instruction of one branch stores there is seen by   *)
(* the next branch, while node.state is copied from the parent.            *)
(***************************************************************************)
EXTENDS ExecCondition, Sequences, FiniteSets, SequencesExt

CONSTANTS
  Preds,       \* predicate registers (PredReg): exec, vcc, ...
  Scalars,     \* the other registers, in the order of node.state: a sequence
  Labels,      \* labels of the kernel
  Comparisons, \* numbers of the comparison texts
  MaxNodes     \* bound on the number of nodes

ScalarSet == Range(Scalars)
Regs == Preds \cup ScalarSet

ASSUME ConstantsAssumption ==
  /\ Scalars \in Seq(STRING)
  /\ Preds \cap ScalarSet = {}
  /\ Comparisons \subseteq Nat
  /\ MaxNodes \in Nat

VARIABLES
  instruction,        \* node -> opcode
  parent, children,   \* node -> sequence of nodes
  mask,               \* node -> execution condition of "$MASK"
  state,              \* node -> [register -> [text, ver]]
  exec_registers,     \* register -> execution condition
  exec_known,         \* the keys of exec_registers
  versions,           \* register -> number of the last version given out
  num_of_var,         \* number of merge variables created
  variables,          \* <<register, version>> -> variable its definition assigns
  checked_variables,  \* <<register, version>> -> variable its uses read
  masked_blocks,      \* stack of open masks
  to_node,            \* label -> its node, 0 before the label is met
  from_node,          \* label -> the branches that wait for it
  back_edges,         \* branches to a label already met
  outcome             \* "running", "done", or the exception that ended the pass

graph == <<instruction, parent, children, mask, state>>
naming == <<versions, num_of_var, variables, checked_variables>>
execs == <<exec_registers, exec_known>>
jumps == <<to_node, from_node, back_edges>>
vars == <<graph, naming, execs, jumps, masked_blocks, outcome>>

Nodes == 1 .. Len(instruction)
last_node == Len(instruction)
no_parent == 0

Present(st, r) == st[r].ver > 0

------------------------------------------------------------------------------
(***************************************************************************)
(* find_max_and_prev_versions: at a node with several parents, a register  *)
(* that is not a predicate and arrives in several versions gets the next   *)
(* version and a variable of its own, and every arriving version is told   *)
(* to assign that variable.                                                *)
(***************************************************************************)
prev_versions(r, ps) == {state[p][r].ver : p \in {q \in Range(ps) : Present(state[q], r)}}

\* Mutant: the smallest arriving version instead of the largest.
max_version_smallest(r, ps) == CHOOSE v \in prev_versions(r, ps) : \A w \in prev_versions(r, ps) : v <= w

max_version(r, ps) == CHOOSE v \in prev_versions(r, ps) : \A w \in prev_versions(r, ps) : w <= v

\* The registers merged at a node with state st and parents ps.
Merged(st, ps) ==
  {r \in ScalarSet : Present(st, r) /\ \E v, w \in prev_versions(r, ps) : v # w}

\* The number of the variable given to r: they are numbered in the order of the registers.
variable(r, M) ==
  num_of_var + Cardinality({i \in DOMAIN Scalars :
                  Scalars[i] \in M /\ \A j \in DOMAIN Scalars : Scalars[j] = r => i < j})

MergedState(st, ps) ==
  LET M == Merged(st, ps)
  IN  [r \in Regs |-> IF r \in M
                      THEN [text |-> Var(variable(r, M)), ver |-> max_version(r, ps) + 1]
                      ELSE st[r]]

\* The versions merged into r, and the variables their uses read until now.
\* Mutant: only the largest arriving version is told to assign the variable.
PrevKeys_largest(r, ps) == {<<r, max_version(r, ps)>>}

PrevKeys(r, ps) == {<<r, v>> : v \in prev_versions(r, ps)}
OldVars(r, ps) == {checked_variables[k] : k \in PrevKeys(r, ps) \cap DOMAIN checked_variables}

MergeChecked(M, ps) ==
  LET new == {<<r, max_version(r, ps) + 1>> : r \in M}
  IN  checked_variables' =
        [k \in DOMAIN checked_variables \cup new |->
           IF k \in new \/ (k[1] \in M /\ k \in PrevKeys(k[1], ps))
           THEN variable(k[1], M) ELSE checked_variables[k]]

MergeVariables(M, ps) ==
  LET prev == UNION {PrevKeys(r, ps) : r \in M}
      Renamed(v) == IF \E r \in M : v \in OldVars(r, ps)
                    THEN variable(CHOOSE r \in M : v \in OldVars(r, ps), M) ELSE v
  IN  variables' =
        [k \in DOMAIN variables \cup prev |->
           IF k \in prev THEN variable(k[1], M) ELSE Renamed(variables[k])]

update_reg_version(st, ps, vs) ==
  LET M == Merged(st, ps)
  IN  /\ num_of_var' = num_of_var + Cardinality(M)
      /\ versions' = [r \in Regs |-> IF r \in M THEN max_version(r, ps) + 1 ELSE vs[r]]
      /\ MergeChecked(M, ps)
      /\ MergeVariables(M, ps)

------------------------------------------------------------------------------
(***************************************************************************)
(* Emitting a node (NodeLoweringContext): the new node gets a copy of a    *)
(* state, is attached to its parents on both sides, and is merged if it    *)
(* has more than one.                                                      *)
(***************************************************************************)
\* node once more among the children of p for every time p is one of its parents.
\* Mutant: only the last parent learns of its new child.
Attach_last(p, ps, node) ==
  IF ps # <<>> /\ ps[Len(ps)] = p THEN Append(children[p], node) ELSE children[p]

Attach(p, ps, node) ==
  children[p] \o [i \in 1 .. Cardinality({j \in DOMAIN ps : ps[j] = p}) |-> node]

EmitNode(opcode, ps, st, vs, mk) ==
  LET n == Len(instruction) + 1
  IN  /\ n <= MaxNodes
      /\ instruction' = Append(instruction, opcode)
      /\ parent' = Append(parent, ps)
      /\ children' = Append([p \in Nodes |-> Attach(p, ps, n)], <<>>)
      /\ mask' = Append(mask, mk)
      /\ IF Len(ps) > 1
         THEN /\ state' = Append(state, MergedState(st, ps))
              /\ update_reg_version(st, ps, vs)
         ELSE /\ state' = Append(state, st)
              /\ versions' = vs
              /\ UNCHANGED <<num_of_var, variables, checked_variables>>

\* The parents of a node before any mask is closed: none after an unconditional jump.
\* Mutant: a conditional branch cuts the flow too.
parents_any_branch == IF instruction[last_node] \in {"s_branch", "s_br"} THEN <<>> ELSE <<last_node>>

parents == IF instruction[last_node] = "s_branch" THEN <<>> ELSE <<last_node>>

\* set_reg_value and make_version: register r gets a new version with the given text.
SetReg(st, r, txt) == [st EXCEPT ![r] = [text |-> txt, ver |-> versions[r] + 1]]
Bump(r) == [versions EXCEPT ![r] = @ + 1]

\* An instruction that writes register d and leaves the masks alone.
Define(opcode, d, txt) ==
  EmitNode(opcode, parents, SetReg(state[last_node], d, txt), Bump(d), mask[last_node])

SetExec(d, C) ==
  /\ exec_registers' = [exec_registers EXCEPT ![d] = C]
  /\ exec_known' = exec_known \cup {d}

running == outcome = "running"
\* An exception: a register that is not there (KeyError, AttributeError), or an assert.
Fail(exception) == outcome' = exception /\ UNCHANGED <<graph, naming, execs, jumps, masked_blocks>>

------------------------------------------------------------------------------
(***************************************************************************)
(* The instructions on predicates.                                         *)
(***************************************************************************)
\* VCmp: the comparison is the value of d, and its condition if d is a predicate.
VCmp(d, i) ==
  /\ running
  /\ Define("v_cmp", d, Cmp(i))
  /\ IF d \in Preds THEN SetExec(d, {Cmp(i)}) ELSE UNCHANGED execs
  /\ UNCHANGED <<jumps, masked_blocks, outcome>>

\* SMov with a predicate among its operands: the condition follows the value.
MovFails(s) == ~Present(state[last_node], s) \/ s \notin exec_known
SMov(d, s) ==
  /\ running
  /\ d \in Preds \/ s \in Preds
  /\ \/ MovFails(s) /\ Fail("MissingRegister")
     \/ /\ ~MovFails(s)
        /\ Define("s_mov_b64", d, state[last_node][s].text)
        /\ SetExec(d, exec_registers[s])
        /\ UNCHANGED <<jumps, masked_blocks, outcome>>

\* SAnd: the operand that is a predicate gives the condition, the other one its value.
AndLeft(s0, s1) == IF s0 \in Preds THEN s0 ELSE s1
AndRight(s0, s1) == IF s0 \in Preds THEN s1 ELSE s0
AndFails(s0, s1) ==
  \/ AndLeft(s0, s1) \notin exec_known
  \/ ~Present(state[last_node], s0) \/ ~Present(state[last_node], s1)
AndResult(s0, s1) ==
  ExecAnd(exec_registers[AndLeft(s0, s1)], state[last_node][AndRight(s0, s1)].text)

SAnd(d, s0, s1) ==
  /\ running
  /\ {d, s0, s1} \cap Preds # {}
  /\ \/ AndFails(s0, s1) /\ Fail("MissingRegister")
     \/ /\ ~AndFails(s0, s1)
        /\ Define("s_and_b64", d, top(AndResult(s0, s1)))
        /\ SetExec(d, AndResult(s0, s1))
        /\ UNCHANGED <<jumps, masked_blocks, outcome>>

\* SOr and SXor combine the conditions of both operands; both are symmetric in them.
BothKnown(s0, s1) ==
  \A s \in {s0, s1} : s \in exec_known /\ Present(state[last_node], s)

SOr(d, s0, s1) ==
  /\ running
  /\ {d, s0, s1} \cap Preds # {}
  /\ \/ ~BothKnown(s0, s1) /\ Fail("MissingRegister")
     \/ /\ BothKnown(s0, s1)
        /\ LET C == ExecOr(exec_registers[s0], exec_registers[s1])
           IN  Define("s_or_b64", d, top(C)) /\ SetExec(d, C)
        /\ UNCHANGED <<jumps, masked_blocks, outcome>>

SXor(d, s0, s1) ==
  LET C == exec_registers[s0]
      D == exec_registers[s1]
  IN  /\ running
      /\ {d, s0, s1} \cap Preds # {}
      /\ \/ ~BothKnown(s0, s1) /\ Fail("MissingRegister")
         \/ BothKnown(s0, s1) /\ ~xor_defined(C, D) /\ Fail("AssertionError")
         \/ /\ BothKnown(s0, s1) /\ xor_defined(C, D)
            /\ Define("s_xor_b64", d, top(ExecXor(C, D)))
            /\ SetExec(d, ExecXor(C, D))
            /\ UNCHANGED <<jumps, masked_blocks, outcome>>

\* SNot: always one more "!( )" around the value, the condition only between predicates.
SNot(d, s) ==
  LET negated == Wrap(state[last_node][s].text)
  IN  /\ running
      /\ \/ ~Present(state[last_node], s) /\ Fail("MissingRegister")
         \/ /\ Present(state[last_node], s)
            /\ Define("s_not_b64", d, negated)
            /\ IF d \in Preds /\ s \in Preds THEN SetExec(d, {negated}) ELSE UNCHANGED execs
            /\ UNCHANGED <<jumps, masked_blocks, outcome>>

\* Any instruction that writes an ordinary register, and any that writes none.
Arith(d) ==
  /\ running
  /\ d \in ScalarSet
  /\ Define("arith", d, Value(last_node + 1))
  /\ UNCHANGED <<execs, jumps, masked_blocks, outcome>>

Plain ==
  /\ running
  /\ EmitNode("plain", parents, state[last_node], versions, mask[last_node])
  /\ UNCHANGED <<execs, jumps, masked_blocks, outcome>>

------------------------------------------------------------------------------
(***************************************************************************)
(* Masks.                                                                  *)
(***************************************************************************)
OpenMask(n, e) == [change_mask |-> n, previous_branch_end |-> e]

\* How much of the stack _close_open_masks leaves when the condition becomes C.
Closable(i, C) == StrictSubset(C, mask[masked_blocks[i].change_mask])
Kept(C) ==
  CHOOSE k \in 1 .. Len(masked_blocks) :
    /\ k > 1 => ~Closable(k, C)
    /\ \A i \in k + 1 .. Len(masked_blocks) : Closable(i, C)

\* The node a closed mask contributes: the end of the branch before an else, or the mask itself.
\* Mutant: the end of the branch before an else is forgotten.
ClosedParent_mask(m) == m.change_mask

ClosedParent(m) == IF m.previous_branch_end # no_parent THEN m.previous_branch_end ELSE m.change_mask

\* The parents of the closed masks, from the top of the stack down.
ClosedParents(C) ==
  [i \in 1 .. Len(masked_blocks) - Kept(C) |->
     ClosedParent(masked_blocks[Len(masked_blocks) - i + 1])]

\* _append_unique_node: only the first of them can be among ps, and no two of them are equal
\* (NoRepeatedParent).  Mutant: a node is appended whether it is there or not.
ParentsOfClosed_repeats(ps, C) == ps \o ClosedParents(C)

ParentsOfClosed(ps, C) ==
  LET new == ClosedParents(C)
  IN  IF new # <<>> /\ new[1] \in Range(ps) THEN ps \o Tail(new) ELSE ps \o new

\* The topmost open mask below index `end' whose condition is C, or 0.
find_open_mask_index(C, end) ==
  LET found == {i \in 1 .. end : mask[masked_blocks[i].change_mask] = C}
  IN  IF found = {} THEN 0 ELSE CHOOSE i \in found : \A j \in found : j <= i

EnterMask(C) ==
  /\ EmitNode("change_mask", parents, state[last_node], versions, C)
  /\ masked_blocks' = Append(masked_blocks, OpenMask(last_node + 1, no_parent))

CloseMask(C) ==
  /\ EmitNode("change_mask", ParentsOfClosed(parents, C), state[last_node], versions, C)
  /\ masked_blocks' = SubSeq(masked_blocks, 1, Kept(C))

\* How much of the stack an else leaves: down to the mask it shares with the branch before.
\* Mutant: the mask of the branch before stays open.
ElseKept_branch(i, j) == i

ElseKept(i, j) == IF j # 0 THEN j ELSE IF i > 1 THEN i - 1 ELSE 1

\* An else: the node hangs off the mask of the branch before, whose end is kept for the close.
ElseMask(C) ==
  LET prev == mask[last_node]
      i == find_open_mask_index(prev, Len(masked_blocks))
      j == find_open_mask_index(sibling_parent(prev, C), i - 1)
      cm == masked_blocks[i].change_mask
  IN  IF i # 0
      THEN /\ EmitNode("change_mask", <<cm>>, state[cm], versions, C)
           /\ masked_blocks' = Append(SubSeq(masked_blocks, 1, ElseKept(i, j)),
                                      OpenMask(last_node + 1, last_node))
      ELSE /\ EmitNode("change_mask", parents, state[last_node], versions, C)
           /\ UNCHANGED masked_blocks

\* Mutant: a mask is opened for every other change.
OtherMask_opens(C) ==
  /\ EmitNode("change_mask", parents, state[last_node], versions, C)
  /\ masked_blocks' = Append(masked_blocks, OpenMask(last_node + 1, no_parent))

\* Every other change of the condition leaves the stack alone.
OtherMask(C) ==
  /\ EmitNode("change_mask", parents, state[last_node], versions, C)
  /\ UNCHANGED masked_blocks

ChangeMask(p) ==
  LET C == exec_registers[p]
      prev == mask[last_node]
  IN  /\ running
      /\ p \in Preds
      /\ \/ StrictSubset(prev, C) /\ EnterMask(C)
         \/ StrictSubset(C, prev) /\ CloseMask(C)
         \/ ~(prev \subseteq C) /\ ~(C \subseteq prev) /\ Siblings(prev, C) /\ ElseMask(C)
         \/ /\ C = prev \/ (~(prev \subseteq C) /\ ~(C \subseteq prev) /\ ~Siblings(prev, C))
            /\ OtherMask(C)
      /\ UNCHANGED <<execs, jumps, outcome>>

\* Unmask and EndPgm close every open mask.
\* Mutant: only the innermost mask is closed.
CloseAll_innermost(opcode) ==
  /\ EmitNode(opcode, ParentsOfClosed(parents, {}), state[last_node], versions, {})
  /\ masked_blocks' = SubSeq(masked_blocks, 1, IF Len(masked_blocks) > 1 THEN Len(masked_blocks) - 1 ELSE 1)
  /\ UNCHANGED <<execs, jumps>>

CloseAll(opcode) ==
  /\ EmitNode(opcode, ParentsOfClosed(parents, {}), state[last_node], versions, {})
  /\ masked_blocks' = SubSeq(masked_blocks, 1, Kept({}))
  /\ UNCHANGED <<execs, jumps>>

Unmask == running /\ CloseAll("unmask") /\ UNCHANGED outcome
EndPgm == running /\ CloseAll("s_endpgm") /\ UNCHANGED outcome

------------------------------------------------------------------------------
(***************************************************************************)
(* Branches and labels (to_fill_branch_node, Label).  A branch to a label  *)
(* already met is a back edge; otherwise it waits for the label.           *)
(***************************************************************************)
\* Mutant: a back edge is not recorded.
BackEdges_none(n) == back_edges
BackEdges(n) == back_edges \cup {n}

BranchTo(opcode, l) ==
  LET n == last_node + 1
  IN  /\ running
      /\ n <= MaxNodes
      /\ instruction' = Append(instruction, opcode)
      /\ mask' = Append(mask, mask[last_node])
      /\ state' = Append(state, state[last_node])
      /\ LET kids == [p \in Nodes |-> Attach(p, parents, n)]
         IN  IF to_node[l] # 0
             THEN /\ parent' = Append([parent EXCEPT ![to_node[l]] = Append(@, n)], parents)
                  /\ children' = Append(kids, <<to_node[l]>>)
                  /\ back_edges' = BackEdges(n)
                  /\ UNCHANGED from_node
             ELSE /\ parent' = Append(parent, parents)
                  /\ children' = Append(kids, <<>>)
                  /\ from_node' = [from_node EXCEPT ![l] = Append(@, n)]
                  /\ UNCHANGED back_edges
      /\ UNCHANGED <<naming, execs, to_node, masked_blocks, outcome>>

Branch(l) == BranchTo("s_br", l)
BranchNot(l) == BranchTo("s_nbr", l)
Jump(l) == BranchTo("s_branch", l)

\* A label (the assembler defines it once) takes the branches that wait for it as further parents and the state of the last one.
Label(l) ==
  LET ps == parents \o from_node[l]
      from == IF from_node[l] = <<>> THEN last_node ELSE Last(from_node[l])
  IN  /\ running
      /\ to_node[l] = 0
      /\ EmitNode("label", ps, state[from], versions, mask[from])
      /\ to_node' = [to_node EXCEPT ![l] = last_node + 1]
      /\ UNCHANGED <<execs, from_node, back_edges, masked_blocks, outcome>>

\* The instruction list is exhausted.
Finish == running /\ outcome' = "done" /\ UNCHANGED <<graph, naming, execs, jumps, masked_blocks>>

------------------------------------------------------------------------------
(***************************************************************************)
(* The initial state: the root node, after the InitPredicate instructions  *)
(* every kernel starts with have given each predicate its first version    *)
(* and the default condition.                                              *)
(***************************************************************************)
InitialState ==
  [r \in Regs |-> [text |-> DEFAULT, ver |-> IF r \in Preds THEN 1 ELSE 0]]

Init ==
  /\ instruction = <<"root">>
  /\ parent = <<<<>>>> /\ children = <<<<>>>>
  /\ mask = <<{}>>
  /\ state = <<InitialState>>
  /\ exec_registers = [r \in Regs |-> {}]
  /\ exec_known = Preds
  /\ versions = [r \in Regs |-> InitialState[r].ver]
  /\ num_of_var = 0
  /\ variables = <<>> /\ checked_variables = <<>>
  /\ masked_blocks = <<OpenMask(1, no_parent)>>
  /\ to_node = [l \in Labels |-> 0]
  /\ from_node = [l \in Labels |-> <<>>]
  /\ back_edges = {}
  /\ outcome = "running"

\* Any instruction list: every order of every instruction.
Instruction ==
  \/ \E d \in Regs, i \in Comparisons : VCmp(d, i)
  \/ \E d, s \in Regs : SMov(d, s) \/ SNot(d, s)
  \/ \E d, s0, s1 \in Regs : SAnd(d, s0, s1) \/ SOr(d, s0, s1) \/ SXor(d, s0, s1)
  \/ \E d \in ScalarSet : Arith(d)
  \/ Plain
  \/ \E p \in Preds : ChangeMask(p)
  \/ Unmask
  \/ EndPgm
  \/ \E l \in Labels : Branch(l) \/ BranchNot(l) \/ Jump(l) \/ Label(l)

Next == Instruction \/ Finish

Spec == Init /\ [][Next]_vars

------------------------------------------------------------------------------
Opcodes == {"root", "v_cmp", "s_mov_b64", "s_and_b64", "s_or_b64", "s_xor_b64", "s_not_b64",
            "arith", "plain", "change_mask", "unmask", "s_endpgm", "s_br", "s_nbr", "s_branch", "label"}

RegState == [text : Text, ver : Nat]

Condition == SUBSET (Text \ {DEFAULT})

Naming(f) == DOMAIN f \subseteq ScalarSet \X Nat /\ \A k \in DOMAIN f : f[k] \in Nat

\* Types of the graph, of the open masks and of the tables of the decompiler.
TypeOK ==
  /\ instruction \in Seq(Opcodes) /\ Len(instruction) > 0
  /\ parent \in [Nodes -> Seq(Nodes)]
  /\ children \in [Nodes -> Seq(Nodes)]
  /\ mask \in [Nodes -> Condition]
  /\ state \in [Nodes -> [Regs -> RegState]]
  /\ exec_registers \in [Regs -> Condition]
  /\ exec_known \in SUBSET Regs
  /\ versions \in [Regs -> Nat]
  /\ num_of_var \in Nat
  /\ Naming(variables) /\ Naming(checked_variables)
  /\ masked_blocks \in Seq([change_mask : Nodes, previous_branch_end : Nodes \cup {no_parent}])
  /\ to_node \in [Labels -> Nodes \cup {0}]
  /\ from_node \in [Labels -> Seq(Nodes)]
  /\ back_edges \in SUBSET Nodes
  /\ outcome \in {"running", "done", "MissingRegister", "AssertionError"}

\* Every edge is recorded at both of its ends.
EdgesAgree ==
  \A p, n \in Nodes : p \in Range(parent[n]) <=> n \in Range(children[p])

\* No node but a label, which branches join, has the same parent twice: the masks closed
\* together contribute different nodes.
NoRepeatedParent ==
  \A n \in Nodes : instruction[n] # "label" =>
    \A i, j \in DOMAIN parent[n] : i # j => parent[n][i] # parent[n][j]

\* Edges go forward in the program, except those of the recorded back edges.
EdgesForward ==
  \A n \in Nodes : \A p \in Range(parent[n]) : p < n \/ p \in back_edges

\* Only what follows an unconditional jump can be cut off from the graph.
NoOrphan ==
  \A n \in Nodes : parent[n] = <<>> => n = 1 \/ instruction[n - 1] = "s_branch"

\* The stack of open masks: the root at the bottom, then ever newer mask changes under a
\* condition, each else remembering the end of the branch before it, which lies between the
\* mask below and the else.
StackOK ==
  /\ Len(masked_blocks) > 0
  /\ masked_blocks[1] = OpenMask(1, no_parent)
  /\ \A i \in 2 .. Len(masked_blocks) :
       LET m == masked_blocks[i]
       IN  /\ instruction[m.change_mask] = "change_mask"
           /\ mask[m.change_mask] # {}
           /\ m.previous_branch_end < m.change_mask
           /\ \A k \in 1 .. i - 1 :
                /\ masked_blocks[k].change_mask < m.change_mask
                /\ \/ m.previous_branch_end = no_parent
                   \/ masked_blocks[k].change_mask < m.previous_branch_end

\* The end of the program and the end of a predicated run leave no mask open.
AllClosed ==
  instruction[last_node] \in {"s_endpgm", "unmask"} =>
    mask[last_node] = {} /\ Len(masked_blocks) = 1
==============================================================================
