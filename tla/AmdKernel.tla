------------------------------ MODULE AmdKernel ------------------------------
(***************************************************************************)
(* Structured GCN kernels going through the decompiler: the instructions a *)
(* compiler emits for nested if and if-else, with masks or, where the      *)
(* whole wave decides alike, with branches, their lowering to IR           *)
(* (src/src/ir/asm_to_ir/amd/instruction_rules.py) and, one IR instruction *)
(* at a time, the graph that module Cfg builds.                            *)
(*                                                                         *)
(* Beside the decompiler runs the hardware: for every register the set of  *)
(* lanes whose bit is set, and the set of lanes whose wave is here.  A     *)
(* lane is the set of comparisons that are true for it.  The properties    *)
(* compare what the decompiler believes, and the program it would print,   *)
(* with what the hardware executes.                                        *)
(***************************************************************************)
EXTENDS Cfg

CONSTANTS
  Saves,   \* scalar registers that hold a saved exec, one for each depth of nesting: a sequence
  Data,    \* registers the kernel computes with
  MaxIfs,  \* bound on the number of conditionals
  MaxOps   \* bound on the number of computations and stores

ASSUME KernelAssumption ==
  /\ {"exec", "vcc"} \subseteq Preds
  /\ Saves \in Seq(ScalarSet) /\ Data \subseteq ScalarSet
  /\ \A i, j \in DOMAIN Saves : Saves[i] = Saves[j] => i = j
  /\ MaxIfs \in Nat /\ MaxOps \in Nat
  /\ Labels # {} => "scc" \in Preds /\ Labels = 1 .. 2 * MaxIfs

VARIABLES
  todo,    \* IR instructions of the current machine instructions, not yet in the graph
  frames,  \* open conditionals of the source: [cmp, branch] and the save or the label and waves
  ifs,     \* number of conditionals so far
  ops,     \* number of computations and stores so far
  hw,      \* register -> lanes whose bit is set
  waves,   \* lanes whose wave is here
  active   \* node -> lanes that execute it

hardware == <<todo, frames, ifs, ops, hw, waves, active>>
kvars == <<vars, hardware>>

Lanes == SUBSET ({"cmp"} \X Comparisons)

------------------------------------------------------------------------------
(***************************************************************************)
(* Lowering.  An instruction that writes exec is followed by a ChangeMask. *)
(***************************************************************************)
IR(op, d, a, b) == [op |-> op, d |-> d, a |-> a, b |-> b]
UseMask == IR("change_mask", "exec", "exec", "exec")

same_with_exec_mask(ir) == IF ir.d = "exec" THEN <<ir, UseMask>> ELSE <<ir>>
\* Mutants: exec is saved after it is narrowed, or not at all.
saveexec_late(op, d, s) == <<IR(op, "exec", "exec", s), IR("mov", d, "exec", "exec"), UseMask>>
saveexec_unsaved(op, d, s) == <<IR(op, "exec", "exec", s), UseMask>>
saveexec(op, d, s) == <<IR("mov", d, "exec", "exec"), IR(op, "exec", "exec", s), UseMask>>

v_cmp(d, i) == <<IR("cmp", d, i, i)>>
s_cmp(i) == v_cmp("scc", i)
s_cbranch_scc0(l) == <<IR("bra_n", l, l, l)>>
s_cbranch_scc1(l) == <<IR("bra", l, l, l)>>
s_branch(l) == <<IR("jump", l, l, l)>>
label(l) == <<IR("label", l, l, l)>>
s_and_saveexec_b64(d, s) == saveexec("and", d, s)
s_andn2_b64(d, a, b) == same_with_exec_mask(IR("xor", d, a, b))
s_or_b64(d, a, b) == same_with_exec_mask(IR("or", d, a, b))
s_mov_b64(d, s) == same_with_exec_mask(IR("mov", d, s, s))

\* One iteration of the pass on the next IR instruction.
Build(ir) ==
  CASE ir.op = "cmp"         -> VCmp(ir.d, ir.a)
    [] ir.op = "mov"         -> SMov(ir.d, ir.a)
    [] ir.op = "and"         -> SAnd(ir.d, ir.a, ir.b)
    [] ir.op = "or"          -> SOr(ir.d, ir.a, ir.b)
    [] ir.op = "xor"         -> SXor(ir.d, ir.a, ir.b)
    [] ir.op = "change_mask" -> ChangeMask(ir.d)
    [] ir.op = "bra"         -> Branch(ir.d)
    [] ir.op = "bra_n"       -> BranchNot(ir.d)
    [] ir.op = "jump"        -> Jump(ir.d)
    [] ir.op = "label"       -> Label(ir.d)
    [] ir.op = "arith"       -> Arith(ir.d)
    [] ir.op = "store"       -> Plain
    [] ir.op = "endpgm"      -> EndPgm

Step ==
  /\ todo # <<>>
  /\ Build(Head(todo))
  /\ todo' = Tail(todo)
  /\ active' = Append(active, hw["exec"] \cap waves)
  /\ UNCHANGED <<frames, ifs, ops, hw, waves>>

------------------------------------------------------------------------------
(***************************************************************************)
(* The compiler and the hardware.  A conditional tests a comparison that   *)
(* no enclosing conditional tests.  One that masks saves exec in the       *)
(* register of its depth, which the next conditional at that depth uses    *)
(* again; one that branches has two labels of its own.                     *)
(***************************************************************************)
Ended == instruction[last_node] = "s_endpgm"
Ready == running /\ todo = <<>> /\ ~Ended

Issue(irs) == todo' = irs /\ UNCHANGED <<vars, active>>

Fresh(i) == \A k \in DOMAIN frames : frames[k].cmp # i
True(i) == {l \in Lanes : <<"cmp", i>> \in l}
Top == frames[Len(frames)]
InBranchOf(kind, branch) == Ready /\ frames # <<>> /\ Top.kind = kind /\ Top.branch = branch

\* A wave that is elsewhere keeps its registers.
Write(r, S) == (hw[r] \ waves) \cup (S \cap waves)

\* The branch that was entered last has a body.
HasBody ==
  /\ masked_blocks[Len(masked_blocks)].change_mask # last_node
  /\ instruction[last_node] \notin {"s_br", "s_nbr"}
  /\ frames # <<>> /\ Top.kind = "branch" /\ Top.branch = "else" => last_node # to_node[Top.label - 1]

Open(i, frame) ==
  /\ Ready /\ ifs < MaxIfs /\ Len(frames) < Len(Saves) /\ Fresh(i)
  /\ frames' = Append(frames, frame)
  /\ ifs' = ifs + 1
  /\ UNCHANGED ops

\* v_cmp vcc; s_and_saveexec s, vcc
If(i) ==
  LET s == Saves[Len(frames) + 1]
      then == hw["exec"] \cap True(i)
  IN  /\ Open(i, [kind |-> "mask", cmp |-> i, branch |-> "then", save |-> s])
      /\ Issue(v_cmp("vcc", i) \o s_and_saveexec_b64(s, "vcc"))
      /\ hw' = [hw EXCEPT !["vcc"] = Write("vcc", then), ![s] = Write(s, hw["exec"]), !["exec"] = Write("exec", then)]
      /\ UNCHANGED waves

\* s_andn2_b64 exec, s, exec, after a then-branch that is not empty
Else ==
  /\ InBranchOf("mask", "then") /\ HasBody
  /\ Issue(s_andn2_b64("exec", Top.save, "exec"))
  /\ frames' = [frames EXCEPT ![Len(frames)].branch = "else"]
  /\ hw' = [hw EXCEPT !["exec"] = Write("exec", hw[Top.save] \ hw["exec"])]
  /\ UNCHANGED <<ifs, ops, waves>>

\* s_mov_b64 exec, s, or s_or_b64 exec, exec, s
EndIf ==
  /\ InBranchOf("mask", Top.branch)
  /\ \/ /\ Issue(s_mov_b64("exec", Top.save))
        /\ hw' = [hw EXCEPT !["exec"] = Write("exec", hw[Top.save])]
     \/ /\ Issue(s_or_b64("exec", "exec", Top.save))
        /\ hw' = [hw EXCEPT !["exec"] = Write("exec", hw["exec"] \cup hw[Top.save])]
  /\ frames' = Front(frames)
  /\ UNCHANGED <<ifs, ops, waves>>

\* s_cmp; s_cbranch_scc0 to the else, or to the end, around a branch for the waves where the
\* comparison holds; with s_cbranch_scc1 for those where it does not
UniformIf(i) ==
  LET l == 2 * ifs + 1
      Enter(jump, then) ==
        /\ Open(i, [kind |-> "branch", cmp |-> i, branch |-> "then", label |-> l, waves |-> waves])
        /\ Issue(s_cmp(i) \o jump)
        /\ waves' = then
        /\ UNCHANGED hw
  IN  /\ l \in Labels
      /\ \/ Enter(s_cbranch_scc0(l), waves \cap True(i))
         \/ Enter(s_cbranch_scc1(l), waves \ True(i))

\* s_branch to the end, and the label of the else
UniformElse ==
  /\ InBranchOf("branch", "then") /\ HasBody
  /\ Issue(s_branch(Top.label + 1) \o label(Top.label))
  /\ frames' = [frames EXCEPT ![Len(frames)].branch = "else", ![Len(frames)].label = @ + 1]
  /\ waves' = Top.waves \ waves
  /\ UNCHANGED <<ifs, ops, hw>>

\* the label of the end
UniformEndIf ==
  /\ InBranchOf("branch", Top.branch) /\ HasBody
  /\ Issue(label(Top.label))
  /\ frames' = Front(frames)
  /\ waves' = Top.waves
  /\ UNCHANGED <<ifs, ops, hw>>

Body(ir) == Ready /\ ops < MaxOps /\ ops' = ops + 1 /\ Issue(<<ir>>) /\ UNCHANGED <<frames, ifs, hw, waves>>
Compute(v) == Body(IR("arith", v, v, v))
Store == Body(IR("store", "exec", "exec", "exec"))

\* Masks may be open at the end, but the last else of the program has a body too.
s_endpgm ==
  /\ Ready
  /\ \A k \in DOMAIN frames : frames[k].kind = "mask"
  /\ (frames # <<>> /\ Top.branch = "else") => HasBody
  /\ Issue(<<IR("endpgm", "exec", "exec", "exec")>>)
  /\ UNCHANGED <<frames, ifs, ops, hw, waves>>

KernelInit ==
  /\ Init
  /\ todo = <<>> /\ frames = <<>> /\ ifs = 0 /\ ops = 0
  /\ hw = [r \in Regs |-> IF r = "exec" THEN Lanes ELSE {}]
  /\ waves = Lanes
  /\ active = <<Lanes>>

KernelNext ==
  \/ Step
  \/ \E i \in Comparisons : If(i)
  \/ Else
  \/ EndIf
  \/ \E i \in Comparisons : UniformIf(i)
  \/ UniformElse
  \/ UniformEndIf
  \/ \E v \in Data : Compute(v)
  \/ Store
  \/ s_endpgm

KernelSpec == KernelInit /\ [][KernelNext]_kvars

------------------------------------------------------------------------------
(***************************************************************************)
(* Properties.                                                             *)
(***************************************************************************)
\* The symbolic mask of the newest node denotes the exec mask of the hardware, whenever the
\* machine instructions issued so far are all in the graph: saveexec, andn2, or and mov are
\* lowered to conditions that mean what the hardware does.
MaskDenotesExec ==
  Ready => {l \in waves : Satisfies(l, mask[last_node])} = hw["exec"] \cap waves

\* A structured kernel never trips over a missing register or over the asserts of xor.
NoException == running

\* The open masks are the open conditionals: from the bottom up their conditions grow, and
\* the topmost one is the condition in force.
StackMirrorsFrames ==
  Ready =>
    /\ Len(masked_blocks) = Cardinality({k \in DOMAIN frames : frames[k].kind = "mask"}) + 1
    /\ mask[masked_blocks[Len(masked_blocks)].change_mask] = mask[last_node]
    /\ \A k \in 2 .. Len(masked_blocks) :
         StrictSubset(mask[masked_blocks[k - 1].change_mask], mask[masked_blocks[k].change_mask])

\* What is printed as the condition of an if that starts at node n (to_print of UseMask,
\* SCbranchVccz and SCbranchVccnz): the conditions a mask adds, or the flag a branch tests.
Condition_of(n) ==
  CASE instruction[n] = "change_mask" -> mask[n] \ mask[parent[n][1]]
    [] instruction[n] = "s_nbr"       -> {state[n]["scc"].text}
    [] instruction[n] = "s_br"        -> {Wrap(state[n]["scc"].text)}
    [] OTHER                          -> {}

\* The path a lane takes: a node with two children is an if, whose first child is the branch
\* taken when the condition holds.
Taken(l, n) ==
  CASE children[n] = <<>>     -> 0
    [] Len(children[n]) = 1  -> children[n][1]
    [] OTHER -> IF Satisfies(l, Condition_of(n)) THEN children[n][1] ELSE children[n][2]

Path(l) ==
  LET on[n \in Nodes] == n = 1 \/ \E p \in Range(parent[n]) : on[p] /\ Taken(l, p) = n
  IN  {n \in Nodes : on[n]}

Effects == {n \in Nodes : instruction[n] \in {"arith", "plain"}}

\* In the finished graph every lane runs through exactly the computations and stores that the
\* hardware executes for it.
PathsAgree == Ended => \A l \in Lanes : Path(l) \cap Effects = {n \in Effects : l \in active[n]}

\* Every definition and every merge of a register gives it a version of its own, if the
\* register, once known, is known at every later node: an else loses what only the branch
\* before it defined, and with it the largest version.
StaysKnown(r) == \A m, n \in Nodes : (m < n /\ Present(state[m], r)) => Present(state[n], r)
Defines(n, r) ==
  /\ Present(state[n], r)
  /\ \A p \in Range(parent[n]) : state[p][r].ver # state[n][r].ver
VersionsDiffer(r) ==
  \A m, n \in Nodes : (m < n /\ Defines(m, r) /\ Defines(n, r)) => state[m][r].ver # state[n][r].ver
VersionsUnique == Ended => \A r \in ScalarSet : StaysKnown(r) => VersionsDiffer(r)

\* On the path of a lane: the computations of register r before node n, and those whose
\* result the printed program assigns to variable x.
Computed(path, r, n) == {p \in path : p < n /\ instruction[p] = "arith" /\ Defines(p, r)}
Key(n, r) == <<r, state[n][r].ver>>
Assigned(path, x, n) ==
  UNION {{p \in Computed(path, r, n) : Key(p, r) \in DOMAIN variables /\ variables[Key(p, r)] = x}
         : r \in Data}
Latest(S) == CHOOSE p \in S : \A q \in S : q <= p

\* Where a store reads a register that was merged, the variable it is printed as holds, on
\* every path, the value the register has there.
ReadsRight(r) ==
  \A l \in Lanes : LET path == Path(l) IN
    \A n \in {m \in path : instruction[m] = "plain" /\ Key(m, r) \in DOMAIN checked_variables} :
      Computed(path, r, n) # {} =>
        LET writes == Assigned(path, checked_variables[Key(n, r)], n)
        IN  writes # {} /\ Latest(writes) = Latest(Computed(path, r, n))

VariablesCarryValues == Ended => \A r \in Data : ReadsRight(r)

\* The same where no version of the register arrives at two merges.
Arriving(n, r) ==
  IF Len(parent[n]) > 1 /\ Defines(n, r) THEN {state[p][r].ver : p \in Range(parent[n])} ELSE {}
MergedOnce(r) == \A m, n \in Nodes : m < n => Arriving(m, r) \cap Arriving(n, r) = {}
VariablesCarryValuesMergedOnce == Ended => \A r \in Data : MergedOnce(r) => ReadsRight(r)

\* The same where, besides, the register stays known and no merge is merged again into one
\* that is merged again.
Feeds(m, n, r) == Arriving(m, r) # {} /\ state[m][r].ver \in Arriving(n, r)
MergedSimply(r) ==
  /\ MergedOnce(r) /\ StaysKnown(r)
  /\ \A m, n, p \in Nodes : ~(Feeds(m, n, r) /\ Feeds(n, p, r))
VariablesCarryValuesMergedSimply == Ended => \A r \in Data : MergedSimply(r) => ReadsRight(r)
==============================================================================
