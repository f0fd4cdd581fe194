--------------------------- MODULE MCRegisterValues ---------------------------
(***************************************************************************)
(* Straight PTX code of up to MaxLength instructions for TLC.  Every       *)
(* instruction but the first reads the register written last, and two      *)
(* 64-bit and one 32-bit register are written over and over.               *)
(***************************************************************************)
EXTENDS RegisterValues

CONSTANTS
  rd1, rd2,    \* the two 64-bit registers, of which neither is written by the prologue
  MaxLength,
  MaxNumber   \* operands are at most as large, so that TLC's integers do not overflow

VARIABLES
  last,    \* the register written last, or "none"
  length,  \* how many instructions were executed
  regs     \* the registers of the machine that executes the same instructions

mcvars == <<state, fresh, last, length, regs>>

----------------------------------------------------------------------------
(* What an expression is worth in one work item of a two-dimensional        *)
(* launch.  The size of groups is a power of two, so that shifts can stand  *)
(* for products.                                                           *)
MCLaunch ==
  [X |-> [group |-> 3, size |-> 8, item |-> 5, offset |-> 100, groups |-> 7],
   Y |-> [group |-> 1, size |-> 4, item |-> 2, offset |-> 20, groups |-> 6]]

Item == [name \in {"WORK_GROUP_ID", "WORK_ITEM_ID", "GLOBAL_OFFSET", "NUM_GROUPS"} \X DOMAIN Launch |->
           <<Denoted(name), 1>>]
Variables == [value |-> 11, pointer |-> 0, array |-> 0]
Env == Item @@ [name \in {<<v>> : v \in DOMAIN Variables} |-> <<Variables[name[1]], 1>>]

Value(node) == E!Eval(node, Env)

\* The arrays an expression points into, and the bytes of their elements.
Bases(node) ==
  {t.node.value[1] : t \in {u \in ToSet(E!node_to_list_of_sum_of_nodes(node, TRUE)) : u.node.hint.pointer /\ u.node.type = "VAR"}}
Bytes(base) == IF base = "pointer" THEN Element ELSE 4

\* The place in memory or the number that is printed.
Printed(node) ==
  LET v == Value(node)
  IN  IF Bases(node) = {} THEN [base |-> "none", n |-> v]
      ELSE LET base == CHOOSE b \in Bases(node) : TRUE
           IN  [base |-> base, n |-> E!Apply("*", v, <<Bytes(base), 1>>)]

----------------------------------------------------------------------------
MCWide == {"pointer", "array", rd1, rd2}
Interchangeable == Permutations({rd1, rd2})

Variable(k, name, hint, type) == RegisterContent(E!create_var_node(k, <<name>>, hint), <<type, "none">>)

\* The prologue moves special registers and arguments to registers of their own
\* and computes the start of the group and the position in the global work size
\* (product = ntid * ctaid; gid = product + tid + envreg3).
MCInputs ==
  [ctaid   |-> InitReg(1, "ctaid", "X"),
   ntid    |-> InitReg(2, "ntid", "X"),
   tid     |-> InitReg(3, "tid", "X"),
   envreg3 |-> InitReg(4, "envreg3", "X"),
   envreg6 |-> InitReg(5, "envreg6", "X"),
   tidy    |-> InitReg(6, "tid", "Y"),
   gid     |-> init_entry_reg(7, <<"GLOBAL_ID", "X">>),
   product |-> InitProduct(8, "X"),
   value   |-> Variable(11, "value", E!Hint(E!INT, FALSE, FALSE, FALSE), "PLAIN"),
   pointer |-> Variable(12, "pointer", E!Hint(E!INT, FALSE, TRUE, TRUE), "ADDRESS_KERNEL_ARGUMENT"),
   array   |-> Variable(13, "array", E!Hint(UINT, FALSE, TRUE, FALSE), "LOCAL_DATA_POINTER")]

Machine ==
  INSTANCE PtxMachine WITH
    Inputs <- [r \in DOMAIN Inputs |-> [base |-> Printed(Inputs[r].node).base, n |-> Printed(Inputs[r].node).n[1]]]

----------------------------------------------------------------------------
(* The instructions.                                                       *)
Reg(r) == <<"reg", r>>
Narrow == {Reg(r) : r \in (DOMAIN MCInputs \ MCWide) \cup {"r"}}
Numbers == {Reg(rd1), Reg(rd2)}
Double == {Reg(r) : r \in MCWide}
Constants == {<<"const", 8>>, <<"const", 4>>}
Distances == {<<"const", 2>>, <<"const", 3>>}

Instruction(ops, dsts, srcs) == [op : ops, dst : dsts, src : srcs]

MCInstructions ==
  LET narrow  == {"r"}
      wide    == {rd1, rd2}
      Factors == {Reg("ctaid"), Reg("ntid"), Reg("r")}
      Others  == {Reg("tid"), Reg("value"), Reg("r")}
  IN  Instruction({"add.s32"}, narrow, Narrow \X (Narrow \cup Constants))
        \cup Instruction({"mul.lo.s32"}, narrow, Factors \X (Factors \cup Constants))
        \cup Instruction({"sub.s32", "min.s32"}, narrow, Others \X Others)
        \cup Instruction({"mad.lo.s32"}, narrow, {Reg("ctaid"), Reg("r")} \X {Reg("ntid"), Reg("r"), <<"const", 8>>}
                                                  \X {Reg("tid"), Reg("envreg3"), Reg("r")})
        \cup Instruction({"shl.b32"}, narrow, Narrow \X Distances)
        \cup Instruction({"mov.b32"}, narrow, {<<o>> : o \in Narrow \cup Constants \cup {<<"const", -4>>}})
        \cup Instruction({"cvt.u32.u64"}, narrow, {<<o>> : o \in Numbers})
        \cup Instruction({"add.s64"}, wide, Double \X (Numbers \cup Constants))
        \cup Instruction({"sub.s64", "mul.lo.s64"}, wide, Numbers \X Numbers)
        \cup Instruction({"mul.wide.s32"}, wide, Factors \X (Factors \cup Constants))
        \cup Instruction({"shl.b64", "shr.s64"}, wide, Numbers \X Distances)
        \cup Instruction({"cvt.s64.s32"}, wide, {<<o>> : o \in Narrow})
        \cup Instruction({"mov.b64"}, wide, {<<o>> : o \in Double \cup Constants})

----------------------------------------------------------------------------
(* The code the decompiler is known to translate wrongly, or to stop at, is *)
(* left out; the README lists the cases.                                   *)

IsPointer(o) == IsReg(o) /\ Bases(Low(o).node) # {}

\* A type is right when it is the name of the value.
TypeRight(content) == Named(Type(content)) => Value(content.node) = <<Denoted(Type(content)), 1>>
RightOperands(i) == \A o \in ToSet(i.src) : IsReg(o) => TypeRight(Low(o))

\* The entry of the whole register says the same as its low half.
Fresh(o) == IsReg(o) => Whole(o[2]) \in DOMAIN state /\ Content(o) = Low(o)

ExactPointers(i) ==
  IF i.op = "add.s64" /\ IsPointer(i.src[1])
  THEN /\ ~IsPointer(i.src[2])
       /\ IsReg(i.src[2]) /\ Whole(i.src[2][2]) \in DOMAIN state => Content(i.src[2]).node = Low(i.src[2]).node
       /\ \A base \in Bases(Low(i.src[1]).node) : Machine!Read(i.src[2]).n % Bytes(base) = 0
       /\ Type(Low(i.src[1]))[1] = "LOCAL_DATA_POINTER" => Low(i.src[1]).node.type = "VAR"
  ELSE i.op # "mov.b64" => \A o \in ToSet(i.src) : ~IsPointer(o)

\* The two expressions an instruction may ask the sum of.
Summands(i) ==
  LET LowOf(o) == LowNode(manager, o, UINT).node
  IN  IF i.op = "mad.lo.s32"
      THEN {<<product.node.node, Addend(product, i.src[3]).node.node>> : product \in {Product(i.src[1], i.src[2])}}
      ELSE IF i.op \notin Add \cup Sub THEN {}
      ELSE IF IsPointer(i.src[1]) THEN {<<ArrayOf(i).node, ElementIndex(i).node>>}
      ELSE {<<LowOf(i.src[1]), LowOf(i.src[2])>>}

\* The sums that are not simplified to what they are: one that subtracts the same
\* term twice, and one that adds the number of groups times the size to the start
\* of a group.
SumToGlobalSize(a, b) ==
  LET terms == ToSet(E!node_to_list_of_sum_of_nodes(a, TRUE) \o E!node_to_list_of_sum_of_nodes(b, TRUE))
  IN  \E d \in DOMAIN Launch, t, u \in terms :
        t.plus /\ E!IsGroupsTimesSize(t.node, d) /\ u.plus /\ u.reg = <<"WORK_GROUP_ID_LOCAL_SIZE", d>>
SimplifiedRight(i) ==
  \A s \in Summands(i) : ~E!SubtractsTwice(s[1], s[2]) /\ ~SumToGlobalSize(s[1], s[2])

Exact(i) ==
  /\ ExactPointers(i)
  /\ \A o \in ToSet(i.src) : Machine!Read(o).n \in -MaxNumber .. MaxNumber
  /\ i.op \in {"add.s32", "add.s64", "mad.lo.s32"} => RightOperands(i)
  /\ i.op = "mul.wide.s32" /\ ~IsReg(i.src[2]) => RightOperands(i)
  /\ i.op = "mad.lo.s32" => IsReg(i.src[3])
  /\ i.op = "mul.lo.s64" => Reg(i.dst) \notin ToSet(i.src)
  /\ i.op = "mov.b64" => Fresh(i.src[1])
  /\ i.op = "shr.s64" => /\ Machine!Read(i.src[1]).n % 2 ^ i.src[2][2] = 0
                         /\ Type(Low(i.src[1]))[1] # "GLOBAL_SIZE"
  /\ SimplifiedRight(i)

----------------------------------------------------------------------------
MCInit == Init /\ Machine!Init /\ last = "none" /\ length = 0

MCNext ==
  /\ length < MaxLength
  /\ \E i \in Instructions :
       /\ last # "none" => Reg(last) \in ToSet(i.src)
       /\ Available(i) /\ Exact(i)
       /\ Execute(i) /\ Machine!Execute(i)
       /\ last' = i.dst
  /\ length' = length + 1

MCSpec == MCInit /\ [][MCNext]_mcvars

----------------------------------------------------------------------------
\* Contents are expressions of places in at most one array, with as many types as
\* an operation has operands, and a 64-bit register has an entry for its low half.
TypeOK ==
  /\ fresh \in Nat
  /\ \A name \in DOMAIN state :
       LET c == state[name]
       IN  /\ c.node.type \in {"OP", "CONST", "WORK_ITEM_FUNCTION", "VAR"}
           /\ Cardinality(Bases(c.node)) <= 1
           /\ c.operation \in {"none", "+", "*"}
           /\ c.operation = "none" <=> Len(c.types) = 1
  /\ \A name \in DOMAIN state : Lowest(name[1]) \in DOMAIN state

\* What is printed of a register has the value the register has in the PTX
\* code: recognised and simplified sums, products and element indices included
\* (v_add.py, register.py, operation_register_content.py, expression_manager.py).
PrintsWhatIsComputed ==
  \A r \in Registers :
    Printed(state[Lowest(r)].node) = [base |-> regs[r].base, n |-> <<regs[r].n, 1>>]

\* A type never lies about the quantity: the register holds the launch quantity
\* its type names, moved left or right by shifts, which keep types
\* (v_lshlrev.py, v_lshrrev.py).  The global size is excepted: a sum of the
\* number of groups with a multiple of the size is typed so.
TagsNameValues ==
  \A name \in DOMAIN state :
    LET t == Type(state[name])
    IN  Named(t) /\ t[1] # "GLOBAL_SIZE" =>
          \E j, k \in 0 .. 3 * MaxLength :
            Value(state[name].node) = <<(Denoted(t) \div 2 ^ j) * 2 ^ k, 1>>
=============================================================================
