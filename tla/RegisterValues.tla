---------------------------- MODULE RegisterValues ----------------------------
(***************************************************************************)
(* What the decompiler knows of a register while it executes the           *)
(* arithmetic of a PTX kernel: the expression it will print for it, which  *)
(* the expression manager simplifies whenever it builds one, and the types *)
(* that say which launch quantity the register holds.  A 64-bit register   *)
(* has an entry for itself and one for each half; instructions read and    *)
(* write them selectively.  Some sums and products are recognised by the   *)
(* types of their operands and replaced by a work-item function.           *)
(*                                                                         *)
(* High halves are left out: no instruction here computes a low half from  *)
(* a high one.  A register whose text is "0" is a constant and needs no    *)
(* case of its own.  What an expression was asked for is not kept, since   *)
(* no part of one is replaced by a variable here.                          *)
(***************************************************************************)
EXTENDS LaunchTypes

CONSTANTS
  Element,       \* bytes of an element of the arrays that are arguments
  Wide,          \* the 64-bit registers
  Inputs,        \* register -> its content after the prologue of the kernel
  Instructions   \* [op, dst, src]; an operand is <<"reg", r>> or <<"const", n>>

ASSUME ElementAssumption == Element \in Nat \ {0}

E == INSTANCE ExpressionManager WITH size_of_workgroups <- [d \in DOMAIN Launch |-> Launch[d].size]

(* The opcodes of PTX by the instruction they become.                      *)
Add       == {"add.s32", "add.s64"}
Sub       == {"sub.s32", "sub.s64"}
MulLo     == {"mul.lo.s32", "mul.lo.s64"}
MulWide   == {"mul.wide.s32"}
Mad       == {"mad.lo.s32"}
LShl      == {"shl.b32", "shl.b64"}
LShr      == {"shr.s64"}
Mov       == {"mov.b32", "mov.b64"}
Cvt32To64 == {"cvt.s64.s32"}
Cvt64To32 == {"cvt.u32.u64"}
IRMin     == {"min.s32"}

instruction_rules == UNION {Add, Sub, MulLo, MulWide, Mad, LShl, LShr, Mov, Cvt32To64, Cvt64To32, IRMin}

\* How many operands an opcode has, which of them must be registers because their
\* entries are read, and which opcodes read 32-bit registers.
Arity(op) == IF op \in Mad THEN 3 ELSE IF op \in Mov \cup Cvt32To64 \cup Cvt64To32 THEN 1 ELSE 2
RegisterOperands(op) ==
  IF op \in IRMin THEN {1, 2}
  ELSE IF op \in {"sub.s64", "mul.lo.s64"} THEN {1, 2}
  ELSE IF op \in UNION {MulLo, MulWide, Mad, LShl, LShr, Cvt64To32} THEN {1} ELSE {}
Reads32 == {"add.s32", "sub.s32", "mul.lo.s32", "mul.wide.s32", "mad.lo.s32", "shl.b32", "mov.b32",
            "cvt.s64.s32", "min.s32"}

VARIABLES
  state,   \* name -> content, a name being <<register, "all">> or <<register, "lo">>
  fresh    \* how many identities of expressions are used

vars == <<state, fresh>>

----------------------------------------------------------------------------
(* Contents.                                                               *)

RegisterContent(node, type) == [node |-> node, operation |-> "none", types |-> <<type>>]
Type(content) == IF content.operation = "none" THEN content.types[1] ELSE Plain

(* The names of a register and what is read and written under them.        *)

Whole(r)  == <<r, "all">>
Lowest(r) == IF r \in Wide THEN <<r, "lo">> ELSE <<r, "all">>
NamesOf(r) == {Whole(r), Lowest(r)}

IsReg(operand) == operand[1] = "reg"
Low(operand) == state[Lowest(operand[2])]
Content(operand) == state[Whole(operand[2])]

----------------------------------------------------------------------------
(* What is asked of the expression manager.  Every request takes the manager *)
(* and yields the manager after it, with the expression as `node`.         *)

UINT  == E!UINT
ULONG == E!Type(8, FALSE, TRUE, 1)
Word(op) == IF op \in Reads32 THEN UINT ELSE ULONG

manager == [node |-> E!NoNode, original |-> <<>>, fresh |-> fresh]
Given(m, node) == [m EXCEPT !.node = node, !.fresh = @ + 1]

add_const_node(m, n, type) == Given(m, E!create_const_node(64 * m.fresh, <<n, 1>>, type))
add_function(m, kind, d) == Given(m, E!create_work_item_function_node(64 * m.fresh, <<kind, d>>))

\* The node of a type; the start of a group is a product.
add_register_node(m, type) ==
  IF type[1] # "WORK_GROUP_ID_LOCAL_SIZE" THEN add_function(m, type[1], type[2])
  ELSE LET group == add_function(m, "WORK_GROUP_ID", type[2])
           size  == add_function(group, "LOCAL_SIZE", type[2])
       IN  E!add_operation(size, group.node, size.node, "*", UINT)

\* The name itself comes before its halves.
get_or_add_expression_node(m, operand, type) ==
  IF ~IsReg(operand) THEN add_const_node(m, operand[2], type)
  ELSE [m EXCEPT !.node = IF Whole(operand[2]) \in DOMAIN state THEN Content(operand).node
                          ELSE Low(operand).node]

LowNode(m, operand, type) ==
  IF IsReg(operand) THEN [m EXCEPT !.node = Low(operand).node] ELSE add_const_node(m, operand[2], type)

Operation(op, a, b, type, hint) ==
  LET left  == LowNode(manager, a, type)
      right == LowNode(left, b, type)
  IN  E!add_operation(right, left.node, right.node, op, hint)

(* An OperationRegisterContent has the expression of its operation, whatever *)
(* becomes of the types of its operands.                                   *)
Combined(m, operation, a, b) ==
  [E!add_operation(m, a.node, b.node, operation, E!UNKNOWN)
     EXCEPT !.node = [node |-> @] @@ CombinedTypes(operation, a, b)]

\* m is what the manager returned; where an action asks for several expressions
\* one after the other, \E names the answers.
Write(names, m, content) ==
  /\ state' = [name \in names \cup DOMAIN state |-> IF name \in names THEN content ELSE state[name]]
  /\ fresh' = m.fresh

----------------------------------------------------------------------------
(* What the prologue and the compiler give.                                *)

ASSUME InputsAssumption ==
  \A r \in DOMAIN Inputs :
    LET c == Inputs[r]
    IN  /\ c = RegisterContent(c.node, c.types[1])
        /\ c.types[1] \in RegisterTypes
        /\ c.node.hint.pointer <=> c.types[1][1] \in AddressTypes

ASSUME InstructionsAssumption ==
  \A i \in Instructions :
    /\ i.op \in instruction_rules /\ DOMAIN i.src = 1 .. Arity(i.op)
    /\ \A n \in DOMAIN i.src : IsReg(i.src[n]) \/ (i.src[n][1] = "const" /\ i.src[n][2] \in Int)
    /\ \A n \in RegisterOperands(i.op) : IsReg(i.src[n])
    /\ i.op \in Reads32 => \A n \in DOMAIN i.src : IsReg(i.src[n]) => i.src[n][2] \notin Wide
    /\ i.op \in LShl \cup LShr => i.src[2][1] = "const" /\ i.src[2][2] \in Nat

----------------------------------------------------------------------------
(* Additions.                                                              *)

\* The variable of an array in local memory is named by the text of the register.
LocalArray(m, node) ==
  Given(m, IF node.type = "VAR" THEN node
           ELSE E!create_var_node(64 * m.fresh, <<node>>, E!Hint(UINT, FALSE, TRUE, FALSE)))

ArrayOf(i) ==
  LET content == Low(i.src[1])
  IN  IF Type(content)[1] = "LOCAL_DATA_POINTER" THEN LocalArray(manager, content.node)
      ELSE [manager EXCEPT !.node = content.node]

\* Local arrays are taken for arrays of words.
ElementIndex(i) ==
  LET bytes  == IF Type(Low(i.src[1]))[1] = "LOCAL_DATA_POINTER" THEN 4 ELSE Element
      offset == get_or_add_expression_node(ArrayOf(i), i.src[2], Word(i.op))
      size   == add_const_node(offset, bytes, UINT)
  IN  E!add_operation(size, offset.node, size.node, "/", Word(i.op))

add_offset_div_data_size_node(i, index) == E!add_operation(index, ArrayOf(i).node, index.node, "+", Word(i.op))

\* get_global_id - get_global_offset.
_add_sub_operation(d) ==
  LET id     == add_function(manager, "GLOBAL_ID", d)
      offset == add_function(id, "GLOBAL_OFFSET", d)
  IN  E!add_operation(offset, id.node, offset.node, "-", UINT)

(* A recognised sum becomes the expression of its type, but group * size +  *)
(* offset keeps the sum of the operands.                                   *)
SumOfRegisters(a, b, t) ==
  CASE t[1] = "GLOBAL_ID"                  -> add_register_node(manager, t)
    [] t[1] = "WORK_GROUP_ID_WORK_ITEM_ID" -> _add_sub_operation(t[2])
    [] OTHER                               -> Operation("+", a, b, UINT, UINT)

\* The whole of a register is looked for, although its low half is read.
VAdd(i) ==
  LET a == i.src[1]
      b == i.src[2]
      t == IF IsReg(a) /\ IsReg(b) THEN TypeOfSum(Type(Low(a)), Type(Low(b))) ELSE Plain
  IN  /\ i.op \in Add
      /\ IF IsReg(a) /\ Type(Low(a))[1] \in AddressTypes
         THEN \E index \in {ElementIndex(i)} : \E sum \in {add_offset_div_data_size_node(i, index)} :
                Write(NamesOf(i.dst), sum, RegisterContent(sum.node, Type(Low(a))))
         ELSE \E sum \in {SumOfRegisters(a, b, t)} :
                /\ IsReg(a) /\ ~IsReg(b) => Whole(a[2]) \in DOMAIN state
                /\ Write(NamesOf(i.dst), sum, RegisterContent(sum.node, t))

----------------------------------------------------------------------------
(* Subtractions, products and sums of products.                            *)

\* Mutant: the type of the first operand is kept.
VSub_keeps_type(i) ==
  /\ i.op \in Sub
  /\ \E difference \in {Operation("-", i.src[1], i.src[2], UINT, UINT)} :
       Write({Lowest(i.dst)}, difference,
             RegisterContent(difference.node, IF IsReg(i.src[1]) THEN Type(Low(i.src[1])) ELSE Plain))

\* Of a 64-bit difference only the halves are written.
VSub(i) ==
  /\ i.op \in Sub
  /\ \E difference \in {Operation("-", i.src[1], i.src[2], UINT, UINT)} :
       Write({Lowest(i.dst)}, difference, RegisterContent(difference.node, Plain))

\* Only size * group, in this order, gets a type; a 64-bit product is written
\* last to the low half.
VMulLo(i) ==
  LET a == Low(i.src[1])
      type == IF IsReg(i.src[2]) /\ \E d \in DOMAIN Launch :
                   Type(a) = <<"LOCAL_SIZE", d>> /\ Type(Low(i.src[2])) = <<"WORK_GROUP_ID", d>>
              THEN <<"WORK_GROUP_ID_LOCAL_SIZE", Type(a)[2]>> ELSE Plain
  IN  /\ i.op \in MulLo
      /\ \E product \in {Operation("*", i.src[1], i.src[2], UINT, E!INT)} :
           Write({Lowest(i.dst)}, product, RegisterContent(product.node, type))

Constant(m, n) ==
  LET const == add_const_node(m, n, E!INT)
  IN  [const EXCEPT !.node = RegisterContent(@, Plain)]

\* Register.__mul__: a group multiplied by the size of groups is recognised.
Product(a, b) ==
  LET t     == Type(Content(a))
      start == <<"WORK_GROUP_ID_LOCAL_SIZE", t[2]>>
      factor == IF IsReg(b) THEN [manager EXCEPT !.node = Content(b)] ELSE Constant(manager, b[2])
  IN  IF ~IsReg(b) /\ t[1] = "WORK_GROUP_ID" /\ b[2] = Launch[t[2]].size
      THEN [add_register_node(manager, start) EXCEPT !.node = RegisterContent(@, start)]
      ELSE Combined(factor, "*", Content(a), factor.node)

\* A constant to be added is moved to the low half of a pair; its high half, a
\* zero, is what is added.
Addend(m, c) == IF IsReg(c) THEN [m EXCEPT !.node = Content(c)] ELSE Constant(m, 0)

VMad(i) ==
  /\ i.op \in MulWide \cup Mad
  /\ \E product \in {Product(i.src[1], i.src[2])} :
       \/ /\ i.op \in MulWide
          /\ Write({Lowest(i.dst)}, product, product.node)
       \/ /\ i.op \in Mad
          /\ \E c \in {Addend(product, i.src[3])} : \E sum \in {Combined(c, "+", product.node, c.node)} :
               Write(NamesOf(i.dst), sum, sum.node)

----------------------------------------------------------------------------
(* Shifts, copies and minima.                                              *)

\* An operation of a register and the power of two it is shifted by.
Shifted(i, op, type, hint) == Operation(op, i.src[1], <<"const", 2 ^ i.src[2][2]>>, type, hint)

\* A shifted group is taken for a multiple of the size, whatever the distance.
VLshlrev(i) ==
  LET t == Type(Low(i.src[1]))
      type == IF i.op = "shl.b32" /\ t[1] = "WORK_GROUP_ID" THEN <<"WORK_GROUP_ID_LOCAL_SIZE", t[2]>> ELSE t
  IN  /\ i.op \in LShl
      /\ \E product \in {Shifted(i, "*", Word(i.op), Word(i.op))} :
           Write({Lowest(i.dst)}, product, RegisterContent(product.node, type))

\* The global size divided by the size of groups is their number.
VLshrrev(i) ==
  LET t == Type(Low(i.src[1]))
      quotient == IF t[1] = "GLOBAL_SIZE" /\ 2 ^ i.src[2][2] = Launch[t[2]].size
                  THEN add_function(manager, "NUM_GROUPS", t[2])
                  ELSE Shifted(i, "/", UINT, UINT)
  IN  /\ i.op \in LShr
      /\ \E q \in {quotient} : Write(NamesOf(i.dst), q, RegisterContent(q.node, t))

Copied(content) == [manager EXCEPT !.node = RegisterContent(content.node, Type(content))]

(* A 64-bit move reads the entry of the whole register, which must exist.   *)
SMov(i) ==
  LET a     == i.src[1]
      whole == IF IsReg(a) THEN Copied(Content(a)) ELSE Constant(manager, a[2])
  IN  \/ /\ i.op \in Mov
         /\ IsReg(a) => Whole(a[2]) \in DOMAIN state
         /\ Write(NamesOf(i.dst), whole, whole.node)
      \/ /\ i.op \in Cvt32To64
         /\ Write({Lowest(i.dst)}, whole, whole.node)
      \/ /\ i.op \in Cvt64To32
         /\ Write(NamesOf(i.dst), manager, Copied(Low(a)).node)

SMin(i) ==
  /\ i.op \in IRMin
  /\ \E least \in {Operation("min", i.src[1], i.src[2], E!INT, E!INT)} :
       Write(NamesOf(i.dst), least, RegisterContent(least.node, Plain))

----------------------------------------------------------------------------
(* The special registers and the quantities they are initialised with; k    *)
(* is an identity that nothing else has.                                   *)
SpecialRegisters ==
  [ctaid |-> "WORK_GROUP_ID", tid |-> "WORK_ITEM_ID", ntid |-> "LOCAL_SIZE",
   envreg3 |-> "GLOBAL_OFFSET", envreg6 |-> "NUM_GROUPS"]

init_entry_reg(k, type) == RegisterContent(E!create_work_item_function_node(k, type), type)
InitReg(k, special, d) == init_entry_reg(k, <<SpecialRegisters[special], d>>)

\* The product of ntid and ctaid.
InitProduct(k, d) ==
  RegisterContent(E!create_op_node(k, "*", InitReg(k + 1, "ntid", d).node, InitReg(k + 2, "ctaid", d).node,
                                   E!Hint(UINT, FALSE, FALSE, FALSE)),
                  <<"WORK_GROUP_ID_LOCAL_SIZE", d>>)

Init ==
  /\ state = [name \in UNION {NamesOf(r) : r \in DOMAIN Inputs} |-> Inputs[name[1]]]
  /\ fresh = 1

\* An instruction reads registers that have been written.
Available(i) == \A n \in DOMAIN i.src : IsReg(i.src[n]) => Lowest(i.src[n][2]) \in DOMAIN state

Execute(i) ==
  /\ Available(i)
  /\ \/ VAdd(i) \/ VSub(i) \/ VMulLo(i) \/ VMad(i)
     \/ VLshlrev(i) \/ VLshrrev(i) \/ SMov(i) \/ SMin(i)

Next == \E i \in Instructions : Execute(i)
Spec == Init /\ [][Next]_vars

----------------------------------------------------------------------------
\* The registers that have contents: of a 64-bit register the low half is read
\* by most instructions and always written.
Registers == {name[1] : name \in DOMAIN state}
=============================================================================
