------------------------------ MODULE PtxMachine ------------------------------
(***************************************************************************)
(* What a work item computes when it executes the arithmetic of a PTX      *)
(* kernel: every instruction reads registers and writes one.  Numbers are  *)
(* exact; a pointer is the start of an array and a distance in bytes.      *)
(***************************************************************************)
EXTENDS Integers

CONSTANTS
  Inputs,        \* the values of the registers the kernel starts from
  Instructions   \* the instructions that may be executed

VARIABLE regs

Number(n) == [base |-> "none", n |-> n]

Read(operand) == IF operand[1] = "const" THEN Number(operand[2]) ELSE regs[operand[2]]

(* An offset is added to a pointer; everything else is done with numbers.   *)
Result(op, v) ==
  CASE op \in {"add.s32", "add.s64"}                       -> [base |-> v[1].base, n |-> v[1].n + v[2].n]
    [] op \in {"sub.s32", "sub.s64"}                       -> Number(v[1].n - v[2].n)
    [] op \in {"mul.lo.s32", "mul.lo.s64", "mul.wide.s32"} -> Number(v[1].n * v[2].n)
    [] op = "mad.lo.s32"                                   -> Number(v[1].n * v[2].n + v[3].n)
    [] op \in {"shl.b32", "shl.b64"}                       -> Number(v[1].n * 2 ^ v[2].n)
    [] op = "shr.s64"                                      -> Number(v[1].n \div 2 ^ v[2].n)
    [] op = "min.s32"                                      -> IF v[1].n <= v[2].n THEN v[1] ELSE v[2]
    [] op \in {"mov.b32", "mov.b64", "cvt.s64.s32", "cvt.u32.u64"} -> v[1]

Execute(i) ==
  regs' = [r \in DOMAIN regs \cup {i.dst} |->
             IF r = i.dst THEN Result(i.op, [n \in DOMAIN i.src |-> Read(i.src[n])]) ELSE regs[r]]

Init == regs = Inputs
Next == \E i \in Instructions : Execute(i)
Spec == Init /\ [][Next]_regs
=============================================================================
