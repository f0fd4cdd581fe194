------------------------------- MODULE MCKernels -------------------------------
\* Files of kernels for Kernels: PTX kernels with two arguments, AMD kernels with
\* three, and files of one or two of them.
EXTENDS Kernels

Pointer == [pointer |-> TRUE, element |-> "long", count |-> 0, align |-> 4]
Value(element, count) == [pointer |-> FALSE, element |-> element, count |-> count, align |-> 0]

Wide(n) == IF n = 1 THEN <<"rd1", "rd1h">> ELSE IF n = 2 THEN <<"rd2", "rd2h">> ELSE <<"rd3", "rd3h">>
Instruction(op, dst, src, type) == [op |-> op, dst |-> dst, src |-> src, type |-> type]
Load(base, offset, dst, type) ==
  Instruction("load", dst, <<>>, type) @@ [base |-> base, offset |-> offset]

\* The load of an argument, as the PTX of a kernel starts with.
LoadOf(a, n, offset) ==
  CASE a.pointer -> Load("args", offset, Wide(n), <<"long", 1>>)
    [] a = Value("char", 16) -> Load("args", offset, <<"r1", "r2", "r3", "r4">>, <<"uint", 4>>)
    [] a = Value("char", 4) -> Load("args", offset, <<"r5", "r6", "r7", "r8">>, <<"char", 4>>)
    [] OTHER -> Load("args", offset, <<"r9">>, <<"uint", 1>>)

Ptx(args, code, shared) ==
  [target |-> "ptx", args |-> args, code |-> code, shared |-> shared, predicates |-> <<"p">>,
   usesetup |-> FALSE, local_size |-> 0]

PtxArgs == {<<Pointer, a>> : a \in {Pointer, Value("char", 16), Value("char", 4), Value("uint", 0)}}
           \cup {<<Value("char", 16), Pointer>>}
\* The second argument lies behind the first, at a multiple of eight.
Loading(args) ==
  [n \in DOMAIN args |->
     LoadOf(args[n], n, IF n = 1 THEN 0 ELSE IF args[1] = Value("char", 16) THEN 16 ELSE 8)]

\* Addresses: an argument, a sum, or a place read from memory.
Sum(dst, x, y) == Instruction("compute", Wide(dst), <<Wide(x), Wide(y)>>, <<"long", 1>>)
Read(address, type) == Instruction("access", Wide(3), <<Wide(address)>>, type)
Write(address, type) == Instruction("access", <<>>, <<Wide(address), <<"r9">>>>, type)
Bodies ==
  {<<Write(n, <<t, 1>>)>> : n \in 1 .. 2, t \in {"float", "uint"}}
  \cup {<<Sum(3, 1, 2), Write(3, <<"float", 1>>), Write(2, <<"uint", 1>>)>>,
        <<Read(2, <<"uint", 1>>), Sum(3, 1, 3), Write(3, <<"float", 1>>)>>,
        <<Read(1, <<"uint", 4>>), Write(3, <<"float", 1>>), Write(1, <<"float", 1>>)>>,
        <<Sum(1, 1, 2), Sum(2, 1, 2), Write(2, <<"uint", 1>>)>>}
PtxKernels == {Ptx(args, Loading(args) \o body, shared) :
                 args \in PtxArgs, body \in Bodies, shared \in {<<>>, <<8, 4>>}}

\* AMD: arguments as the listing lays them out, loads of one to four words.
Placed(a, offset) == a @@ [offset |-> offset]
AmdArgs == {<<Placed(Pointer, 0), Placed(Value("int", 0), 8), Placed(Value("int", 0), 12)>>,
            <<Placed(Value("int", 0), 0), Placed(Pointer, 8), Placed(Value("uint", 4), 16)>>,
            <<Placed(Value("int", 0), 0), Placed(Value("int", 0), 4), Placed(Pointer, 8)>>}
AmdLoads(base) == {Load(base, 4 * size * n, SubSeq(<<"s0", "s1", "s2", "s3">>, 1, size), <<"uint", 1>>) :
                     size \in {1, 2, 4}, n \in 0 .. 3}
Amd(args, code, usesetup, shared, local_size) ==
  [target |-> "amd", args |-> args, code |-> code, usesetup |-> usesetup, shared |-> shared,
   local_size |-> local_size, predicates |-> <<>>]
\* No load takes one half of a pointer only.
Whole(args, load) ==
  \A n \in DOMAIN args : args[n].pointer =>
    LET last == load.offset + 4 * Len(load.dst)
    IN  (load.offset <= args[n].offset /\ args[n].offset + 8 <= last)
        \/ last <= args[n].offset \/ args[n].offset + 8 <= load.offset
ReadingArgs(args) ==
  {Amd(args, <<Load("args", 0, <<"s4", "s5">>, <<"uint", 1>>), load>>, FALSE, <<>>, 0) :
     load \in {l \in AmdLoads("args") : l.offset < 32 /\ Whole(args, l)}}
ReadingSetup(args) ==
  {Amd(args, <<load>>, TRUE, <<8, 0, 8>>, 16) :
     load \in {l \in AmdLoads("setup") : l.offset + 4 * Len(l.dst) <= 24}}
AmdKernels == UNION {ReadingArgs(args) \cup ReadingSetup(args) : args \in AmdArgs}
Later == Amd(CHOOSE a \in AmdArgs : a[2].pointer, <<Load("setup", 8, <<"s0", "s1">>, <<"uint", 1>>)>>, TRUE, <<4>>, 12)

Plain == {k \in PtxKernels : k.shared = <<>>}
MCFiles == {<<k>> : k \in PtxKernels \cup AmdKernels} \cup (Plain \X (PtxKernels \ Plain))
           \cup {<<k, Later>> : k \in AmdKernels}
================================================================================
