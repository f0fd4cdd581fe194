-------------------------------- MODULE Kernels --------------------------------
(***************************************************************************)
(* The driver: the kernels of a file are lowered one by one, and each runs *)
(* through the passes of its pipeline - the flow of registers and the      *)
(* types of arguments (PTX only), the stores, arrays and predicates that   *)
(* are put before the code, and the decompilation, which executes the      *)
(* instructions in order and prints.  The context of the passes lives as   *)
(* long as the file, the tables of the decompiler as long as the kernel.   *)
(* Kernels here have no branches and no guarded instructions (see          *)
(* PtxPredicates and AmdKernel), and no data in global memory.             *)
(***************************************************************************)
EXTENDS Integers, Sequences, FiniteSets, TLC, SequencesExt, FiniteSetsExt

CONSTANT Files  \* the files: sequences of kernels

\* Kernels as the front ends know them: their parts are lists, their loads read
\* arguments or launch parameters that are set up, arrays in local memory have
\* elements (PTX) or start within it (AMD).
KernelAsRead(k) ==
  /\ k.target \in {"ptx", "amd"}
  /\ k.args \in Seq(ToSet(k.args)) /\ k.code \in Seq(ToSet(k.code))
  /\ k.shared \in Seq(ToSet(k.shared)) /\ k.predicates \in Seq(ToSet(k.predicates))
  /\ \A i \in DOMAIN k.code :
       /\ "op" \in DOMAIN k.code[i] /\ k.code[i].op \in {"load", "compute", "access"}
       /\ k.code[i].op = "load" =>
            "base" \in DOMAIN k.code[i] /\ k.code[i].base \in {"args"} \cup (IF k.usesetup THEN {"setup"} ELSE {})
  /\ k.target = "ptx" => \A n \in DOMAIN k.shared : k.shared[n] \in Nat \ {0}
  /\ k.target = "amd" => k.local_size \in Nat /\ \A n \in DOMAIN k.shared : k.shared[n] \in 0 .. k.local_size - 1

ASSUME FilesAssumption ==
  \A f \in Files : f \in Seq(ToSet(f)) /\ \A k \in ToSet(f) : KernelAsRead(k)

VARIABLES
  file,      \* the kernels of the file
  ahead,     \* the kernels not lowered yet
  passes,    \* the passes the current kernel still has to go through
  kernel,    \* the current kernel
  metadata,  \* the context of the passes
  data,      \* the tables of the decompiler
  text       \* what is printed of the kernels

vars == <<file, ahead, passes, kernel, metadata, data, text>>

\* The layout of arguments and their types are those of the promise.
Promise == INSTANCE KernelFile WITH printed <- <<>>

Pipeline(target) ==
  (IF target = "ptx" THEN <<"flow", "argument types", "pointer types", "predicates">> ELSE <<>>)
  \o <<"stores", "memory", "init predicates", "reset", "fill", "emit">>

At(pass) == passes # <<>> /\ Head(passes) = pass
Done == passes' = Tail(passes)

None == [name |-> <<>>, bytes |-> 0]
\* Dictionaries: the entries of f come before those of g.
Over(f, g) == [x \in DOMAIN f \cup DOMAIN g |-> IF x \in DOMAIN f THEN f[x] ELSE g[x]]
Extend(f, key, value) == Over([x \in {key} |-> value], f)

----------------------------------------------------------------------------
(* Lowering of a kernel.                                                   *)

LoweredArguments(k) ==
  [n \in DOMAIN k.args |->
     [pointer |-> k.args[n].pointer, type |-> Promise!ArgType(k, k.args[n]),
      offset |-> Promise!Offset(k, n), declared |-> Promise!DeclaredBytes(k.args[n])]]

\* AMD code shows where arrays start; each ends where the next one starts.
LocalSizes(k) ==
  IF k.target = "ptx" THEN k.shared
  ELSE LET bounds == Append(Promise!Ascending(ToSet(k.shared)), k.local_size)
       IN  [n \in 1 .. Len(bounds) - 1 |-> bounds[n + 1] - bounds[n]]

\* The launch parameters are stored before the code of an AMD kernel that uses them.
DispatchStores(k) ==
  IF ~k.usesetup THEN <<>>
  ELSE <<[op |-> "alloc", base |-> "setup"]>> \o
       [w \in 1 .. 7 |-> [op |-> "store", base |-> "setup", arg |-> Promise!Setup,
                          pointer |-> FALSE, type |-> <<"uint", 1>>, offset |-> 4 * (w - 1)]]

Predicates(k) == IF k.target = "amd" THEN <<"exec", "vcc", "scc">> ELSE k.predicates

Lower ==
  /\ passes = <<>> /\ ahead # <<>>
  /\ LET k == Head(ahead)
     IN  /\ kernel' = [source |-> k, args |-> LoweredArguments(k), locals |-> LocalSizes(k),
                       predicates |-> Predicates(k), materialized |-> {},
                       instructions |-> DispatchStores(k) \o
                         [i \in DOMAIN k.code |-> Over(k.code[i], [at |-> i])]]
         /\ passes' = Pipeline(k.target)
  /\ ahead' = Tail(ahead)
  /\ UNCHANGED <<file, metadata, data, text>>

----------------------------------------------------------------------------
(* The passes over PTX kernels.                                            *)

LastWriter(code, i, r) == {j \in 1 .. i - 1 : r \in ToSet(code[j].dst)}

\* Mutant: a read is connected with the first write of its register.
BuildRegisterFlow_first ==
  /\ At("flow") /\ Done
  /\ LET code == kernel.instructions
         uses == UNION {{<<i, r>> : r \in ToSet(FlattenSeq(code[i].src))} : i \in DOMAIN code}
         written == {u \in uses : LastWriter(code, u[1], u[2]) # {}}
     IN  metadata' = [metadata EXCEPT !.flow =
           [u \in written |-> Min(LastWriter(code, u[1], u[2]))]]
  /\ UNCHANGED <<file, ahead, kernel, data, text>>

BuildRegisterFlow ==
  /\ At("flow") /\ Done
  /\ LET code == kernel.instructions
         uses == UNION {{<<i, r>> : r \in ToSet(FlattenSeq(code[i].src))} : i \in DOMAIN code}
         written == {u \in uses : LastWriter(code, u[1], u[2]) # {}}
     IN  metadata' = [metadata EXCEPT !.flow =
           [u \in written |-> Max(LastWriter(code, u[1], u[2]))]]
  /\ UNCHANGED <<file, ahead, kernel, data, text>>

\* update_type_by_offset, for a set of offsets
WithType(args, offsets, type) ==
  [n \in DOMAIN args |-> IF args[n].offset \in offsets THEN [args[n] EXCEPT !.type = type] ELSE args[n]]

ArgumentsAt(args, offset) == {n \in DOMAIN args : args[n].offset = offset}

\* The first vector load of a block gives it its type, unless its offset is known.
TypeOfLoad(acc, c) ==
  LET blocks == {n \in ArgumentsAt(acc.args, c.offset) : ~acc.args[n].pointer}
      type == Promise!Widened(c.type, acc.args[Min(blocks)].declared)
  IN  IF c.op = "load" /\ Promise!Vector(c.type) /\ blocks # {} /\ c.offset \notin DOMAIN acc.known
      THEN [args |-> WithType(acc.args, {c.offset}, type), known |-> Extend(acc.known, c.offset, type)]
      ELSE acc

InferArgumentTypes ==
  /\ At("argument types") /\ Done
  /\ LET result == FoldLeft(TypeOfLoad, [args |-> kernel.args, known |-> metadata.blocks], kernel.instructions)
     IN  /\ kernel' = [kernel EXCEPT !.args = result.args]
         /\ metadata' = [metadata EXCEPT !.blocks = result.known]
  /\ UNCHANGED <<file, ahead, data, text>>

IsPointerLoad(args, c) ==
  /\ c.op = "load" /\ Promise!TypeBytes(c.type) = 8
  /\ \E n \in ArgumentsAt(args, c.offset) : args[n].pointer

\* The type of an access travels backwards to the pointers its address is made of.
LoadsBehind ==
  LET Read(use) == IF use \in DOMAIN metadata.flow THEN {use} ELSE {}
      behind[use \in DOMAIN metadata.flow] ==
        LET writer == kernel.instructions[metadata.flow[use]]
        IN  IF IsPointerLoad(kernel.args, writer) THEN {writer.offset}
            ELSE UNION {behind[u] : u \in UNION {Read(<<metadata.flow[use], source[1]>>) : source \in ToSet(writer.src)}}
  IN  behind

\* The first access settles the type of a pointer.
Propagate(acc, offsets, type) ==
  LET new == offsets \ DOMAIN acc.known
  IN  [args |-> WithType(acc.args, new, type), known |-> Over(acc.known, [o \in new |-> type])]

TypeOfAccess(acc, i) ==
  LET c == kernel.instructions[i]
      address == <<i, c.src[1][1]>>
  IN  IF c.op # "access" \/ address \notin DOMAIN metadata.flow THEN acc
      ELSE Propagate(acc, LoadsBehind[address], c.type)

InferPointerTypes ==
  /\ At("pointer types") /\ Done
  /\ LET start == [args |-> kernel.args, known |-> metadata.pointers]
         result == FoldLeft(TypeOfAccess, start, [i \in DOMAIN kernel.instructions |-> i])
     IN  /\ kernel' = [kernel EXCEPT !.args = result.args]
         /\ metadata' = [metadata EXCEPT !.pointers = result.known]
  /\ UNCHANGED <<file, ahead, data, text>>

\* Without guarded instructions the pass copies the list.
PredicatesPass == At("predicates") /\ Done /\ UNCHANGED <<file, ahead, kernel, metadata, data, text>>

----------------------------------------------------------------------------
(* What is put before the code.                                            *)

\* Mutant: what is to come before the code comes after it.
Prepend_after(part, instructions) ==
  IF part \in kernel.materialized THEN UNCHANGED kernel
  ELSE kernel' = [kernel EXCEPT !.instructions = @ \o instructions,
                                !.materialized = @ \cup {part}]

Prepend(part, instructions) ==
  IF part \in kernel.materialized THEN UNCHANGED kernel
  ELSE kernel' = [kernel EXCEPT !.instructions = instructions \o @,
                                !.materialized = @ \cup {part}]

ArgumentStores ==
  <<[op |-> "alloc", base |-> "args"]>> \o
  [n \in DOMAIN kernel.args |->
     [op |-> "store", base |-> "args", arg |-> n, pointer |-> kernel.args[n].pointer,
      type |-> kernel.args[n].type, offset |-> kernel.args[n].offset]]

MaterializeArgumentStores ==
  At("stores") /\ Done /\ Prepend("arguments", ArgumentStores) /\ UNCHANGED <<file, ahead, metadata, data, text>>

MaterializeMemory ==
  /\ At("memory") /\ Done
  /\ Prepend("locals", [n \in DOMAIN kernel.locals |-> [op |-> "local", size |-> kernel.locals[n]]])
  /\ UNCHANGED <<file, ahead, metadata, data, text>>

MaterializePredicates ==
  /\ At("init predicates") /\ Done
  /\ Prepend("predicates", [n \in DOMAIN kernel.predicates |-> [op |-> "init", predicate |-> kernel.predicates[n]]])
  /\ UNCHANGED <<file, ahead, metadata, data, text>>

----------------------------------------------------------------------------
(* Decompilation: the instructions are executed in order.                  *)

Fresh == [pc |-> 1, allocated |-> {}, contents |-> <<>>, parts |-> <<>>, signature |-> <<>>,
          words |-> <<>>, arrays |-> <<>>, local_size |-> 0, predicates |-> {}]

\* Mutant: the position in the code is kept from the kernel before.
Reset_keeps_position ==
  /\ At("reset") /\ Done /\ data' = [Fresh EXCEPT !.pc = data.pc]
  /\ UNCHANGED <<file, ahead, kernel, metadata, text>>

Reset ==
  /\ At("reset") /\ Done /\ data' = Fresh
  /\ UNCHANGED <<file, ahead, kernel, metadata, text>>

Running == At("fill") /\ data.pc <= Len(kernel.instructions)
Current == kernel.instructions[data.pc]
Advance(d) == [d EXCEPT !.pc = @ + 1]
Fills == UNCHANGED <<file, ahead, passes, kernel, metadata, text>>

Allocate ==
  /\ Running /\ Current.op = "alloc"
  /\ data' = Advance([data EXCEPT !.allocated = @ \cup {Current.base}])
  /\ Fills

\* The bytes of a stored argument where a new element starts, and its elements.
ElementSize(c) == IF c.pointer THEN 8 ELSE Promise!TypeBytes(c.type) \div c.type[2]
Starts(c) ==
  IF c.pointer \/ ~Promise!Vector(c.type) THEN {c.offset}
  ELSE {c.offset + ElementSize(c) * i : i \in 0 .. c.type[2] - 1}
ElementAt(c, offset) ==
  <<c.arg, IF c.arg = Promise!Setup THEN offset \div 4 ELSE (offset - c.offset) \div ElementSize(c)>>

\* An element smaller than a word is found by the name of its word and its bits.
WordOf(c, offset) == <<c.base, offset - (offset % 4)>>

StoreArgument ==
  /\ Running /\ Current.op = "store"
  /\ LET c == Current
         words == {<<c.base, o>> : o \in {o \in Starts(c) : o % 4 = 0}}
         stored == [w \in words |-> [name |-> ElementAt(c, w[2]), bytes |-> ElementSize(c)]]
         contents == Over(stored, data.contents)
         small == IF c.type[1] \in {"char", "short"} THEN Starts(c) ELSE {}
         Bits(o) == <<contents[WordOf(c, o)].name, 8 * ElementSize(c), 8 * (o % 4)>>
     IN  data' = Advance([data EXCEPT
           !.contents = contents,
           !.parts = Over([b \in {Bits(o) : o \in small} |->
                             ElementAt(c, CHOOSE o \in small : Bits(o) = b)], @),
           !.signature = IF c.arg = Promise!Setup THEN @ ELSE Extend(@, c.arg, c.type)])
  /\ Fills

InitLocal ==
  /\ Running /\ Current.op = "local"
  /\ data' = Advance([data EXCEPT !.arrays = Extend(@, data.local_size, "array"),
                                !.local_size = @ + Current.size])
  /\ Fills

InitPredicate ==
  /\ Running /\ Current.op = "init"
  /\ data' = Advance([data EXCEPT !.predicates = @ \cup {Current.predicate}])
  /\ Fills

\* upload_kernel_param: one register after the other, by the size of what lies
\* at the offset; where nothing lies the content before it is taken again.
Upload(base, offset, count) ==
  LET known == {None} \cup {data.contents[w] : w \in DOMAIN data.contents}
      words[left \in 0 .. count, before \in known] ==
        LET here == <<base, offset + 4 * (count - left)>>
            content == IF here \in DOMAIN data.contents THEN data.contents[here] ELSE before
            Word(part) == <<content.name[1], content.name[2], part>>
        IN  IF left = 0 \/ content = None THEN <<>>
            ELSE IF content.bytes <= 4 THEN <<Word("all")>> \o words[left - 1, content]
            ELSE IF content.bytes # 8 THEN <<>>
            ELSE IF left = 1 THEN <<Word("all")>>
            ELSE <<Word("low"), Word("high")>> \o words[left - 2, content]
  IN  words[count, None]

\* A vector of small elements is loaded as one word and taken apart.
Packed(c) == Promise!Vector(c.type) /\ Promise!LoadStep(c) < 4
Unpack(c) ==
  LET word == Upload(c.base, c.offset, 1)[1]
      size == 8 * Promise!ElementBytes[c.type[1]]
      Part(w) == data.parts[<<<<word[1], word[2]>>, size, size * (w - 1)>>]
  IN  [w \in DOMAIN c.dst |-> IF w = 1 THEN word ELSE <<Part(w)[1], Part(w)[2], "all">>]

LoadParameters ==
  /\ Running /\ Current.op = "load"
  /\ LET c == Current
         loaded == IF Packed(c) THEN Unpack(c) ELSE Upload(c.base, c.offset, Len(c.dst))
         words == IF c.base \in data.allocated THEN loaded ELSE <<>>
     IN  data' = Advance([data EXCEPT !.words = Extend(@, c.at,
           [w \in DOMAIN c.dst |-> IF w \in DOMAIN words THEN words[w] ELSE Promise!Unnamed])])
  /\ Fills

\* Mutant: an instruction that prints nothing is not left.
OtherInstruction_stays ==
  Running /\ Current.op \in {"compute", "access"} /\ data' = data /\ Fills

OtherInstruction ==
  Running /\ Current.op \in {"compute", "access"} /\ data' = Advance(data) /\ Fills

EndOfCode ==
  /\ At("fill") /\ data.pc > Len(kernel.instructions) /\ Done
  /\ UNCHANGED <<file, ahead, kernel, metadata, data, text>>

\* Each array ends where the next one starts; their elements are words.
ArraysPrinted ==
  LET bounds == Append(Promise!Ascending(DOMAIN data.arrays), data.local_size)
  IN  [n \in 1 .. Len(bounds) - 1 |-> (bounds[n + 1] - bounds[n]) \div 4]

EmitOpenCL ==
  /\ At("emit") /\ Done
  /\ text' = Append(text, [types |-> [n \in DOMAIN kernel.args |-> data.signature[n]],
                           words |-> data.words, arrays |-> ArraysPrinted])
  /\ UNCHANGED <<file, ahead, kernel, metadata, data>>

----------------------------------------------------------------------------
Init ==
  /\ file \in Files /\ ahead = file
  /\ passes = <<>> /\ kernel = <<>> /\ data = Fresh /\ text = <<>>
  /\ metadata = [flow |-> <<>>, blocks |-> <<>>, pointers |-> <<>>]

PassStep ==
  \/ BuildRegisterFlow \/ InferArgumentTypes \/ InferPointerTypes \/ PredicatesPass
  \/ MaterializeArgumentStores \/ MaterializeMemory \/ MaterializePredicates \/ Reset \/ EmitOpenCL

FillStep ==
  \/ Allocate \/ StoreArgument \/ InitLocal \/ InitPredicate
  \/ LoadParameters \/ OtherInstruction \/ EndOfCode

Next == Lower \/ PassStep \/ FillStep

\* The driver is one loop over the kernels and the passes a fixed list.
Spec == Init /\ [][Next]_vars /\ WF_vars(Next)

----------------------------------------------------------------------------
(* What the kernels of a file are promised.                                *)

InUse == {"args", "setup"}

\* The passes left are the end of a pipeline, the kernels left those not printed.
TypeOK ==
  /\ passes = <<>> \/ \E k \in DOMAIN file : passes = SubSeq(Pipeline(file[k].target),
        Len(Pipeline(file[k].target)) - Len(passes) + 1, Len(Pipeline(file[k].target)))
  /\ Len(text) + Len(ahead) \in {Len(file) - 1, Len(file)}
  /\ data.allocated \subseteq InUse
  /\ At("fill") => data.pc \in 1 .. Len(kernel.instructions) + 1

File == INSTANCE KernelFile WITH printed <- text

\* Every kernel of a file is printed as the promise has it: with the types its
\* own accesses give its arguments (unless the offset was taken before it), and
\* with every loaded word named for the part of the argument it holds.  This is
\* about the whole chain of passes - flow, types, prefix, execution - on several
\* kernels that share one context (parser_for_instructions.main 43-64).
ImplementsFile == File!FilePrinted

\* What the code reads is there before it reads it: when the first instruction of
\* the source runs, every argument is stored, every array and predicate exists.
PrefixBeforeCode ==
  (Running /\ Current.op \in {"load", "compute", "access"}) =>
    /\ DOMAIN data.signature = DOMAIN kernel.args
    /\ data.predicates = ToSet(kernel.predicates)
    /\ Cardinality(DOMAIN data.arrays) = Len(kernel.locals)
    /\ Current.op = "load" => Current.base \in data.allocated

\* Every kernel of the file is printed.
AllPrinted == <>(Len(text) = Len(file))
=============================================================================
