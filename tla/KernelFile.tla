------------------------------- MODULE KernelFile ------------------------------
(***************************************************************************)
(* What a file of kernels is to become: every kernel is printed, in the    *)
(* order of the file, with the types of its arguments, a name for every    *)
(* word it loads from them, and its arrays in local memory.  A pointer has *)
(* the type of the first access made through it, a block of bytes the      *)
(* vector type it is first loaded as - unless an earlier kernel of the     *)
(* file has taken that offset for a type of its own, for the context of    *)
(* the passes is shared by all kernels of a file.                          *)
(***************************************************************************)
EXTENDS Integers, Sequences, FiniteSets, TLC, FiniteSetsExt, SequencesExt

\* A type is an element type and a number of components; the sizes known.
ElementBytes == [char |-> 1, short |-> 2, int |-> 4, uint |-> 4, float |-> 4,
                 long |-> 8, ulong |-> 8]
KnownTypes == ((DOMAIN ElementBytes) \X {1}) \cup
  {<<"char", 2>>, <<"char", 4>>, <<"float", 4>>, <<"int", 2>>, <<"int", 4>>,
   <<"uint", 2>>, <<"uint", 4>>, <<"uint", 8>>}
TypeBytes(type) == IF type \in KnownTypes THEN ElementBytes[type[1]] * type[2] ELSE -1
Vector(type) == type[2] > 1

----------------------------------------------------------------------------
(* Arguments, as the front ends lay them out.                              *)

AlignToEight(size) == ((size + 7) \div 8) * 8
DeclaredBytes(a) == IF a.pointer THEN 8 ELSE ElementBytes[a.element] * Max({1, a.count})
ByAlignment == 1 :> <<"char", 1>> @@ 2 :> <<"short", 1>> @@ 4 :> <<"int", 1>>
               @@ 8 :> <<"long", 1>> @@ 16 :> <<"int", 4>>
ByteBlocks == 2 :> <<"char", 2>> @@ 4 :> <<"char", 4>> @@ 32 :> <<"uint", 8>>

ArgType(kernel, a) ==
  CASE kernel.target = "amd" -> <<a.element, Max({1, a.count})>>
    [] kernel.target = "ptx" /\ a.pointer -> ByAlignment[a.align]
    [] kernel.target = "ptx" /\ ~a.pointer /\ a.element = "char" /\ a.count \in DOMAIN ByteBlocks
         -> ByteBlocks[a.count]
    [] OTHER -> <<a.element, 1>>

Offset(kernel, n) ==
  IF kernel.target = "amd" THEN kernel.args[n].offset
  ELSE MapThenSumSet(LAMBDA m : AlignToEight(DeclaredBytes(kernel.args[m])), 1 .. n - 1)

ArgAt(kernel, offset) == CHOOSE n \in DOMAIN kernel.args : Offset(kernel, n) = offset

----------------------------------------------------------------------------
(* The types that the use of an argument gives it.                         *)

\* A vector that covers only a part of its argument stands for all of it.
Widened(type, bytes) ==
  LET element == ElementBytes[type[1]]
      whole == <<type[1], bytes \div element>>
  IN  IF bytes % element = 0 /\ whole[2] > type[2] /\ TypeBytes(whole) = bytes
      THEN whole ELSE type

\* Registers are named by their words; an instruction writes words, and reads
\* registers, the address of an access first.
LastDefinition(kernel, i, r) ==
  Max({0} \cup {j \in 1 .. i - 1 : r \in ToSet(kernel.code[j].dst)})

\* The pointers that the value written by an instruction is computed from; what
\* is read from memory is no pointer of the kernel.
PointersIn(kernel) ==
  LET from[i \in 0 .. Len(kernel.code)] ==
        LET c == kernel.code[i]
        IN  CASE i = 0 -> {}
              [] i > 0 /\ c.op = "load" -> {n \in DOMAIN kernel.args :
                      kernel.args[n].pointer /\ Offset(kernel, n) = c.offset}
              [] i > 0 /\ c.op = "compute" -> UNION {from[LastDefinition(kernel, i, r)] : r \in ToSet(FlattenSeq(c.src))}
              [] OTHER -> {}
  IN  from

AccessesThrough(kernel, n) ==
  {i \in DOMAIN kernel.code :
     /\ kernel.code[i].op = "access"
     /\ n \in PointersIn(kernel)[LastDefinition(kernel, i, kernel.code[i].src[1][1])]}

VectorLoadsOf(kernel, n) ==
  {i \in DOMAIN kernel.code :
     /\ kernel.code[i].op = "load" /\ Vector(kernel.code[i].type)
     /\ ~kernel.args[n].pointer /\ kernel.code[i].offset = Offset(kernel, n)}

Uses(kernel, n) ==
  CASE kernel.target = "amd" -> {}
    [] kernel.target = "ptx" /\ kernel.args[n].pointer -> AccessesThrough(kernel, n)
    [] OTHER -> VectorLoadsOf(kernel, n)

UsedAs(kernel, n) ==
  LET type == kernel.code[Min(Uses(kernel, n))].type
  IN  IF kernel.args[n].pointer THEN type ELSE Widened(type, DeclaredBytes(kernel.args[n]))

\* An offset is taken for pointers and for blocks separately.
Slot(kernel, n) == <<Offset(kernel, n), kernel.args[n].pointer>>

TypesOf(kernel, taken) ==
  [n \in DOMAIN kernel.args |->
     IF Uses(kernel, n) = {} \/ Slot(kernel, n) \in taken
     THEN ArgType(kernel, kernel.args[n]) ELSE UsedAs(kernel, n)]

----------------------------------------------------------------------------
(* The words of arguments that loads read.                                 *)

Unnamed == <<>>
Setup == 0  \* the block of launch parameters, beside the arguments 1, 2, ..

NameAt(kernel, types, offset) ==
  LET covering == {n \in DOMAIN kernel.args :
        Offset(kernel, n) <= offset /\ offset < Offset(kernel, n) + DeclaredBytes(kernel.args[n])}
      n == CHOOSE m \in covering : TRUE
      inside == offset - Offset(kernel, n)
      pointer == kernel.args[n].pointer
  IN  CASE covering = {} -> Unnamed
        [] covering # {} /\ ~pointer /\ Vector(types[n])
             -> <<n, inside \div ElementBytes[types[n][1]], "all">>
        [] covering # {} /\ (pointer \/ (~Vector(types[n]) /\ TypeBytes(types[n]) = 8))
             -> <<n, 0, IF inside = 0 THEN "low" ELSE "high">>
        [] OTHER -> <<n, 0, "all">>

\* A vector of small elements is loaded element by element, all else in words.
LoadStep(c) == IF Vector(c.type) /\ ElementBytes[c.type[1]] < 4 THEN ElementBytes[c.type[1]] ELSE 4

WordsOf(kernel, types, c) ==
  [w \in DOMAIN c.dst |->
     IF c.base = "setup" THEN <<Setup, c.offset \div 4 + w - 1, "all">>
     ELSE NameAt(kernel, types, c.offset + (w - 1) * LoadStep(c))]

Loads(kernel) == {i \in DOMAIN kernel.code : kernel.code[i].op = "load"}

\* The numbers of a set, the smallest first.
Ascending(S) ==
  CHOOSE s \in [1 .. Cardinality(S) -> S] : \A i, j \in 1 .. Cardinality(S) : i < j => s[i] < s[j]

\* Arrays in local memory, in words: PTX declares their sizes, AMD code shows
\* where they start.
Arrays(kernel) ==
  IF kernel.target = "ptx" THEN [n \in DOMAIN kernel.shared |-> kernel.shared[n] \div 4]
  ELSE LET starts == Ascending(ToSet(kernel.shared))
           End(n) == IF n = Len(starts) THEN kernel.local_size ELSE starts[n + 1]
       IN  [n \in DOMAIN starts |-> (End(n) - starts[n]) \div 4]

----------------------------------------------------------------------------
CONSTANTS Files  \* the files: sequences of kernels

VARIABLES
  file,    \* the kernels
  printed  \* what became of the first of them

Start == file \in Files /\ printed = <<>>

\* The slots that the first kernels have taken.
TakenBefore(count) ==
  UNION {{Slot(file[k], n) : n \in {m \in DOMAIN file[k].args : Uses(file[k], m) # {}}} : k \in 1 .. count}

\* A word that no argument covers may hold anything.
PrintedAs(kernel, result, types) ==
  /\ result.types = types
  /\ result.arrays = Arrays(kernel)
  /\ DOMAIN result.words = Loads(kernel)
  /\ \A i \in Loads(kernel) :
       LET promised == WordsOf(kernel, types, kernel.code[i])
       IN  /\ DOMAIN result.words[i] = DOMAIN promised
           /\ \A w \in DOMAIN promised : promised[w] \in {Unnamed, result.words[i][w]}

PrintNext ==
  /\ UNCHANGED file
  /\ Len(printed) < Len(file) /\ Len(printed') = Len(printed) + 1
  /\ IsPrefix(printed, printed')
  /\ LET kernel == file[Len(printed) + 1]
     IN  PrintedAs(kernel, Last(printed'), TypesOf(kernel, TakenBefore(Len(printed))))

FilePrinted == Start /\ [][PrintNext]_<<file, printed>>
=============================================================================
