# A verification project for OpenCLDecompiler

OpenCLDecompiler reads the assembler listing of a compiled OpenCL kernel (AMD GCN,
or PTX) and prints an OpenCL program. This directory holds TLA+ specifications of
the part of it that decides *which program is printed*: the conditions under which
instructions execute, the control flow graph, the versions and variables of
registers, the regions and loops of the text, the values and types of registers
and expressions, and the way the kernels of a file share the passes. TLC checks them on small instances; TLAPS proves some of the
properties for every instance. Paths below are relative to the repository
(`src/` is the Python package).

## The system

| Part | State | Operations | Talks to |
|---|---|---|---|
| Driver (`src/parser_for_instructions.py`) | output file, pass context, flags | `main`: one pipeline run for each kernel of the file | parsers, pipelines |
| Parsers (`src/kernel_parser/`) | none | text to kernels | driver |
| Lowering to IR (`src/ir/asm_to_ir/`) | the kernel being built | one rule per opcode; a write of `exec` emits a `ChangeMask` too | kernel |
| Kernel (`src/ir/kernel.py`, `kernel_components.py`) | instructions, arguments, predicates, memory, "materialised" flags | append, prepend, replace | all passes |
| PTX passes (`src/ir/passes/ptx/`) | register flow, inferred types (in the pass context) | predicates to masks, types of arguments | kernel |
| Kernel passes (`src/ir/passes/kernel/`) | none | materialise arguments, memory, predicates | kernel |
| Execution conditions (`src/logical_variable.py`) | a chain of texts | and, or, xor, inclusion, sibling | predicate instructions, graph construction |
| Graph construction (`src/ir/passes/decompilation/cfg.py`) | nodes, `last_node`, stack of open masks | one iteration for each IR instruction | instructions, versions |
| Instructions (`src/instructions/`) | `exec_registers`, `node.state` | `to_fill_node`, `to_print` | `DecompilerData`, expressions |
| Versions (`src/versions.py`, `src/decompiler_data.py`) | `versions`, `variables`, `checked_variables`, `num_of_var` | a version for each definition, a variable for each merge | graph construction, printer |
| Branches and labels (`src/decompiler_data.py`, `src/instructions/label.py`) | `to_node`, `from_node`, `loops`, `back_edges` | branch, label | graph construction, regions |
| Regions (`src/regions/`) | regions with parents and children | reduction to if, if-else, loop | printer |
| Printer (`src/code_printer.py`) | output | print a region | regions, variables |
| Expressions (`src/expression_manager/`) | for every expression returned, the operation asked for | build, simplify, replace a part, print, common type | instructions, printer |
| Register contents (`src/register.py`, `*register_content.py`) | per register and half: expression and types | sum, product, move, recognition of launch quantities | instructions, expressions |

The program is sequential: there are no threads, no messages and nothing is
persisted. What makes it hard is of another kind.

* The input is any instruction list. A pass that is right for the shapes of the
  test kernels may break an invariant on a list nobody wrote a test for.
* State is kept in two ways at once. `node.state` is copied from parent to child
  along the graph; `exec_registers`, the version counters, the variables and the
  stack of open masks are global and follow the order of the text. At an else
  the two orders part.
* Symbolic and real execution must agree: the text of a condition stands for the
  exec mask of the hardware.
* Joins: several masks closed at once, several versions of a register arriving,
  a version arriving at several joins.
* Asserts and missing keys end the run with an exception.

`PROJECT.json` lists these as hazards, each at its line.

### What makes each part correct

* Execution conditions: `&`, `|` and `^` select the lanes that the hardware
  operation selects; an if, its else and the condition around them fit together.
* Graph construction: every edge is known at both ends; every lane takes the path
  the hardware takes; nothing is cut off; the stack of masks is the nesting of
  the source; the end of the program closes everything.
* Versions: no two definitions share a version; the variable a use is printed as
  holds the value the register has there.
* Regions and printer: the region tree prints every node once, in the branch in
  which it executes; the reduction terminates.
* PTX predicates: an instruction executes under its predicate's value at that
  point.
* Driver: every kernel is printed once, in order; what is printed for it depends on
  the kernels before only where the code says so.
* Expressions: a simplified expression has the value of the computation asked for,
  and its text reads back as it; the type of a sum does not depend on the order
  of the operands and loses nothing an operand needs.
* Register contents: the expression kept for a register has the value the register
  has, and a type that names a launch quantity names the one it holds.

## Modules

| Module | Models |
|---|---|
| `ExecCondition` | `logical_variable.py`: the algebra of conditions, and what a condition means |
| `Conditions` | two registers holding conditions, every operation in every order |
| `Cfg` | `cfg.py` and the instructions on predicates, masks, branches and labels; the merge of versions |
| `AmdKernel` | lowering of the exec instructions (`instruction_rules.py`), composed with `Cfg`, beside the hardware; conditionals by mask and by branch |
| `Regions` | `make_region_graph_from_cfg`, the folding of if and if-else, and the walk of `code_printer.py`; on top of `Cfg` |
| `AmdDecompiler` | `AmdKernel` and `Regions` composed: from the assembly to the printed text |
| `Loops` | the rest of `functions_for_regions.py`: the search for loops, the reduction of their bodies, breaks, and the text of loops; extends `Regions` |
| `OpenCLTypes` | the types of values and the common type of two (`expression_manager/types`, `expression_node.py`) |
| `ExpressionManager` | `expression_manager.py` and its optimisations: building an operation and simplifying it |
| `Expressions` | the rest of the manager, on top of it: negation, replacement of a part, printing |
| `PredicatedCode` | the abstract specification of guarded PTX code |
| `PtxPredicates` | lowering of guards and `passes/ptx/predicates.py`, and the masked program executed; implements `PredicatedCode` |
| `KernelFile` | the abstract specification of what a file of kernels becomes |
| `Kernels` | driver, pipelines, register flow, argument and pointer types, the passes that put stores, arrays and predicates first, filling and emitting; implements `KernelFile` |
| `PtxMachine` | what a work item computes: the abstract counterpart of the next one |
| `LaunchTypes` | `register_type.py` and the sums recognised by their types: the patterns of `v_add.py`, and `operation_register_content.py` |
| `RegisterValues` | `register.py`, the register contents and the arithmetic instructions of PTX; on top of `LaunchTypes`, with an `ExpressionManager` |
| `MCConditions`, `MCCfg`, `MCAmdKernel`, `MCAmdVersions`, `MCDecompiler`, `MCLoops`, `MCTypes`, `MCExpressions`, `MCKernels`, `MCRegisterValues` | instances for TLC |
| `ConditionsProofs`, `CfgProofs`, `AmdMasksProofs`, `AmdPathsProofs`, `PtxPredicatesProofs`, `OpenCLTypesProofs`, `KernelsProofs`, `LaunchTypesProofs` | theorems |

### How state and actions correspond to the code

*A condition* is the set of the texts of its chain. The code keeps a sorted list,
but compares, includes and subtracts sets, and `top()` is the last element of the
sorted list, which the set determines (`TextLess` is Python's order on the texts:
`!` sorts before all other characters). A text is a record: its core (a
comparison, a value, a merge variable, a stray character) and the number of
`!( )` around it, because negation is all the code ever does to a text. The
empty text is `DEFAULT`. The fallback of `__or__` iterates over the characters of
a string; `Characters` is that chain, all its characters being one text, since
nothing but its being different from every real condition matters.

*A node* is a number in the order of creation. `instruction`, `parent`,
`children`, `mask` (the condition stored under `$MASK`) and `state` (text and
version of each register; version 0 means the register is not in `node.state`)
are sequences indexed by nodes. `exec_registers`, `versions`, `num_of_var`,
`variables`, `checked_variables`, `masked_blocks`, `to_node`, `from_node` and
`back_edges` are the tables of the same names. A version `reg#n` is the pair of
the register and `n`.

*An action* is one iteration of the loop of `BuildDecompilerCfgPass.run` for one
kind of IR instruction: the parents, the closing of masks, `to_fill_node`, the
change of the stack and, for a node with several parents, the merge of versions
(`EmitNode`). Where the code raises, `outcome` becomes the exception and the pass
stops. The loop over the masks to close is written in closed form: `Kept` is how
much of the stack is left and `ClosedParents` what the closed entries contribute.
The uniqueness test of `_append_unique_node` then has only the first of them to
look at; that no other repetition can occur is the invariant `NoRepeatedParent`,
proved for every instruction list.

*A branch to its own successor label* makes a label have the same parent twice,
as in the code; `Attach` appends once for each occurrence.

*`AmdKernel`* adds the machine: `hw` is, for each register, the set of lanes whose
bit is set, a lane being the set of comparisons that are true for it. `If`,
`Else` and `EndIf` are what the compiler emits for a source conditional (they are
marked external) and change `hw` as the hardware does; the IR instructions they
are lowered to wait in `todo` and enter the graph one by one (`Step`). `active`
remembers which lanes executed each node. The save register of a conditional is
that of its depth, so it is used again by the next one at that depth. An else
follows a then-branch that is not empty, and a conditional tests a comparison
that no enclosing one tests. A condition on which the whole wave agrees is
compiled to `s_cmp` and a branch around the body (`UniformIf`, `UniformElse`,
`UniformEndIf`); `waves` is the set of lanes whose wave is at this place, and a
wave that is elsewhere keeps its registers. The two kinds nest in any way.

`Path(l)` is the path of lane `l` through the finished graph, read as the printer
reads it: a node with two children is an if, its first child is printed under the
condition (`Condition_of`).

*`Regions`*. A region is a number and a record with the fields of the class;
`starts_regions` and `ends_regions` are the dictionaries. `MakeRegion` is one
iteration of the breadth-first loop. `calls` is the stack of
`process_region_graph_dfs`: a call has its region, the position of the list
iterator (the list changes under it) and `result`; `NextChild` advances the
iterator or enters a child, `FoldReturn` folds and returns. A fold is one step: its
updates of the children and parent lists are operators on the sequence of
regions, and where `list.index` or `list.remove` would raise, the result is
`Failed` and the phase becomes `ValueError`. The printer changes nothing, so it is
a function: the sequence of nodes it visits, each with the conditions of the ifs
around it. A BASIC region that nothing folded prints nothing, as in the code.

*`Loops`* adds the stack `q_loops`, the loop at hand and the queue of the body being
reduced. `process_loop` puts a loop region in the place of its start and end and then
walks through the nodes of the loop (`curr_node`, `WalkNodes`): from the start to the
first child each time, until the branch back, and for ever where that is not on the
way. What it collects on the way, the variables of the loop, is left out;
where the code would find an empty queue or a missing attribute, the phase becomes
the exception. The printed text is a sequence of statements with nested bodies;
`Flow` reads from it which statement or test control goes to from which, and
`FlowAgrees` compares that with the graph.

*`Expressions`*. A node is a record that carries the identity of its Python object,
since replacing a part works by identity; `original` is the manager's table from
what it returned to what it was asked for. `pool` holds what was built so far with
the unsimplified computation (`asked`); one action builds an operation on two
members, negates one, or replaces one inside another. Numbers are fractions in
lowest terms, because the manager divides constants exactly.

*`PtxPredicates`*. One action per iteration of the pass, then the masked program is
executed; a mask is the value its predicate had when the mask was opened, since
the text is an if around the region. The refinement mapping takes the position in
the masked program to the next instruction of the source it stands for.

*`Kernels`*. One action per pass, except for the fill pass, which takes an action per
instruction. `metadata` is the pass context, made once for the file; `data` are the
tables of `DecompilerData`, reset for each kernel. The mapping to `KernelFile` is the
printed text.

*`RegisterValues`*. `state` maps a name - a register, or its low half - to a content:
expression, types, operation. The expression is the node that `ExpressionManager`
(instance `E`) returns, built and simplified by the same calls as in the code; `fresh`
counts the identities of nodes given out, and instructions hand the manager from one
call to the next. `MCRegisterValues` lets `PtxMachine` execute the same instruction in the
same step, and compares the value in one work item of the expression kept (`Printed`)
with the register.

## What is checked

Every run is an exhaustive search. Fairness is assumed in four runs, each time of a
program that is one sequential loop: while it has a step to take, it takes one.

* `printed` and `loops`: weak fairness of `RegionStep` and of `Regioning`, written out
  with the enabling condition `Busy`, because the nested updates make `ENABLED` too
  slow to evaluate; in each phase the guards are exhaustive. When a kernel ends is
  left open, so nothing is assumed about the instructions. `AlwaysFolded` and
  `KernelsEnd` depend on it.
* `ptx_predicates` and `kernels`: `WF_vars(Next)`. `MasksImplementPredicates` contains
  the progress of the predicated program, `ImplementsFile` and `AllPrinted` that
  every kernel of the file is printed.

Deadlock is not checked where the program, the list or the bound ends; in
`conditions` it is.

| Run | Instance | Shows |
|---|---|---|
| `conditions` | two comparisons and a variable, up to one negation set from outside (more arise) | `ChainOK`, `XorSound`, `OrSound`, `ElseCloses` |
| `graphs` | every list of 3 instructions over 2 predicates, 1 register and 2 labels; every list of 7 instructions on masks; every list of 6 branches, jumps, labels and computations | `TypeOK`, `EdgesAgree`, `StackOK`, `AllClosed`, `NoRepeatedParent`, `EdgesForward`, `NoOrphan` |
| `structured` | up to 2 conditionals, 3 computations and stores of one register | `NoException`, `PathsAgree`, `VersionsUnique`, `VariablesCarryValuesMergedSimply` |
| `printed` | up to 2 conditionals with 3 stores; up to 3 conditionals, nested, with 1 store | `MaskDenotesExec`, `StackMirrorsFrames`, `NoRegionException`, `PrintedRight`, `AlwaysFolded` (liveness) |
| `loops` | structured kernels of up to 14 instructions with 2 loops and 5 branches; every program of 8 plain instructions, branches, jumps and 2 labels | `RegionsMirrorGraph`, `KernelsFolded`, `KernelsPrinted`, `ProgramsPrinted`, `KernelsEnd` (liveness) |
| `merged_twice` | as `structured` with 4 computations and stores | `VariablesCarryValues` is violated |
| `version_reused` | one kernel with an else-if chain of three conditions, executed step by step | `VariablesCarryValuesMergedOnce` is violated |
| `expressions` | 2 or 3 operations from a few leaves, in every order; all pairs and triples of types of 1 or 2 components | `DenotesUnlessTwice`, `PrintedIsNode`, `OrderDoesNotMatter`, `NothingLost` |
| `subtracted_twice` | sums and differences of three variables | `Denotes` is violated |
| `ptx_predicates` | every kernel of 4 instructions, 2 predicates, 1 label | `MaskedRunsAreStraight`, `MasksImplementPredicates` (refinement) |
| `kernels` | 1776 files of one or two kernels | `TypeOK`, `PrefixBeforeCode`, `ImplementsFile` (refinement), `AllPrinted` (liveness) |
| `register_values` | every straight PTX code of 3 instructions after a fixed prologue | `TypeOK`, `TagsNameValues`, `PrintsWhatIsComputed` |

### Bounds

* `graphs`. Seven mask instructions reach a stack of four entries, an else on an
  inner mask and the closing of several masks at once. Six instructions of control
  flow reach two forward branches to one label, a back edge and code after a jump.
  All that the run checks is also proved for every bound.
* `structured`, `printed`. Two conditionals with three operations
  reach nesting, sequence, reuse of a save register and a definition on either side
  of a join; the third level is where closing passes over an entry below the top
  one. `printed` takes the comparisons in order (`Tested`) and allows the third
  conditional only inside another one and with one store (`Small`). Three stores tell the order of the printed text; three conditionals share
  one end at `s_endpgm`, so that the region between two branches and a shared end
  (`create_new_region`) is itself below another one.
* `loops`. A structured loop has a plain statement before it and before each break,
  no ifs and no loops inside (the code ends with an exception for those, see the
  hazards at `functions_for_regions.py` 398 and 421), and a break only if there is
  an if around the loop (`FreeBreaks = FALSE`, see below). `KernelsEnd` asks that such a
  kernel ends folded, not with an exception. Overlapping and irreducible loops do
  occur in the programs of any shape, of which only `ProgramsPrinted` is checked:
  they may end with an exception, and a loop around another one may not
  end at all (see below).
* `expressions`. The leaves are chosen for the rules: the parts of a global id, an
  offset of another dimension that must not be taken for one, a constant that is the
  size of the group, three variables for the cancelling of differences, 2 and -1 for
  fractions and signs, conditions, a pointer (in sums only). Values are compared under two assignments. Numbers are exact: wrap-around
  of fixed-width integers is not modelled. `parent` is kept for the root only.
* `ptx_predicates`. One branch and one label suffice for a jump in, out and back; four
  instructions for two adjacent masked runs. A guarded `ret` is left out (the
  printer prints nothing for it), and so is a guarded comparison that sets its own
  guard and is followed by an instruction under the same guard: there the pass
  keeps the old condition (`predicates.py:36`).
* `kernels`. Kernels have no branches and no guards (see the runs above), types of
  known size, aligned loads, no load of one word of a pointer, arrays of whole
  words and no data in global memory. Two kernels are enough for one context to be
  shared and one table to be reset.
* `register_values`. One narrow and two 64-bit registers, which are interchangeable
  (`SYMMETRY`), are written over and over;
  every instruction after the first reads the register written last; one work item
  of a two-dimensional launch. Three instructions are enough for a sum of two groups
  times sizes and for a sum that subtracts a term twice, which the code prints wrongly.
  Such code is left out (`Exact`, `ExactPointers`, `SimplifiedRight`), here all of it:
  - sums that subtract one term twice, as in `subtracted_twice`, and sums of the
    number of groups times their size with the start of a group, which become
    `get_global_size`;
  - sums, `mad.lo` and `mul.wide` by a constant whose operands have types that no
    longer fit their values (a shifted group number; `RightOperands`);
  - a constant as the third operand of `mad.lo`;
  - a shift right with a remainder or of a value typed as a global size;
  - a 64-bit move that reads an entry that is missing or old, or a pointer's offset
    that does;
  - pointers other than as the first operand of `add.s64` or in `mov.b64`, offsets that
    are not multiples of an element, a second offset to a local array (which is an
    array of words of four bytes, whatever `Element` is: `v_add.py:113`);
  - `mul.lo.s64` onto one of its operands, and numbers beyond `MaxNumber`.

  A `sub.s64` and a `mul.lo.s64` take registers only, as the code unpacks their operands.
  Numbers are exact, as in `expressions`.

Every property has a mutant of the code it is about (in the modules, after the
comment "Mutant") under which it is violated.

### The disagreements found

`merged_twice`: `v = 7; if (a) { if (b) v = 8; store v; v = 9; } store v;`. The
version of `v = 7` arrives at both joins. `DecompilerData.update_reg_version`
(`src/decompiler_data.py:910`) keeps one variable for each version, so the second
join takes the first one's away: the store after the inner if reads a variable
that is not assigned when `b` is false.

`version_reused`: `if (a) v = 1; else if (b) v = 2; else if (c) { v = 3; store v; } else
store;`. The arms leave `v` unknown on one side of the inner merges, which drop it from
the node's state, but a merge sets the global counter to one more than the largest
version that *arrives* (`src/versions.py:27`, `decompiler_data.py:912`), which may be
smaller than the counter was. The outer merge is given the version that `v = 3`
has already, and the store after it reads the wrong variable. Hence the hypothesis
`StaysKnown(r)` of `VersionsUnique`: once a register has a value, every node has one.
A third way was met at the same place: of three merges in a chain the last one
renames only what the second one read (`checked_variables`, `versions.py:45`).
`VariablesCarryValuesMergedSimply` excludes these three ways and nothing else; it
holds within the bounds of `structured`, and held in five million states of
random behaviours with four conditionals and nine operations.

`subtracted_twice`: `(b - a) + (b - a)` is simplified to `b + b`. The loop that cancels
subtracted terms (`expression_manager.py:88-95`) looks for a partner in the list to
which it also appends the subtracted terms that found none, so the second `- a`
removes the first. `DenotesUnlessTwice` shows that within the bounds this is the
only way a sum goes wrong.

Met while modelling, and left out of the runs as stated under "Bounds":

* the walk of `process_loop` through a loop around another one never ends, where it
  comes to it: the inner branch back has the inner label for its first child
  (`functions_for_regions.py:269-317`; for example
  `plain; LA: plain; br LA; LB: LC: plain; br LC; br LB`, with `br` a branch on a
  condition; the model walks for ever, too);
* a break that leaves a loop with no if around it loses the code between the loop and
  its label (`functions_for_regions.py:448`);
* the rewriting of a global size drops `group_id * local_size`
  (`expression_manager.py:174-185`), and a shift right of a sum typed as a global
  size prints `get_num_groups` (`v_lshrrev.py:66`); a shifted group number is typed as
  a multiple of the group size whatever the distance (`v_lshlrev.py:28`);
* a multiplication followed by a division that does not divide it is folded to a
  fraction (`expression_manager.py:288`); a sum as an index lacks its bracket
  (`expression_helper_functions.py:330`);
* the constant third operand of `mad.lo` is lost (`v_mad.py:23`);
* a negated guard on anything but a branch ends with a `TypeError`
  (`predicates.py:33`); `PtxPredicates` models this end;
* past a hole between arguments a load goes on with the argument before the hole
  (`upload.py:96`), which `KernelFile` describes; one word of a pointer is named as
  the whole of it (`upload.py:109`);
* `ld.param` of a parameter at an offset, a kernel without `reqd_work_group_size` and an
  AMD load at an offset of no argument end with exceptions
  (`expression_optimizations.py:115`, `amd/asm_to_ir.py:175`); the sizes of local
  arrays that are not multiples of four are rounded (`code_printer.py:34`).

## What is proved

All for every value of the constants; `MaxNodes`, the bound on the length of the
list, and `MaxCode` are any natural numbers. The assumptions are those of the
modules, which TLC evaluates for the instances:

* `ConstantsAssumption`, `AtomsAssumption`, `MaxCodeAssumption`, `KernelAssumption`: the
  registers that are no predicates form a list, comparisons are numbers, and the
  save registers of conditionals at different depths differ: a structured compiler
  has to keep the `exec` of every enclosing conditional until its end.
* `FilesAssumption`: the parts of a kernel are lists, loads read arguments or launch
  parameters that are set up, arrays in local memory are not empty.
* `LaunchAssumption`: the numbers of a launch are natural, groups are not empty.

`ElementAssumption`, `InputsAssumption` and `InstructionsAssumption` of `RegisterValues`
(the contents that the prologue leaves have one type, instructions have the operands
their opcode asks for) are evaluated by TLC; no proof uses them.

* `ConditionsProofs`. `ExecXorMeans`, `ExecOrMeans` and `ElseRoundTrip` are about
  any two conditions; `ChainsNormal`, `XorIsSound`, `OrIsSound` and
  `ElseAlwaysCloses` state the invariants of the run. `ChainOK` is inductive by
  itself; the others follow from it and the three facts about the operators.
* `CfgProofs`. `TypeOKCorrect`: the invariant `TypeInv` adds to `TypeOK` that the
  stack of masks is never empty (otherwise `Kept` has no value to choose). The
  work is in the merge: `max_version` chooses from a set that has to be shown
  finite and not empty, and the variables are numbered by a cardinality.
* `CfgProofs`, the graph. Each step is first reduced to what it does to the graph, node
  by node (`StepKinds`), so that every invariant has five cases.
  - `StackOKCorrect` needs that the root's condition stays empty, so that no
    else can take the root for its branch. `AllClosedCorrect` follows: every
    entry above the root has a condition that is not empty, so the default
    condition closes it.
  - `EdgesCorrect` (both `EdgesAgree`, also stated as `EdgesAgreeCorrect`, and
    `EdgesForward`) rests on what `Attach`
    adds to a node's children, and on the back edges being recorded.
  - `NoOrphanCorrect`: closing masks, elses and labels only ever add parents.
  - `NoRepeatedParentCorrect`: in a sorted stack the closed entries contribute
    strictly decreasing nodes, none above the newest; and a back edge joins only
    labels (`to_node` holds labels), which the property leaves out.

* `PtxPredicatesProofs`. `MasksStraight`: `PassInv` adds to the property that when
  `open` says no mask is open, every mask made so far has been closed behind it; that
  is what lets a label or a branch be appended. Each step appends at most three
  instructions, each by one of the three lemmas on appending.
  In the same module, `MaskedStepsAreSteps`: the masked program takes only steps of the
  predicated kernel, the safety half of `MasksImplementPredicates`. `StepsInv` has
  two parts beside the types. `Layout`: each prefix of the masked program stands for
  a prefix of the kernel, together with the predicate whose mask is open before
  each instruction; an instruction that sets the predicate of its own mask is the
  last one under it (this is what `WellFormed` excludes otherwise). `Running`: the
  mask is the value of that predicate, unless it is about to be closed. Then
  `SourcePc` is the least instruction ahead, a jump lands at its label, and each
  step moves it as the kernel does.

* `OpenCLTypesProofs`. `CommonTypeCommutes` and `CommonTypeAssociates`, for components of
  every size and vectors of every length, from one characterisation of the common
  type (`JoinOfVectors`): the larger size, floating point before integers, signed only
  if both are or the signed one is wider. `OrderDoesNotMatterCorrect` and
  `NothingLostCorrect` state the properties of the run, whose types are closed under
  the join (`JoinInv`).

* `AmdMasksProofs`, the kernel. The kernel beside the hardware, for any nesting of conditionals by
  mask and by branch. `FramesInv` says what the compiler has open and what waits in
  `todo`, one disjunct for each point between two source statements.
  `KernelIsInstructionList`: the graph part of every step is a step of `Cfg` (or a
  stutter), so that every invariant of `Cfg` holds in a kernel. `HwInv`: `exec` is
  the lanes that the open conditionals select, and every save register holds what
  `exec` was outside its conditional; a wave that is elsewhere keeps its registers,
  so both are stated for the lanes whose wave is here.
* `AmdMasksProofs`, the masks. `NoExceptionCorrect`, `MaskDenotesExecCorrect` and
  `StackMirrorsFramesCorrect`, together `MasksCorrect`. The pass lags behind the hardware by
  the instructions in `todo`, so `MasksInv` speaks about the frames the pass has seen:
  `Lags(gs)` says, for each phase of a conditional, how those differ from the
  compiler's. For them the stack has one entry for each conditional by mask, whose
  condition is the conjunction of the literals of the conditionals around it, and
  `exec_registers` holds for `exec` and each save register a chain that means the
  lanes the hardware has in it. Chains, not only their meanings, have to
  be the same: `should_close_mask` and the else compare texts.

* `AmdPathsProofs`. `PathsAgreeCorrect` and `VersionsUniqueCorrect`, together `PathsCorrect`.
  Both speak about the finished graph, so `PathsInv` describes the unfinished one. Each
  conditional that the pass has seen waits at a node, `Pending(fs, k)`, to which its else
  or its end will be attached: where it began or, after its else, the end of its
  then-branch (`Waiting`; `Phased` covers the points at which a jump or a label is due).
  - `Flow` is about the lanes that reach each node: what a node's parents send
    arrives there, computations and stores are reached by the lanes that were active,
    the newest node holds the lanes inside all open conditionals, and each
    waiting node has still to send the lanes that its conditional keeps out. `Believed`
    says which lanes the pass takes to be here, as it learns of a branch only with the
    branch itself. Each step of the pass enters, turns, leaves or stays in a
    conditional (`StepContinues`), and each of the four keeps `Flow`.
  - `Versioned`: no node has a version above the register's counter, and the counter's
    version belongs to the newest node, or to a waiting node outside conditionals that
    wait with the version of the newest node (`Newest`). So one
    more than the larger of the two versions that meet exceeds every version given out:
    exactly what fails in `version_reused`, where the register is unknown on one side.
  - `s_endpgm` becomes the child of the newest node and of every waiting one: a compiler may
    leave masks open there, and the default condition closes them (`EndAdds`). From
    then on (`Routed`) each node that is the parent of any but the last sends all of its
    lanes to one or two children, and the nodes of a lane's path are, up to the last
    one, those that the lane reaches: by strong induction over the nodes, whose
    parents are older (`RoutedPath`).

* `KernelsProofs`. `DriverTypes` and `DriverPrefix`, for every file of kernels and kernels of
  any length. The invariant `DriverIInv` has four parts. `DriverInv`: the passes ahead
  are the end of one list of passes (`Rest(n)`), the same for both pipelines, and the
  kernels ahead are the end of the file. `LoweredInv`: in what order the passes have put
  their instructions before those of the source; they are lists of which only the last
  part is the source, at an offset that the passes behind determine. `PlacedInv`: the
  offsets of arguments and arrays. `RecordedInv`: what the instructions before the
  current one have stored, so that when the source is reached, everything it reads is
  there. The arrays are sorted by their places: an ascending order exists because the
  places are finitely many, and arrays that are not empty have different places.

* `LaunchTypesProofs`, the types of sums, for every launch.
  - `TypeOfSumNames`: the type that the four patterns of `v_add.py` give a sum of two
    names is the name of the sum of the two quantities.
  - `SimplifiedKeepsSum`: `maybe_simplify` combines the types of any number of
    summands to fewer, and those that are left name quantities of the same sum. `Total` adds
    up a list as a recursive function; taking one out leaves the rest (`TotalRemoved`,
    `TotalWithout`), each combination denotes the sum of the two it replaces
    (`CombinationDenotes`), and an induction over the rounds (`Rounds` proves that such a
    function exists, `NatInductive` replaces the library's induction theorem) gives
    the whole. The hypothesis `NoGroups` is needed: the fourth combination takes
    `NUM_GROUPS` for the number of work items in them, and is wrong of a sum
    (`_SUM_SIMPLIFY_COMBINATIONS`, `operation_register_content.py:34`).
  - `CombinedWellTyped`: a content combined from two has as many types as its operation
    has operands, and one if it has no operation any more.
  That the operands' types name their values is a hypothesis throughout (`Agrees`), not
  an invariant: the code keeps types where they no longer fit.

Only model-checked: everything about `Regions`, `Loops` and the end-to-end property
`PrintedRight`; of `AmdKernel` `VariablesCarryValuesMergedSimply`, which follows a value through
all merges;
`ExpressionManager`, `Expressions`, `RegisterValues` and `Loops`, whose trees are walked by
RECURSIVE operators, for which the prover has no arithmetic backend; and liveness,
which is out of its reach. Of the refinement `MasksImplementPredicates` the progress is
model-checked only, and so is that `Kernels` implements `KernelFile`.

## What is not modelled

* In the graph (`Cfg`, `AmdKernel`) the text of a value is its identity; `Arith` is
  any instruction that writes an ordinary register, `Plain` any that writes none.
* The substring replacement in `versions.py:46` (`var1` inside `var10`): names are
  replaced as wholes; more than ten merges are out of reach of an instance. The
  passes over the finished graph in `versions.py` 68-340 (types and names of
  variables, variables of loops).
* Wrap-around, floating point and atomic instructions; the division sequences of
  AMD code and its table of arithmetic rules; ternaries, permutations of vector
  components and casts in expressions.
* Regions of unstructured graphs (for example of `a || b` on scalar conditions) are
  made and folded as far as the code does, but of their text only `ProgramsPrinted` is
  claimed, which speaks about texts that lost no code.
* An else without instructions that is the last thing in a kernel: the printer
  would walk past the end of the graph (`code_printer.py:148`); no compiler emits
  one, and `s_endpgm` excludes it.
* Parsers, the textual form of the IR and the rendering of pictures: text in, or
  text out, without state to speak about. Unrolled loops: a rewriting of the printed
  text behind an option.
* Code that nothing calls: `init_state`, `init_work_group` and
  `process_initial_state` (`is_rdna3` is always false), hence
  `CombinedRegisterContent`; `upload_by_offset`, `upload_usesetup`,
  `process_kernel_params`; the classes `SAdd`, `SAddc`, `SMul`, `VMov` and `VCmpLg`;
  `Register.__sub__`, shifts and logical operations of registers;
  `KernelInstructions.prepend`; `_connect` in `cfg.py`.

## Plan

1. Proofs: `VariablesCarryValuesMergedSimply` for any nesting; the refinement of `KernelFile`;
   the invariants of `Regions`, whose updates are folds over the children.
2. The abstract specification "a structured program that executes for each lane the
   stores of the source", and `AmdDecompiler` as its implementation; the merge
   variables in the printed text; compound conditions through `s_and_b64`.
3. The rest of `versions.py` (names and types of variables, variables of loops) on top of
   `Loops`; unrolled loops.
4. The arithmetic rules of AMD code on `RegisterValues`; fixed-width integers.
