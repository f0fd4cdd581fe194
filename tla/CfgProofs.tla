------------------------------ MODULE CfgProofs ------------------------------
(***************************************************************************)
(* Invariants of the graph construction, for every set of registers,       *)
(* labels and comparisons and every instruction list.                      *)
(***************************************************************************)
EXTENDS Cfg, FiniteSetTheorems, SequenceTheorems, WellFoundedInduction, TLAPS

------------------------------------------------------------------------------
(***************************************************************************)
(* Largest elements, and sequences that grow by one.                       *)
(***************************************************************************)
\* A set of naturals that is not empty has a smallest element.
LEMMA NatMin ==
  ASSUME NEW S \in SUBSET Nat, S # {}
  PROVE  \E m \in S : \A x \in S : m <= x
<1>1. PICK m \in S : \A y \in S : ~(<<y, m>> \in OpToRel(<, Nat))
  BY WFMin, NatLessThanWellFounded
<1>2. \A y \in S : ~(y < m)
  BY <1>1 DEF OpToRel
<1> QED
  BY <1>2

\* A set of naturals that is not empty and has an upper bound has a largest element.
LEMMA NatMax ==
  ASSUME NEW S \in SUBSET Nat, S # {}, NEW b \in Nat, \A x \in S : x <= b
  PROVE  \E m \in S : \A x \in S : x <= m
<1> DEFINE U == {u \in Nat : \A x \in S : x <= u}
<1>1. PICK u \in U : \A w \in U : u <= w
  <2>1. b \in U /\ U \in SUBSET Nat
    OBVIOUS
  <2> HIDE DEF U
  <2> QED
    BY <2>1, NatMin
<1>2. u \in S
  <2>1. SUFFICES ASSUME u \notin S PROVE FALSE
    OBVIOUS
  <2>2. PICK x \in S : TRUE
    OBVIOUS
  <2>3. \A y \in S : y < u
    BY <2>1
  <2>4. u - 1 \in U
    BY <2>2, <2>3
  <2> QED
    BY <1>1, <2>4
<1> QED
  BY <1>2

\* A finite list of naturals is bounded.
LEMMA ListBounded ==
  ASSUME NEW n \in Nat, NEW f \in [1 .. n -> Nat]
  PROVE  \E b \in Nat : \A i \in 1 .. n : f[i] <= b
<1> DEFINE Bounded(k) == \E b \in Nat : \A i \in 1 .. k : f[i] <= b
           Bad == {k \in 0 .. n : ~Bounded(k)}
<1>1. Bounded(0)
  <2>1. \A i \in 1 .. 0 : f[i] <= 0
    OBVIOUS
  <2> QED
    BY <2>1
<1>2. ASSUME NEW k \in 1 .. n, Bounded(k - 1) PROVE Bounded(k)
  <2>1. PICK b \in Nat : \A i \in 1 .. k - 1 : f[i] <= b
    BY <1>2
  <2>2. b + f[k] \in Nat /\ \A i \in 1 .. k : f[i] <= b + f[k]
    BY <2>1
  <2> QED
    BY <2>2
<1> HIDE DEF Bounded
<1>3. Bad = {}
  <2>1. SUFFICES ASSUME Bad # {} PROVE FALSE
    OBVIOUS
  <2>2. Bad \in SUBSET Nat
    OBVIOUS
  <2>3. PICK k \in Bad : \A j \in Bad : k <= j
    <3> HIDE DEF Bad
    <3> QED
      BY <2>1, <2>2, NatMin
  <2>4. k \in 1 .. n /\ k - 1 \in 0 .. n
    BY <1>1, <2>3
  <2>5. Bounded(k - 1)
    BY <2>3, <2>4
  <2> QED
    BY <1>2, <2>3, <2>4, <2>5
<1>4. Bounded(n)
  BY <1>3
<1> QED
  BY <1>4 DEF Bounded

\* A list indexed from 1 to n and one more element.
LEMMA AppendOne ==
  ASSUME NEW S, NEW n \in Nat, NEW f \in [1 .. n -> S], NEW x \in S
  PROVE  /\ Append(f, x) \in [1 .. n + 1 -> S]
         /\ \A i \in 1 .. n : Append(f, x)[i] = f[i]
         /\ Append(f, x)[n + 1] = x
         /\ Len(f) = n
<1>1. f \in Seq(S) /\ Len(f) = n
  BY IsASeq
<1>2. /\ Append(f, x) \in Seq(S) /\ Len(Append(f, x)) = n + 1
      /\ \A i \in 1 .. n : Append(f, x)[i] = f[i]
      /\ Append(f, x)[n + 1] = x
  BY <1>1, AppendProperties
<1>3. Append(f, x) \in [1 .. n + 1 -> S]
  BY <1>2, LenProperties
<1> QED
  BY <1>1, <1>2, <1>3

------------------------------------------------------------------------------
(***************************************************************************)
(* Types.                                                                  *)
(***************************************************************************)
Mask == [change_mask : Nodes, previous_branch_end : Nodes \cup {no_parent}]

\* The type invariant is inductive once the stack of open masks is never empty.
TypeInv == TypeOK /\ Len(masked_blocks) > 0

\* The positions of the registers that precede r are finitely many.
LEMMA VariableType ==
  ASSUME num_of_var \in Nat, NEW r, NEW M
  PROVE  variable(r, M) \in Nat
<1> DEFINE Before == {i \in DOMAIN Scalars :
             Scalars[i] \in M /\ \A j \in DOMAIN Scalars : Scalars[j] = r => i < j}
<1>1. DOMAIN Scalars = 1 .. Len(Scalars) /\ Len(Scalars) \in Nat
  BY ConstantsAssumption, LenProperties
<1>2. IsFiniteSet(1 .. Len(Scalars))
  BY <1>1, FS_Interval
<1>3. IsFiniteSet(Before)
  BY <1>1, <1>2, FS_Subset
<1>4. Cardinality(Before) \in Nat
  BY <1>3, FS_CardinalityType
<1> QED
  BY <1>4 DEF variable

\* As many registers are merged as there are scalars at most.
LEMMA MergedCount ==
  ASSUME NEW st, NEW ps
  PROVE  Cardinality(Merged(st, ps)) \in Nat
<1>1. DOMAIN Scalars = 1 .. Len(Scalars) /\ Len(Scalars) \in Nat
  BY ConstantsAssumption, LenProperties
<1>2. IsFiniteSet(1 .. Len(Scalars))
  BY <1>1, FS_Interval
<1>3. IsFiniteSet(ScalarSet)
  <2>1. Scalars \in Surjection(1 .. Len(Scalars), ScalarSet)
    BY <1>1, ConstantsAssumption, LenProperties DEF Surjection, ScalarSet, Range
  <2> QED
    BY <1>2, <2>1, FS_Surjection
<1>4. IsFiniteSet(Merged(st, ps))
  BY <1>3, FS_Subset DEF Merged
<1> QED
  BY <1>4, FS_CardinalityType

\* The versions that arrive at a node are naturals, and max_version is the largest of them.
LEMMA MaxVersion ==
  ASSUME TypeOK, NEW ps \in Seq(Nodes), NEW r \in Regs, prev_versions(r, ps) # {}
  PROVE  /\ max_version(r, ps) \in prev_versions(r, ps)
         /\ max_version(r, ps) \in Nat
         /\ \A v \in prev_versions(r, ps) : v <= max_version(r, ps)
<1> DEFINE f == [i \in 1 .. Len(ps) |-> state[ps[i]][r].ver]
<1>1. Len(ps) \in Nat /\ DOMAIN ps = 1 .. Len(ps) /\ \A i \in 1 .. Len(ps) : ps[i] \in Nodes
  BY LenProperties
<1>2. \A n \in Nodes : state[n][r].ver \in Nat
  BY DEF TypeOK, RegState
<1>3. f \in [1 .. Len(ps) -> Nat]
  BY <1>1, <1>2
<1>4. PICK b \in Nat : \A i \in 1 .. Len(ps) : f[i] <= b
  <2> HIDE DEF f
  <2> QED
    BY <1>1, <1>3, ListBounded
<1>5. \A v \in prev_versions(r, ps) : v \in Nat /\ v <= b
  <2>1. TAKE v \in prev_versions(r, ps)
  <2>2. PICK q \in Range(ps) : v = state[q][r].ver
    BY DEF prev_versions
  <2>3. PICK i \in 1 .. Len(ps) : q = ps[i]
    BY <1>1 DEF Range
  <2> QED
    BY <1>1, <1>2, <1>4, <2>2, <2>3
<1>6. \E m \in prev_versions(r, ps) : \A v \in prev_versions(r, ps) : v <= m
  BY <1>5, NatMax
<1> QED
  BY <1>5, <1>6 DEF max_version

\* A register that is merged has an arriving version, and is a register.
LEMMA MergedArrives ==
  ASSUME NEW st, NEW ps, NEW r \in Merged(st, ps)
  PROVE  r \in Regs /\ r \in ScalarSet /\ prev_versions(r, ps) # {}
  BY DEF Merged, Regs

\* A merged state has a text and a version for every register.
LEMMA MergedStateType ==
  ASSUME TypeOK, NEW ps \in Seq(Nodes), NEW st \in [Regs -> RegState]
  PROVE  MergedState(st, ps) \in [Regs -> RegState]
<1> DEFINE M == Merged(st, ps)
<1>1. ASSUME NEW r \in M
      PROVE  [text |-> Var(variable(r, M)), ver |-> max_version(r, ps) + 1] \in RegState
  <2>1. max_version(r, ps) \in Nat
    BY MergedArrives, MaxVersion
  <2>2. variable(r, M) \in Nat
    BY VariableType DEF TypeOK
  <2> QED
    BY <2>1, <2>2 DEF RegState, Text, Var, Kinds
<1> QED
  BY <1>1 DEF MergedState

\* The tables of names keep their types through a merge.
LEMMA MergeNaming ==
  ASSUME TypeOK, NEW ps \in Seq(Nodes), NEW st, NEW vs \in [Regs -> Nat],
         update_reg_version(st, ps, vs)
  PROVE  /\ num_of_var' \in Nat /\ versions' \in [Regs -> Nat]
         /\ Naming(variables)' /\ Naming(checked_variables)'
<1> DEFINE M == Merged(st, ps)
<1>1. \A r \in M : r \in Regs /\ r \in ScalarSet /\ max_version(r, ps) \in Nat
  BY MergedArrives, MaxVersion
<1>2. \A r : variable(r, M) \in Nat
  BY VariableType DEF TypeOK
<1>3. \A r \in M : PrevKeys(r, ps) \subseteq ScalarSet \X Nat
  <2>1. \A n \in Nodes, r \in Regs : state[n][r].ver \in Nat
    BY DEF TypeOK, RegState
  <2>2. Range(ps) \subseteq Nodes
    BY LenProperties DEF Range
  <2> QED
    BY <1>1, <2>1, <2>2 DEF PrevKeys, prev_versions
<1>4. num_of_var' \in Nat /\ versions' \in [Regs -> Nat]
  BY <1>1, MergedCount DEF update_reg_version, TypeOK
<1>5. Naming(checked_variables)'
  <2> DEFINE new == {<<r, max_version(r, ps) + 1>> : r \in M}
  <2>1. new \subseteq ScalarSet \X Nat
    BY <1>1
  <2>2. DOMAIN checked_variables \subseteq ScalarSet \X Nat
        /\ \A k \in DOMAIN checked_variables : checked_variables[k] \in Nat
    BY DEF TypeOK, Naming
  <2>3. checked_variables' =
          [k \in DOMAIN checked_variables \cup new |->
             IF k \in new \/ (k[1] \in M /\ k \in PrevKeys(k[1], ps))
             THEN variable(k[1], M) ELSE checked_variables[k]]
    BY DEF update_reg_version, MergeChecked
  <2>4. ASSUME NEW k \in DOMAIN checked_variables \cup new PROVE checked_variables'[k] \in Nat
    BY <1>2, <2>2, <2>3, <2>4
  <2> HIDE DEF new, M
  <2> QED
    BY <2>1, <2>2, <2>3, <2>4 DEF Naming
<1>6. Naming(variables)'
  <2> DEFINE prev == UNION {PrevKeys(r, ps) : r \in M}
             Renamed(v) == IF \E r \in M : v \in OldVars(r, ps)
                           THEN variable(CHOOSE r \in M : v \in OldVars(r, ps), M) ELSE v
  <2>1. prev \subseteq ScalarSet \X Nat
    BY <1>3
  <2>2. DOMAIN variables \subseteq ScalarSet \X Nat
        /\ \A k \in DOMAIN variables : variables[k] \in Nat
    BY DEF TypeOK, Naming
  <2>3. \A v \in Nat : Renamed(v) \in Nat
    BY <1>2
  <2>4. variables' = [k \in DOMAIN variables \cup prev |->
                        IF k \in prev THEN variable(k[1], M) ELSE Renamed(variables[k])]
    BY DEF update_reg_version, MergeVariables
  <2> HIDE DEF prev, Renamed, M
  <2>5. ASSUME NEW k \in DOMAIN variables \cup prev PROVE variables'[k] \in Nat
    BY <1>2, <2>2, <2>3, <2>4
  <2> QED
    BY <2>1, <2>2, <2>4, <2>5 DEF Naming
<1> QED
  BY <1>4, <1>5, <1>6

\* A node's children stay nodes when one is added.
LEMMA AttachType ==
  ASSUME NEW S, NEW p \in Nodes, children[p] \in Seq(S), NEW T, NEW ps \in Seq(T), NEW n \in S
  PROVE  Attach(p, ps, n) \in Seq(S)
<1> DEFINE Places == {j \in DOMAIN ps : ps[j] = p}
           k == Cardinality(Places)
<1>1. DOMAIN ps = 1 .. Len(ps) /\ Len(ps) \in Nat
  BY LenProperties
<1>2. IsFiniteSet(1 .. Len(ps))
  BY <1>1, FS_Interval
<1>3. IsFiniteSet(Places)
  BY <1>1, <1>2, FS_Subset
<1>4. k \in Nat
  BY <1>3, FS_CardinalityType
<1> HIDE DEF k
<1>5. [i \in 1 .. k |-> n] \in Seq(S)
  BY <1>4
<1>6. children[p] \o [i \in 1 .. k |-> n] \in Seq(S)
  BY <1>5, ConcatProperties
<1> QED
  BY <1>6 DEF Attach, k

\* The types of the tables that EmitNode changes.
GraphType ==
  /\ instruction \in Seq(Opcodes) /\ Len(instruction) > 0
  /\ parent \in [Nodes -> Seq(Nodes)]
  /\ children \in [Nodes -> Seq(Nodes)]
  /\ mask \in [Nodes -> Condition]
  /\ state \in [Nodes -> [Regs -> RegState]]
NamingType ==
  /\ versions \in [Regs -> Nat]
  /\ num_of_var \in Nat
  /\ Naming(variables) /\ Naming(checked_variables)

\* A new instruction makes one new node.
LEMMA NewNode ==
  ASSUME TypeOK, NEW op, op \in Opcodes, instruction' = Append(instruction, op)
  PROVE  /\ Len(instruction) \in Nat /\ Len(instruction)' = Len(instruction) + 1
         /\ Nodes' = 1 .. Len(instruction) + 1 /\ Nodes = 1 .. Len(instruction)
         /\ Nodes \subseteq Nodes' /\ Len(instruction) + 1 \in Nodes'
         /\ instruction' \in Seq(Opcodes) /\ Len(instruction)' > 0
         /\ \A i \in Nodes : instruction'[i] = instruction[i]
         /\ instruction'[Len(instruction) + 1] = op
  BY AppendProperties DEF TypeOK, Nodes

\* Emitting a node keeps the types of the graph and of the names.
LEMMA EmitType ==
  ASSUME TypeOK, NEW op \in Opcodes, NEW ps \in Seq(Nodes), NEW st \in [Regs -> RegState],
         NEW vs \in [Regs -> Nat], NEW mk \in Condition, EmitNode(op, ps, st, vs, mk)
  PROVE  GraphType' /\ NamingType' /\ Nodes \subseteq Nodes' /\ Len(instruction) + 1 \in Nodes'
<1> DEFINE n == Len(instruction) + 1
<1>1. instruction' = Append(instruction, op)
  BY DEF EmitNode
<1>2. /\ Len(instruction) \in Nat /\ Nodes' = 1 .. n /\ Nodes = 1 .. Len(instruction)
      /\ Nodes \subseteq Nodes' /\ n \in Nodes'
      /\ instruction' \in Seq(Opcodes) /\ Len(instruction)' > 0
  BY <1>1, NewNode
<1>3. parent' \in [Nodes' -> Seq(Nodes')]
  <2>1. parent \in [1 .. Len(instruction) -> Seq(Nodes')]
    BY <1>2, SeqMonotonic DEF TypeOK
  <2>2. ps \in Seq(Nodes')
    BY <1>2, SeqMonotonic
  <2> QED
    BY <1>2, <2>1, <2>2, AppendOne DEF EmitNode
<1>4. children' \in [Nodes' -> Seq(Nodes')]
  <2>0. \A p \in Nodes : children[p] \in Seq(Nodes)
    BY DEF TypeOK
  <2>1. \A p \in Nodes : children[p] \in Seq(Nodes')
    BY <1>2, <2>0, SeqMonotonic
  <2>2. \A p \in Nodes : Attach(p, ps, n) \in Seq(Nodes')
    BY <1>2, <2>1, AttachType
  <2>3. [p \in Nodes |-> Attach(p, ps, n)] \in [1 .. Len(instruction) -> Seq(Nodes')]
    BY <1>2, <2>2
  <2>4. <<>> \in Seq(Nodes')
    OBVIOUS
  <2>5. children' = Append([p \in Nodes |-> Attach(p, ps, n)], <<>>)
    BY DEF EmitNode
  <2> QED
    BY <1>2, <2>3, <2>4, <2>5, AppendOne
<1>5. mask' \in [Nodes' -> Condition]
  BY <1>2, AppendOne DEF EmitNode, TypeOK
<1>6. state' \in [Nodes' -> [Regs -> RegState]]
  <2>1. PICK s \in [Regs -> RegState] : state' = Append(state, s)
    BY MergedStateType DEF EmitNode
  <2> QED
    BY <1>2, <2>1, AppendOne DEF TypeOK
<1>7. NamingType'
  <2>1. CASE Len(ps) > 1
    <3>1. update_reg_version(st, ps, vs)
      BY <2>1 DEF EmitNode
    <3> QED
      BY <3>1, MergeNaming DEF NamingType
  <2>2. CASE ~(Len(ps) > 1)
    BY <2>2 DEF EmitNode, NamingType, TypeOK, Naming
  <2> QED
    BY <2>1, <2>2
<1> QED
  BY <1>2, <1>3, <1>4, <1>5, <1>6, <1>7 DEF GraphType

\* What EmitNode leaves alone keeps its type over the larger set of nodes.
RestType ==
  /\ exec_registers \in [Regs -> Condition]
  /\ exec_known \in SUBSET Regs
  /\ masked_blocks \in Seq(Mask) /\ Len(masked_blocks) > 0
  /\ to_node \in [Labels -> Nodes \cup {0}]
  /\ from_node \in [Labels -> Seq(Nodes)]
  /\ back_edges \in SUBSET Nodes
  /\ outcome \in {"running", "done", "MissingRegister", "AssertionError"}

\* The three parts make up the type invariant.
LEMMA TypeParts == TypeInv <=> GraphType /\ NamingType /\ RestType
  BY DEF TypeInv, TypeOK, GraphType, NamingType, RestType, Mask

\* And so in the next state.
LEMMA TypePartsNext == TypeInv' <=> GraphType' /\ NamingType' /\ RestType'
  BY DEF TypeInv, TypeOK, GraphType, NamingType, RestType, Mask

\* An instruction that is no branch and no label keeps the types of the branch tables.
LEMMA JumpsType ==
  ASSUME RestType, Nodes \subseteq Nodes', UNCHANGED jumps
  PROVE  /\ to_node' \in [Labels -> Nodes' \cup {0}]
         /\ from_node' \in [Labels -> Seq(Nodes')]
         /\ back_edges' \in SUBSET Nodes'
<1>1. \A l \in Labels : from_node[l] \in Seq(Nodes')
  BY SeqMonotonic DEF RestType
<1> QED
  BY <1>1 DEF RestType, jumps

\* A stack that does not change is a stack over the larger set of nodes.
LEMMA StackType ==
  ASSUME RestType, Nodes \subseteq Nodes', masked_blocks' = masked_blocks
  PROVE  masked_blocks' \in Seq(Mask') /\ Len(masked_blocks)' > 0
<1>1. Mask \subseteq Mask'
  BY DEF Mask
<1> QED
  BY <1>1, SeqMonotonic DEF RestType

\* The parents of the next node are nodes.
LEMMA ParentsType ==
  ASSUME TypeOK
  PROVE  parents \in Seq(Nodes) /\ last_node \in Nodes
<1>1. last_node \in Nodes
  BY DEF TypeOK, Nodes, last_node
<1> QED
  BY <1>1 DEF parents

\* The state, the condition and the texts of the newest node.
LEMMA LastTypes ==
  ASSUME TypeOK
  PROVE  /\ state[last_node] \in [Regs -> RegState]
         /\ mask[last_node] \in Condition
         /\ versions \in [Regs -> Nat]
         /\ \A r \in Regs : state[last_node][r].text \in Text
  BY ParentsType DEF TypeOK, RegState

\* An instruction that defines a register.
LEMMA DefineType ==
  ASSUME TypeOK, NEW op \in Opcodes, NEW d \in Regs, NEW txt \in Text, Define(op, d, txt)
  PROVE  GraphType' /\ NamingType' /\ Nodes \subseteq Nodes' /\ Len(instruction) + 1 \in Nodes'
<1>1. SetReg(state[last_node], d, txt) \in [Regs -> RegState]
  BY LastTypes DEF SetReg, RegState
<1>2. Bump(d) \in [Regs -> Nat]
  BY LastTypes DEF Bump
<1> QED
  BY <1>1, <1>2, LastTypes, ParentsType, EmitType DEF Define

\* Defining a register and its condition keeps all types.
LEMMA DefinesOK ==
  ASSUME TypeInv, NEW op \in Opcodes, NEW d \in Regs, NEW txt \in Text, Define(op, d, txt),
         \/ UNCHANGED execs
         \/ \E C \in Condition : SetExec(d, C),
         UNCHANGED <<jumps, masked_blocks, outcome>>
  PROVE  TypeInv'
<1>1. TypeOK /\ RestType
  BY TypeParts DEF TypeInv
<1>2. GraphType' /\ NamingType' /\ Nodes \subseteq Nodes'
  BY <1>1, DefineType
<1>3. exec_registers' \in [Regs -> Condition] /\ exec_known' \in SUBSET Regs
  BY <1>1 DEF RestType, SetExec, execs
<1>4. RestType'
  BY <1>1, <1>2, <1>3, JumpsType, StackType DEF RestType
<1> QED
  BY <1>2, <1>4, TypePartsNext

\* A wrapped text is a text and not the empty one.
LEMMA WrapType == ASSUME NEW c \in Text PROVE Wrap(c) \in Text /\ Wrap(c) # DEFAULT
  BY DEF Wrap, Text, DEFAULT

\* A negation is a text.
LEMMA NotType == ASSUME NEW c \in Text PROVE make_not(c) \in Text
  BY DEF make_not, Wrap, Text

\* The last text of a chain is a text, the empty one for the default condition.
LEMMA TopType == ASSUME NEW C \in Condition PROVE top(C) \in Text
<1>1. DEFAULT \in Text
  BY DEF DEFAULT, Text, Kinds
<1> QED
  BY <1>1 DEF top, Condition

\* A chain and one more text is a chain.
LEMMA AndType == ASSUME NEW C \in Condition, NEW c \in Text PROVE ExecAnd(C, c) \in Condition
  BY DEF ExecAnd, from_conditions, Condition

\* A join of chains is a chain, in the fallback too.
LEMMA OrType == ASSUME NEW C \in Condition, NEW D \in Condition PROVE ExecOr(C, D) \in Condition
<1>1. Characters \in Condition
  BY DEF Characters, Condition, Text, DEFAULT, Kinds
<1> QED
  BY <1>1 DEF ExecOr, sibling_parent, from_conditions, Condition

\* The else of a chain is a chain.
LEMMA XorType ==
  ASSUME NEW C \in Condition, NEW D \in Condition, xor_defined(C, D)
  PROVE  ExecXor(C, D) \in Condition
<1>1. ASSUME NEW A \in Condition, NEW B \in Condition, Extends(A, B) PROVE xor(A, B) \in Condition
  <2>1. (CHOOSE c \in A : A \ B = {c}) \in Text
    BY <1>1 DEF Extends, Condition
  <2> QED
    BY <2>1, NotType DEF xor, from_conditions, Condition
<1> QED
  BY <1>1 DEF ExecXor, xor_defined, Extends, StrictSubset

\* An exception changes nothing but the outcome.
LEMMA FailType ==
  ASSUME TypeInv, NEW x \in {"MissingRegister", "AssertionError"}, Fail(x)
  PROVE  TypeInv'
<1>1. GraphType /\ NamingType /\ RestType
  BY TypeParts
<1>2. GraphType'
  BY <1>1 DEF Fail, GraphType, graph, Nodes
<1>3. NamingType'
  BY <1>1 DEF Fail, NamingType, naming, Naming
<1>4. RestType'
  BY <1>1 DEF Fail, RestType, execs, jumps, graph, Nodes, Mask
<1> QED
  BY <1>2, <1>3, <1>4, TypePartsNext

------------------------------------------------------------------------------
(***************************************************************************)
(* Masks.                                                                  *)
(***************************************************************************)
\* _close_open_masks stops inside the stack.
LEMMA KeptType ==
  ASSUME RestType, NEW C
  PROVE  /\ Kept(C) \in 1 .. Len(masked_blocks)
         /\ Kept(C) > 1 => ~Closable(Kept(C), C)
         /\ \A i \in Kept(C) + 1 .. Len(masked_blocks) : Closable(i, C)
<1> DEFINE Stops == {k \in 1 .. Len(masked_blocks) : k > 1 => ~Closable(k, C)}
<1>1. Len(masked_blocks) \in Nat /\ Len(masked_blocks) > 0
  BY LenProperties DEF RestType
<1>2. Stops \in SUBSET Nat /\ 1 \in Stops /\ \A k \in Stops : k <= Len(masked_blocks)
  BY <1>1
<1>3. PICK m \in Stops : \A k \in Stops : k <= m
  <2> HIDE DEF Stops
  <2> QED
    BY <1>1, <1>2, NatMax
<1>4. \A i \in m + 1 .. Len(masked_blocks) : Closable(i, C)
  BY <1>1, <1>3
<1>5. \E k \in 1 .. Len(masked_blocks) :
        /\ k > 1 => ~Closable(k, C)
        /\ \A i \in k + 1 .. Len(masked_blocks) : Closable(i, C)
  BY <1>3, <1>4
<1> QED
  BY <1>5 DEF Kept

\* A mask of the stack, and the node it contributes when it is closed.
LEMMA StackEntry ==
  ASSUME RestType, NEW i \in 1 .. Len(masked_blocks)
  PROVE  /\ masked_blocks[i] \in Mask /\ masked_blocks[i].change_mask \in Nodes
         /\ ClosedParent(masked_blocks[i]) \in Nodes
<1>1. masked_blocks[i] \in Mask
  BY ElementOfSeq DEF RestType
<1> QED
  BY <1>1 DEF Mask, ClosedParent, no_parent

\* The nodes that closing masks joins are nodes.
LEMMA ParentsOfClosedType ==
  ASSUME RestType, NEW ps \in Seq(Nodes), NEW C
  PROVE  ParentsOfClosed(ps, C) \in Seq(Nodes)
<1> DEFINE k == Len(masked_blocks) - Kept(C)
<1>1. Len(masked_blocks) \in Nat /\ Kept(C) \in 1 .. Len(masked_blocks)
  BY KeptType, LenProperties DEF RestType
<1>2. k \in Nat /\ \A i \in 1 .. k : Len(masked_blocks) - i + 1 \in 1 .. Len(masked_blocks)
  BY <1>1
<1>3. \A i \in 1 .. k : ClosedParent(masked_blocks[Len(masked_blocks) - i + 1]) \in Nodes
  BY <1>2, StackEntry
<1>4. ClosedParents(C) \in Seq(Nodes)
  <2>1. ClosedParents(C) \in [1 .. k -> Nodes]
    BY <1>3 DEF ClosedParents
  <2> HIDE DEF k
  <2> QED
    BY <1>2, <2>1
<1>5. ClosedParents(C) # <<>> => Tail(ClosedParents(C)) \in Seq(Nodes)
  BY <1>4, HeadTailProperties
<1> QED
  BY <1>4, <1>5, ConcatProperties DEF ParentsOfClosed

\* What is left of the stack, and what is pushed on it.
LEMMA PrefixType ==
  ASSUME NEW S, NEW s \in Seq(S), NEW k \in 1 .. Len(s)
  PROVE  /\ SubSeq(s, 1, k) \in Seq(S) /\ Len(SubSeq(s, 1, k)) = k
         /\ \A i \in 1 .. k : SubSeq(s, 1, k)[i] = s[i]
<1>1. \A i \in 1 .. k : s[i] \in S
  BY LenProperties
<1>2. /\ SubSeq(s, 1, k) \in Seq(S)
      /\ Len(SubSeq(s, 1, k)) = IF 1 <= k THEN k - 1 + 1 ELSE 0
      /\ \A i \in 1 .. k - 1 + 1 : SubSeq(s, 1, k)[i] = s[1 + i - 1]
  BY <1>1, SubSeqProperties
<1>3. \A i \in 1 .. k : i \in 1 .. k - 1 + 1 /\ 1 + i - 1 = i
  OBVIOUS
<1> QED
  BY <1>2, <1>3

\* find_open_mask_index gives 0 or a position of the stack below the bound.
LEMMA FoundType ==
  ASSUME RestType, NEW C, NEW end \in Int, end <= Len(masked_blocks)
  PROVE  LET i == find_open_mask_index(C, end)
         IN  i = 0 \/ (i \in 1 .. end /\ mask[masked_blocks[i].change_mask] = C)
<1> DEFINE found == {i \in 1 .. end : mask[masked_blocks[i].change_mask] = C}
<1>1. CASE found = {}
  BY <1>1 DEF find_open_mask_index
<1>2. CASE found # {}
  <2>1. found \in SUBSET Nat /\ end \in Nat /\ \A i \in found : i <= end
    BY <1>2
  <2>2. \E i \in found : \A j \in found : j <= i
    <3> HIDE DEF found
    <3> QED
      BY <1>2, <2>1, NatMax
  <2>3. find_open_mask_index(C, end) = CHOOSE i \in found : \A j \in found : j <= i
    BY <1>2 DEF find_open_mask_index
  <2>4. find_open_mask_index(C, end) \in found
    <3> HIDE DEF found
    <3> QED
      BY <2>2, <2>3
  <2> QED
    BY <2>4
<1> QED
  BY <1>1, <1>2

\* A prefix of the stack is a stack over the larger set of nodes.
LEMMA PopType ==
  ASSUME RestType, Nodes \subseteq Nodes', NEW k \in 1 .. Len(masked_blocks)
  PROVE  /\ SubSeq(masked_blocks, 1, k) \in Seq(Mask')
         /\ Len(SubSeq(masked_blocks, 1, k)) = k
<1>1. Mask \subseteq Mask'
  BY DEF Mask
<1>2. masked_blocks \in Seq(Mask')
  BY <1>1, SeqMonotonic DEF RestType
<1> QED
  BY <1>2, PrefixType

\* A sequence and one more element.
LEMMA PushType ==
  ASSUME NEW S, NEW s \in Seq(S), NEW m \in S
  PROVE  Append(s, m) \in Seq(S) /\ Len(Append(s, m)) > 0
  BY AppendProperties, LenProperties

\* The mask changes keep the type of the graph, the names and the stack.
MaskStepType ==
  /\ GraphType' /\ NamingType' /\ Nodes \subseteq Nodes'
  /\ masked_blocks' \in Seq(Mask') /\ Len(masked_blocks)' > 0

\* Entering a mask pushes it.
LEMMA EnterType ==
  ASSUME TypeInv, NEW C \in Condition, EnterMask(C)
  PROVE  MaskStepType
<1>1. TypeOK /\ RestType
  BY TypeParts DEF TypeInv
<1>2. EmitNode("change_mask", parents, state[last_node], versions, C)
  BY DEF EnterMask
<1>3. GraphType' /\ NamingType' /\ Nodes \subseteq Nodes' /\ Len(instruction) + 1 \in Nodes'
  BY <1>1, <1>2, LastTypes, ParentsType, EmitType DEF Opcodes
<1>4. OpenMask(last_node + 1, no_parent) \in Mask'
  BY <1>3 DEF OpenMask, Mask, last_node
<1>5. masked_blocks \in Seq(Mask')
  <2>1. Mask \subseteq Mask'
    BY <1>3 DEF Mask
  <2> QED
    BY <1>1, <2>1, SeqMonotonic DEF RestType
<1>6. masked_blocks' \in Seq(Mask') /\ Len(masked_blocks)' > 0
  BY <1>4, <1>5, PushType DEF EnterMask
<1> QED
  BY <1>3, <1>6 DEF MaskStepType

\* Closing masks: a mask change to a weaker condition, and the end of the masked code.
LEMMA CloseType ==
  ASSUME TypeInv, NEW op \in Opcodes, NEW C \in Condition,
         EmitNode(op, ParentsOfClosed(parents, C), state[last_node], versions, C),
         masked_blocks' = SubSeq(masked_blocks, 1, Kept(C))
  PROVE  MaskStepType
<1>1. TypeOK /\ RestType
  BY TypeParts DEF TypeInv
<1>2. ParentsOfClosed(parents, C) \in Seq(Nodes)
  BY <1>1, ParentsType, ParentsOfClosedType
<1>3. GraphType' /\ NamingType' /\ Nodes \subseteq Nodes'
  BY <1>1, <1>2, LastTypes, EmitType
<1>4. masked_blocks' \in Seq(Mask') /\ Len(masked_blocks)' > 0
  BY <1>1, <1>3, KeptType, PopType
<1> QED
  BY <1>3, <1>4 DEF MaskStepType

\* A mask change that is no enter, close or else leaves the stack alone.
LEMMA OtherType ==
  ASSUME TypeInv, NEW C \in Condition, OtherMask(C)
  PROVE  MaskStepType
<1>1. TypeOK /\ RestType
  BY TypeParts DEF TypeInv
<1>2. EmitNode("change_mask", parents, state[last_node], versions, C) /\ masked_blocks' = masked_blocks
  BY DEF OtherMask
<1>3. GraphType' /\ NamingType' /\ Nodes \subseteq Nodes'
  BY <1>1, <1>2, LastTypes, ParentsType, EmitType DEF Opcodes
<1> QED
  BY <1>1, <1>2, <1>3, StackType DEF MaskStepType

\* An else keeps a part of the stack that is not empty and pushes itself.
LEMMA ElseType ==
  ASSUME TypeInv, NEW C \in Condition, ElseMask(C)
  PROVE  MaskStepType
<1> DEFINE prev == mask[last_node]
           i == find_open_mask_index(prev, Len(masked_blocks))
           j == find_open_mask_index(sibling_parent(prev, C), i - 1)
           cm == masked_blocks[i].change_mask
<1>1. TypeOK /\ RestType
  BY TypeParts DEF TypeInv
<1>2. Len(masked_blocks) \in Nat /\ Len(masked_blocks) > 0
  BY <1>1, LenProperties DEF RestType
<1>3. i = 0 \/ i \in 1 .. Len(masked_blocks)
  BY <1>1, <1>2, FoundType
<1> HIDE DEF i
<1>4. j = 0 \/ j \in 1 .. i - 1
  <2>1. i - 1 \in Int /\ i - 1 <= Len(masked_blocks)
    BY <1>2, <1>3
  <2> QED
    BY <1>1, <2>1, FoundType
<1> HIDE DEF j
<1>5. CASE i # 0
  <2>1. /\ EmitNode("change_mask", <<cm>>, state[cm], versions, C)
        /\ masked_blocks' = Append(SubSeq(masked_blocks, 1, ElseKept(i, j)),
                                   OpenMask(last_node + 1, last_node))
    BY <1>5 DEF ElseMask, i, j
  <2>2. cm \in Nodes
    BY <1>1, <1>3, <1>5, StackEntry
  <2>3. <<cm>> \in Seq(Nodes) /\ state[cm] \in [Regs -> RegState]
    BY <1>1, <2>2 DEF TypeOK
  <2>4. GraphType' /\ NamingType' /\ Nodes \subseteq Nodes' /\ Len(instruction) + 1 \in Nodes'
    BY <1>1, <2>1, <2>3, LastTypes, EmitType DEF Opcodes
  <2>5. ElseKept(i, j) \in 1 .. Len(masked_blocks)
    BY <1>2, <1>3, <1>4, <1>5 DEF ElseKept
  <2>6. OpenMask(last_node + 1, last_node) \in Mask'
    BY <1>1, <2>4, ParentsType DEF OpenMask, Mask, last_node
  <2>7. masked_blocks' \in Seq(Mask') /\ Len(masked_blocks)' > 0
    BY <1>1, <2>1, <2>4, <2>5, <2>6, PopType, PushType
  <2> QED
    BY <2>4, <2>7 DEF MaskStepType
<1>6. CASE i = 0
  <2>1. OtherMask(C)
    BY <1>6 DEF ElseMask, OtherMask, i
  <2> QED
    BY <2>1, OtherType
<1> QED
  BY <1>5, <1>6

\* A step that changes only the graph, the names and the stack.
LEMMA MaskStepOK ==
  ASSUME TypeInv, MaskStepType, UNCHANGED <<execs, jumps>>,
         outcome' \in {"running", "done", "MissingRegister", "AssertionError"}
  PROVE  TypeInv'
<1>1. RestType
  BY TypeParts
<1>2. RestType'
  BY <1>1, JumpsType DEF MaskStepType, RestType, execs
<1> QED
  BY <1>2, TypePartsNext DEF MaskStepType

------------------------------------------------------------------------------
(***************************************************************************)
(* Branches and labels.                                                    *)
(***************************************************************************)
\* A branch, to a label met before or still to come, keeps the types.
LEMMA BranchType ==
  ASSUME TypeInv, NEW op \in Opcodes, NEW l \in Labels, BranchTo(op, l)
  PROVE  TypeInv'
<1> DEFINE n == Len(instruction) + 1
           kids == [p \in Nodes |-> Attach(p, parents, n)]
<1>0. last_node + 1 = n
  BY DEF last_node
<1>1. TypeOK /\ GraphType /\ NamingType /\ RestType
  BY TypeParts DEF TypeInv
<1>2. instruction' = Append(instruction, op)
  BY DEF BranchTo
<1>3. /\ Len(instruction) \in Nat /\ Nodes' = 1 .. n /\ Nodes = 1 .. Len(instruction)
      /\ Nodes \subseteq Nodes' /\ n \in Nodes'
      /\ instruction' \in Seq(Opcodes) /\ Len(instruction)' > 0
  BY <1>1, <1>2, NewNode
<1>4. mask' \in [Nodes' -> Condition]
  BY <1>1, <1>3, LastTypes, AppendOne DEF BranchTo, TypeOK
<1>5. state' \in [Nodes' -> [Regs -> RegState]]
  BY <1>1, <1>3, LastTypes, AppendOne DEF BranchTo, TypeOK
<1>6. parents \in Seq(Nodes') /\ \A p \in Nodes : parent[p] \in Seq(Nodes')
  <2>1. parents \in Seq(Nodes) /\ \A p \in Nodes : parent[p] \in Seq(Nodes)
    BY <1>1, ParentsType DEF TypeOK
  <2> QED
    BY <1>3, <2>1, SeqMonotonic
<1>7. kids \in [1 .. Len(instruction) -> Seq(Nodes')]
  <2>0. \A p \in Nodes : children[p] \in Seq(Nodes)
    BY <1>1 DEF TypeOK
  <2>1. \A p \in Nodes : children[p] \in Seq(Nodes')
    BY <1>3, <2>0, SeqMonotonic
  <2>2. \A p \in Nodes : Attach(p, parents, n) \in Seq(Nodes')
    BY <1>3, <1>6, <2>1, AttachType
  <2> QED
    BY <1>3, <2>2
<1>8. to_node[l] \in Nodes \cup {0}
  BY <1>1 DEF RestType
<1>9. DOMAIN parent = Nodes /\ parent \in [1 .. Len(instruction) -> Seq(Nodes')]
  BY <1>1, <1>3, <1>6 DEF TypeOK
<1>10. \A k \in Labels : from_node[k] \in Seq(Nodes')
  <2>1. \A k \in Labels : from_node[k] \in Seq(Nodes)
    BY <1>1 DEF RestType
  <2> QED
    BY <1>3, <2>1, SeqMonotonic
<1> HIDE DEF n, kids
<1>11. /\ parent' \in [Nodes' -> Seq(Nodes')] /\ children' \in [Nodes' -> Seq(Nodes')]
       /\ from_node' \in [Labels -> Seq(Nodes')] /\ back_edges' \in SUBSET Nodes'
  <2>1. CASE to_node[l] # 0
    <3>1. /\ parent' = Append([parent EXCEPT ![to_node[l]] = Append(@, n)], parents)
          /\ children' = Append(kids, <<to_node[l]>>)
          /\ back_edges' = back_edges \cup {n}
          /\ from_node' = from_node
      BY <1>0, <2>1 DEF BranchTo, kids, BackEdges
    <3>2. Append(parent[to_node[l]], n) \in Seq(Nodes')
      BY <1>3, <1>6, <1>8, <2>1, PushType
    <3> DEFINE joined == [parent EXCEPT ![to_node[l]] = Append(@, n)]
    <3>3. joined \in [1 .. Len(instruction) -> Seq(Nodes')]
      BY <1>9, <3>2
    <3>4. parent' \in [Nodes' -> Seq(Nodes')]
      <4>1. parent' = Append(joined, parents)
        BY <3>1
      <4> HIDE DEF joined
      <4> QED
        BY <1>3, <1>6, <3>3, <4>1, AppendOne DEF n
    <3>5. <<to_node[l]>> \in Seq(Nodes')
      BY <1>3, <1>8, <2>1
    <3>6. children' \in [Nodes' -> Seq(Nodes')]
      BY <1>3, <1>7, <3>1, <3>5, AppendOne DEF n
    <3>7. from_node' \in [Labels -> Seq(Nodes')] /\ back_edges' \in SUBSET Nodes'
      BY <1>1, <1>3, <1>10, <3>1 DEF RestType
    <3> QED
      BY <3>4, <3>6, <3>7
  <2>2. CASE to_node[l] = 0
    <3>1. /\ parent' = Append(parent, parents)
          /\ children' = Append(kids, <<>>)
          /\ from_node' = [from_node EXCEPT ![l] = Append(@, n)]
          /\ back_edges' = back_edges
      BY <1>0, <2>2 DEF BranchTo, kids
    <3>2. parent' \in [Nodes' -> Seq(Nodes')]
      BY <1>3, <1>6, <1>9, <3>1, AppendOne DEF n
    <3>3. <<>> \in Seq(Nodes')
      OBVIOUS
    <3>4. children' \in [Nodes' -> Seq(Nodes')]
      BY <1>3, <1>7, <3>1, <3>3, AppendOne DEF n
    <3>5. Append(from_node[l], n) \in Seq(Nodes')
      BY <1>3, <1>10, PushType
    <3>6. from_node' \in [Labels -> Seq(Nodes')] /\ back_edges' \in SUBSET Nodes'
      BY <1>1, <1>3, <1>10, <3>1, <3>5 DEF RestType
    <3> QED
      BY <3>2, <3>4, <3>6
  <2> QED
    BY <2>1, <2>2
<1>12. UNCHANGED <<naming, execs, to_node, masked_blocks, outcome>>
  BY DEF BranchTo
<1>13. NamingType'
  BY <1>1, <1>12 DEF naming, NamingType, Naming
<1>14. masked_blocks' \in Seq(Mask') /\ Len(masked_blocks)' > 0
  BY <1>1, <1>3, <1>12, StackType
<1>15. RestType'
  BY <1>1, <1>3, <1>11, <1>12, <1>14 DEF RestType, execs
<1>16. GraphType'
  BY <1>3, <1>4, <1>5, <1>11 DEF GraphType
<1> QED
  BY <1>13, <1>15, <1>16, TypePartsNext

\* A label, with the branches that wait for it, keeps the types.
LEMMA LabelType ==
  ASSUME TypeInv, NEW l \in Labels, Label(l)
  PROVE  TypeInv'
<1> DEFINE from == IF from_node[l] = <<>> THEN last_node ELSE Last(from_node[l])
<1>1. TypeOK /\ GraphType /\ NamingType /\ RestType
  BY TypeParts DEF TypeInv
<1>2. from_node[l] \in Seq(Nodes)
  BY <1>1 DEF RestType
<1>3. parents \o from_node[l] \in Seq(Nodes)
  BY <1>1, <1>2, ParentsType, ConcatProperties
<1>4. from \in Nodes
  <2>1. from_node[l] # <<>> => from_node[l][Len(from_node[l])] \in Nodes
    BY <1>2, EmptySeq, LenProperties
  <2> QED
    BY <1>1, <2>1, ParentsType DEF Last
<1>5. state[from] \in [Regs -> RegState] /\ mask[from] \in Condition
  BY <1>1, <1>4 DEF TypeOK
<1>6. /\ EmitNode("label", parents \o from_node[l], state[from], versions, mask[from])
      /\ to_node' = [to_node EXCEPT ![l] = last_node + 1]
      /\ UNCHANGED <<execs, from_node, back_edges, masked_blocks, outcome>>
  BY DEF Label
<1>7. GraphType' /\ NamingType' /\ Nodes \subseteq Nodes' /\ Len(instruction) + 1 \in Nodes'
  BY <1>1, <1>3, <1>5, <1>6, LastTypes, EmitType DEF Opcodes
<1>8. masked_blocks' \in Seq(Mask') /\ Len(masked_blocks)' > 0
  BY <1>1, <1>6, <1>7, StackType
<1>9. to_node' \in [Labels -> Nodes' \cup {0}]
  BY <1>1, <1>6, <1>7 DEF RestType, last_node
<1>10. from_node' \in [Labels -> Seq(Nodes')]
  <2>1. \A k \in Labels : from_node[k] \in Seq(Nodes)
    BY <1>1 DEF RestType
  <2>2. \A k \in Labels : from_node[k] \in Seq(Nodes')
    BY <1>7, <2>1, SeqMonotonic
  <2> QED
    BY <1>1, <1>6, <2>2 DEF RestType
<1>11. RestType'
  BY <1>1, <1>6, <1>7, <1>8, <1>9, <1>10 DEF RestType, execs
<1> QED
  BY <1>7, <1>11, TypePartsNext

------------------------------------------------------------------------------
(***************************************************************************)
(* The type invariant.                                                     *)
(***************************************************************************)
\* The initial state has the types.
LEMMA InitType == Init => TypeInv
<1> SUFFICES ASSUME Init PROVE TypeInv
  OBVIOUS
<1>1. Len(instruction) = 1 /\ instruction \in Seq(Opcodes) /\ Nodes = {1}
  BY DEF Init, Nodes, Opcodes
<1>2. DEFAULT \in Text
  BY DEF DEFAULT, Text, Kinds
<1>3. InitialState \in [Regs -> RegState]
  BY <1>2 DEF InitialState, RegState
<1>4. GraphType
  <2>0. \A x \in Seq(Nodes) : <<x>> \in [{1} -> Seq(Nodes)]
    OBVIOUS
  <2>1. parent \in [Nodes -> Seq(Nodes)] /\ children \in [Nodes -> Seq(Nodes)]
    <3>1. <<>> \in Seq(Nodes)
      BY EmptySeq
    <3>2. parent = <<<<>>>> /\ children = <<<<>>>>
      BY DEF Init
    <3> QED
      BY <1>1, <2>0, <3>1, <3>2
  <2>2. mask \in [Nodes -> Condition] /\ state \in [Nodes -> [Regs -> RegState]]
    BY <1>1, <1>3 DEF Init, Condition
  <2> QED
    BY <1>1, <2>1, <2>2 DEF GraphType
<1>5. NamingType
  <2>1. Naming(<<>>)
    BY DEF Naming
  <2>2. versions \in [Regs -> Nat]
    BY DEF Init, InitialState
  <2> QED
    BY <2>1, <2>2 DEF Init, NamingType
<1>6. RestType
  <2>1. OpenMask(1, no_parent) \in Mask
    BY <1>1 DEF OpenMask, Mask
  <2>2. masked_blocks \in Seq(Mask) /\ Len(masked_blocks) > 0
    BY <2>1 DEF Init
  <2>3. exec_registers \in [Regs -> Condition] /\ exec_known \in SUBSET Regs
    BY DEF Init, Condition, Regs
  <2>4. /\ to_node \in [Labels -> Nodes \cup {0}] /\ from_node \in [Labels -> Seq(Nodes)]
        /\ back_edges \in SUBSET Nodes
    BY DEF Init
  <2> QED
    BY <2>2, <2>3, <2>4 DEF RestType, Init
<1> QED
  BY <1>4, <1>5, <1>6, TypeParts

\* Every instruction on predicates keeps the types.
LEMMA PredicateTypes ==
  ASSUME TypeInv, NEW d \in Regs, NEW s0 \in Regs, NEW s1 \in Regs,
         \/ \E i \in Comparisons : VCmp(d, i)
         \/ SMov(d, s0) \/ SNot(d, s0)
         \/ SAnd(d, s0, s1) \/ SOr(d, s0, s1) \/ SXor(d, s0, s1)
  PROVE  TypeInv'
<1>1. TypeOK /\ \A r \in Regs : exec_registers[r] \in Condition
  BY DEF TypeInv, TypeOK
<1>2. \A r \in Regs : state[last_node][r].text \in Text
  BY <1>1, LastTypes
<1>3. ASSUME NEW i \in Comparisons, VCmp(d, i) PROVE TypeInv'
  <2>1. Cmp(i) \in Text /\ {Cmp(i)} \in Condition
    BY ConstantsAssumption DEF Cmp, Text, Condition, DEFAULT, Kinds
  <2> QED
    BY <1>3, <2>1, DefinesOK DEF VCmp, Opcodes
<1>4. CASE SMov(d, s0)
  <2>1. CASE Fail("MissingRegister")
    BY <2>1, FailType
  <2>2. CASE ~Fail("MissingRegister")
    <3>1. /\ Define("s_mov_b64", d, state[last_node][s0].text)
          /\ SetExec(d, exec_registers[s0])
          /\ UNCHANGED <<jumps, masked_blocks, outcome>>
      BY <1>4, <2>2 DEF SMov
    <3> QED
      BY <1>1, <1>2, <3>1, DefinesOK DEF Opcodes
  <2> QED
    BY <2>1, <2>2
<1>5. CASE SNot(d, s0)
  <2> DEFINE negated == Wrap(state[last_node][s0].text)
  <2>1. negated \in Text /\ {negated} \in Condition
    BY <1>2, WrapType DEF Condition
  <2>2. CASE Fail("MissingRegister")
    BY <2>2, FailType
  <2>3. CASE ~Fail("MissingRegister")
    <3>1. /\ Define("s_not_b64", d, negated)
          /\ SetExec(d, {negated}) \/ UNCHANGED execs
          /\ UNCHANGED <<jumps, masked_blocks, outcome>>
      BY <1>5, <2>3 DEF SNot
    <3> HIDE DEF negated
    <3> QED
      BY <2>1, <3>1, DefinesOK DEF Opcodes
  <2> QED
    BY <2>2, <2>3
<1>6. CASE SAnd(d, s0, s1)
  <2>1. AndResult(s0, s1) \in Condition
    BY <1>1, <1>2, AndType DEF AndResult, AndLeft, AndRight
  <2>2. CASE Fail("MissingRegister")
    BY <2>2, FailType
  <2>3. CASE ~Fail("MissingRegister")
    <3>1. /\ Define("s_and_b64", d, top(AndResult(s0, s1)))
          /\ SetExec(d, AndResult(s0, s1))
          /\ UNCHANGED <<jumps, masked_blocks, outcome>>
      BY <1>6, <2>3 DEF SAnd
    <3> QED
      BY <2>1, <3>1, TopType, DefinesOK DEF Opcodes
  <2> QED
    BY <2>2, <2>3
<1>7. CASE SOr(d, s0, s1)
  <2> DEFINE C == ExecOr(exec_registers[s0], exec_registers[s1])
  <2>1. C \in Condition
    BY <1>1, OrType
  <2>2. CASE Fail("MissingRegister")
    BY <2>2, FailType
  <2>3. CASE ~Fail("MissingRegister")
    <3>1. /\ Define("s_or_b64", d, top(C)) /\ SetExec(d, C)
          /\ UNCHANGED <<jumps, masked_blocks, outcome>>
      BY <1>7, <2>3 DEF SOr
    <3> HIDE DEF C
    <3> QED
      BY <2>1, <3>1, TopType, DefinesOK DEF Opcodes
  <2> QED
    BY <2>2, <2>3
<1>8. CASE SXor(d, s0, s1)
  <2> DEFINE C == ExecXor(exec_registers[s0], exec_registers[s1])
  <2>1. CASE Fail("MissingRegister") \/ Fail("AssertionError")
    BY <2>1, FailType
  <2>2. CASE ~(Fail("MissingRegister") \/ Fail("AssertionError"))
    <3>1. /\ xor_defined(exec_registers[s0], exec_registers[s1])
          /\ Define("s_xor_b64", d, top(C)) /\ SetExec(d, C)
          /\ UNCHANGED <<jumps, masked_blocks, outcome>>
      BY <1>8, <2>2 DEF SXor
    <3>2. C \in Condition
      BY <1>1, <3>1, XorType
    <3> HIDE DEF C
    <3> QED
      BY <3>1, <3>2, TopType, DefinesOK DEF Opcodes
  <2> QED
    BY <2>1, <2>2
<1> QED
  BY <1>3, <1>4, <1>5, <1>6, <1>7, <1>8

\* Every other instruction keeps the types.
LEMMA PlainTypes ==
  ASSUME TypeInv, Plain \/ Unmask \/ EndPgm
  PROVE  TypeInv'
<1>1. TypeOK /\ RestType
  BY TypeParts DEF TypeInv
<1>2. CASE Plain
  <2>1. EmitNode("plain", parents, state[last_node], versions, mask[last_node])
    BY <1>2 DEF Plain
  <2>2. GraphType' /\ NamingType' /\ Nodes \subseteq Nodes'
    BY <1>1, <2>1, LastTypes, ParentsType, EmitType DEF Opcodes
  <2>3. MaskStepType
    BY <1>1, <1>2, <2>2, StackType DEF Plain, MaskStepType
  <2> QED
    BY <1>1, <1>2, <2>3, MaskStepOK DEF Plain, RestType
<1>3. ASSUME NEW op \in Opcodes, CloseAll(op), UNCHANGED outcome PROVE TypeInv'
  <2>1. {} \in Condition
    BY DEF Condition
  <2>2. MaskStepType
    BY <1>3, <2>1, CloseType DEF CloseAll
  <2> QED
    BY <1>1, <1>3, <2>2, MaskStepOK DEF CloseAll, RestType
<1> QED
  BY <1>2, <1>3 DEF Unmask, EndPgm, Opcodes

\* So does a computation into an ordinary register.
LEMMA ArithType ==
  ASSUME TypeInv, NEW d \in ScalarSet, Arith(d)
  PROVE  TypeInv'
<1>1. last_node + 1 \in Nat
  BY DEF TypeInv, TypeOK, last_node
<1>2. Value(last_node + 1) \in Text /\ d \in Regs
  BY <1>1 DEF Value, Text, Kinds, Regs
<1> QED
  BY <1>2, DefinesOK DEF Arith, Opcodes

\* And every change of the mask.
LEMMA ChangeMaskType ==
  ASSUME TypeInv, NEW p \in Preds, ChangeMask(p)
  PROVE  TypeInv'
<1> DEFINE C == exec_registers[p]
<1>1. RestType /\ C \in Condition
  BY TypeParts DEF RestType, Regs
<1> HIDE DEF C
<1>2. EnterMask(C) \/ CloseMask(C) \/ ElseMask(C) \/ OtherMask(C)
  BY DEF ChangeMask, C
<1>3. MaskStepType
  BY <1>1, <1>2, EnterType, CloseType, ElseType, OtherType DEF CloseMask, Opcodes
<1> QED
  BY <1>1, <1>3, MaskStepOK DEF ChangeMask, RestType

\* The end of the list changes nothing but the outcome.
LEMMA FinishType ==
  ASSUME TypeInv, Finish \/ UNCHANGED vars
  PROVE  TypeInv'
<1>1. GraphType /\ NamingType /\ RestType
  BY TypeParts
<1>2. UNCHANGED <<graph, naming, execs, jumps, masked_blocks>> /\ outcome' \in {"done", outcome}
  BY DEF Finish, vars
<1>3. GraphType' /\ NamingType'
  BY <1>1, <1>2 DEF GraphType, NamingType, graph, naming, Nodes, Naming
<1>4. RestType'
  BY <1>1, <1>2 DEF RestType, execs, jumps, graph, Nodes, Mask
<1> QED
  BY <1>3, <1>4, TypePartsNext

\* The graph, the tables of names and the stack keep their types, and the stack is never
\* empty, whatever the instruction list: _close_open_masks and the else case never remove
\* the mask of the root.
THEOREM TypeCorrect == Spec => []TypeInv
<1>1. TypeInv /\ [Next]_vars => TypeInv'
  <2> SUFFICES ASSUME TypeInv, [Next]_vars PROVE TypeInv'
    OBVIOUS
  <2>1. CASE Instruction
    <3>1. CASE \E d \in Regs, i \in Comparisons : VCmp(d, i)
      BY <3>1, PredicateTypes
    <3>2. CASE \E d, s \in Regs : SMov(d, s) \/ SNot(d, s)
      BY <3>2, PredicateTypes
    <3>3. CASE \E d, s0, s1 \in Regs : SAnd(d, s0, s1) \/ SOr(d, s0, s1) \/ SXor(d, s0, s1)
      BY <3>3, PredicateTypes
    <3>4. CASE \E d \in ScalarSet : Arith(d)
      BY <3>4, ArithType
    <3>5. CASE Plain \/ Unmask \/ EndPgm
      BY <3>5, PlainTypes
    <3>6. CASE \E p \in Preds : ChangeMask(p)
      BY <3>6, ChangeMaskType
    <3>7. CASE \E l \in Labels : Branch(l) \/ BranchNot(l) \/ Jump(l) \/ Label(l)
      BY <3>7, BranchType, LabelType DEF Branch, BranchNot, Jump, Opcodes
    <3> QED
      BY <2>1, <3>1, <3>2, <3>3, <3>4, <3>5, <3>6, <3>7 DEF Instruction
  <2>2. CASE Finish \/ UNCHANGED vars
    BY <2>2, FinishType
  <2> QED
    BY <2>1, <2>2 DEF Next
<1> QED
  BY <1>1, InitType, PTL DEF Spec

\* The same for the type invariant the runs check.
THEOREM TypeOKCorrect == Spec => []TypeOK
<1>1. TypeInv => TypeOK
  BY DEF TypeInv
<1> QED
  BY <1>1, TypeCorrect, PTL

------------------------------------------------------------------------------
(***************************************************************************)
(* The shape of the graph and of the stack of open masks.                  *)
(***************************************************************************)
\* What EmitNode does to the graph, node by node.
Emits(op, ps, mk) ==
  /\ Nodes' = 1 .. last_node + 1 /\ Nodes = 1 .. last_node /\ last_node \in Nodes
  /\ instruction'[last_node + 1] = op /\ \A k \in Nodes : instruction'[k] = instruction[k]
  /\ parent'[last_node + 1] = ps /\ \A k \in Nodes : parent'[k] = parent[k]
  /\ children'[last_node + 1] = <<>>
  /\ \A k \in Nodes : children'[k] = Attach(k, ps, last_node + 1)
  /\ mask'[last_node + 1] = mk /\ \A k \in Nodes : mask'[k] = mask[k]

\* One new node, after all the others, attached to ps on both sides.
LEMMA EmitEmits ==
  ASSUME TypeOK, NEW op \in Opcodes, NEW ps \in Seq(Nodes), NEW mk \in Condition,
         NEW st, NEW vs, EmitNode(op, ps, st, vs, mk)
  PROVE  Emits(op, ps, mk)
<1>1. instruction' = Append(instruction, op)
  BY DEF EmitNode
<1>2. /\ Len(instruction) \in Nat
      /\ Nodes' = 1 .. last_node + 1 /\ Nodes = 1 .. last_node /\ last_node \in Nodes
      /\ \A k \in Nodes : instruction'[k] = instruction[k]
      /\ instruction'[last_node + 1] = op
  BY <1>1, NewNode, ParentsType DEF last_node
<1>3. parent'[last_node + 1] = ps /\ \A k \in Nodes : parent'[k] = parent[k]
  <2>1. parent \in [1 .. last_node -> Seq(Nodes)]
    BY <1>2 DEF TypeOK
  <2> QED
    BY <1>2, <2>1, AppendOne DEF EmitNode, last_node
<1>4. mask'[last_node + 1] = mk /\ \A k \in Nodes : mask'[k] = mask[k]
  <2>1. mask \in [1 .. last_node -> Condition]
    BY <1>2 DEF TypeOK
  <2> QED
    BY <1>2, <2>1, AppendOne DEF EmitNode, last_node
<1>5. /\ children'[last_node + 1] = <<>>
      /\ \A k \in Nodes : children'[k] = Attach(k, ps, last_node + 1)
  <2> DEFINE kids == [p \in Nodes |-> Attach(p, ps, last_node + 1)]
  <2>0. \A p \in Nodes : children[p] \in Seq(Nodes)
    BY DEF TypeOK
  <2>1. \A p \in Nodes : children[p] \in Seq(Nodes') /\ last_node + 1 \in Nodes'
    BY <1>2, <2>0, SeqMonotonic
  <2>2. kids \in [1 .. last_node -> Seq(Nodes')]
    BY <1>2, <2>1, AttachType
  <2>3. children' = Append(kids, <<>>)
    BY DEF EmitNode, last_node
  <2>4. <<>> \in Seq(Nodes') /\ \A k \in Nodes : kids[k] = Attach(k, ps, last_node + 1)
    BY EmptySeq
  <2> HIDE DEF kids
  <2> QED
    BY <1>2, <2>2, <2>3, <2>4, AppendOne DEF last_node
<1> QED
  BY <1>2, <1>3, <1>4, <1>5 DEF Emits

------------------------------------------------------------------------------
(***************************************************************************)
(* What a step of the pass is: nothing, a node outside the masks, a change *)
(* of the mask, or a branch.                                               *)
(***************************************************************************)
\* The parents of a node that does not close masks: the newest node, or for a label the
\* branches that wait for it too.
PlainStep ==
  \E op \in Opcodes \ {"change_mask", "unmask", "s_endpgm", "label", "s_br", "s_nbr", "s_branch"} :
    Emits(op, parents, mask[last_node]) /\ UNCHANGED <<jumps, masked_blocks>>
LabelStep(l) ==
  /\ \E mk \in Condition : Emits("label", parents \o from_node[l], mk)
  /\ to_node' = [to_node EXCEPT ![l] = last_node + 1]
  /\ UNCHANGED <<from_node, back_edges, masked_blocks>>
StutterStep == UNCHANGED <<graph, jumps, masked_blocks>>
MaskStep ==
  \/ \E C \in Condition :
       /\ StrictSubset(mask[last_node], C)
       /\ Emits("change_mask", parents, C)
       /\ masked_blocks' = Append(masked_blocks, OpenMask(last_node + 1, no_parent))
  \/ \E op \in Opcodes, C \in Condition :
       /\ \/ op \in {"unmask", "s_endpgm"} /\ C = {}
          \/ op = "change_mask"
       /\ Emits(op, ParentsOfClosed(parents, C), C)
       /\ masked_blocks' = SubSeq(masked_blocks, 1, Kept(C))
  \/ \E C \in Condition :
       LET prev == mask[last_node]
           i == find_open_mask_index(prev, Len(masked_blocks))
           j == find_open_mask_index(sibling_parent(prev, C), i - 1)
       IN  /\ Siblings(prev, C) /\ i # 0
           /\ Emits("change_mask", <<masked_blocks[i].change_mask>>, C)
           /\ masked_blocks' = Append(SubSeq(masked_blocks, 1, ElseKept(i, j)),
                                      OpenMask(last_node + 1, last_node))
  \/ \E C \in Condition : Emits("change_mask", parents, C) /\ masked_blocks' = masked_blocks
BranchStep(l) == \E op \in {"s_br", "s_nbr", "s_branch"} : BranchTo(op, l)

\* Writing a register attaches one node to the newest one.
LEMMA DefineStep ==
  ASSUME TypeOK, NEW op \in Opcodes, NEW d, NEW txt, Define(op, d, txt)
  PROVE  Emits(op, parents, mask[last_node])
  BY LastTypes, ParentsType, EmitEmits DEF Define

\* The instructions that leave masks, branches and labels alone.
LEMMA PredicateSteps ==
  ASSUME TypeOK, NEW d, NEW s0, NEW s1,
         \/ \E i \in Comparisons : VCmp(d, i)
         \/ SMov(d, s0) \/ SNot(d, s0)
         \/ SAnd(d, s0, s1) \/ SOr(d, s0, s1) \/ SXor(d, s0, s1)
         \/ Arith(d) \/ Plain
  PROVE  PlainStep \/ StutterStep
<1> DEFINE Ops == Opcodes \ {"change_mask", "unmask", "s_endpgm", "label", "s_br", "s_nbr", "s_branch"}
<1>1. CASE \E x \in {"MissingRegister", "AssertionError"} : Fail(x)
  BY <1>1 DEF Fail, StutterStep
<1>2. CASE /\ \E op \in Ops : \E r, txt : Define(op, r, txt)
           /\ UNCHANGED <<jumps, masked_blocks>>
  BY <1>2, DefineStep DEF PlainStep
<1>3. CASE Plain
  <2>1. EmitNode("plain", parents, state[last_node], versions, mask[last_node])
    BY <1>3 DEF Plain
  <2>2. Emits("plain", parents, mask[last_node])
    BY <2>1, LastTypes, ParentsType, EmitEmits DEF Opcodes
  <2> QED
    BY <1>3, <2>2 DEF PlainStep, Plain, Opcodes
<1>4. {"v_cmp", "s_mov_b64", "s_and_b64", "s_or_b64", "s_xor_b64", "s_not_b64", "arith"} \subseteq Ops
  BY DEF Opcodes
<1>5. CASE \E i \in Comparisons : VCmp(d, i)
  BY <1>2, <1>4, <1>5 DEF VCmp
<1>6. CASE SMov(d, s0)
  BY <1>1, <1>2, <1>4, <1>6 DEF SMov
<1>7. CASE SNot(d, s0)
  BY <1>1, <1>2, <1>4, <1>7 DEF SNot
<1>8. CASE SAnd(d, s0, s1)
  BY <1>1, <1>2, <1>4, <1>8 DEF SAnd
<1>9. CASE SOr(d, s0, s1)
  BY <1>1, <1>2, <1>4, <1>9 DEF SOr
<1>10. CASE SXor(d, s0, s1)
  BY <1>1, <1>2, <1>4, <1>10 DEF SXor
<1>11. CASE Arith(d)
  BY <1>2, <1>4, <1>11 DEF Arith
<1> QED
  BY <1>3, <1>5, <1>6, <1>7, <1>8, <1>9, <1>10, <1>11

\* The changes of the mask, and the instructions that close all masks.
LEMMA MaskSteps ==
  ASSUME TypeInv, Unmask \/ EndPgm \/ \E p \in Preds : ChangeMask(p)
  PROVE  MaskStep /\ UNCHANGED jumps
<1>1. TypeOK /\ RestType
  BY TypeParts DEF TypeInv
<1>2. ASSUME NEW op \in Opcodes, NEW C \in Condition,
             \/ op \in {"unmask", "s_endpgm"} /\ C = {}
             \/ op = "change_mask",
             EmitNode(op, ParentsOfClosed(parents, C), state[last_node], versions, C),
             masked_blocks' = SubSeq(masked_blocks, 1, Kept(C))
      PROVE  MaskStep
  <2>1. ParentsOfClosed(parents, C) \in Seq(Nodes)
    BY <1>1, ParentsType, ParentsOfClosedType
  <2>2. Emits(op, ParentsOfClosed(parents, C), C)
    BY <1>1, <1>2, <2>1, EmitEmits
  <2> QED
    BY <1>2, <2>2 DEF MaskStep
<1>3. CASE Unmask \/ EndPgm
  <2>1. {} \in Condition /\ {"unmask", "s_endpgm"} \subseteq Opcodes
    BY DEF Condition, Opcodes
  <2>2. ASSUME NEW op \in {"unmask", "s_endpgm"}, CloseAll(op) PROVE MaskStep /\ UNCHANGED jumps
    BY <1>2, <2>1, <2>2 DEF CloseAll
  <2> QED
    BY <1>3, <2>2 DEF Unmask, EndPgm
<1>4. ASSUME NEW p \in Preds, ChangeMask(p) PROVE MaskStep /\ UNCHANGED jumps
  <2> DEFINE C == exec_registers[p]
             prev == mask[last_node]
  <2>1. C \in Condition
    BY <1>1 DEF RestType, Regs
  <2>2. UNCHANGED jumps
    BY <1>4 DEF ChangeMask
  <2>3. "change_mask" \in Opcodes
    BY DEF Opcodes
  <2>4. CASE StrictSubset(prev, C) /\ EnterMask(C)
    <3>1. Emits("change_mask", parents, C)
      BY <1>1, <2>1, <2>3, <2>4, ParentsType, EmitEmits DEF EnterMask
    <3>2. masked_blocks' = Append(masked_blocks, OpenMask(last_node + 1, no_parent))
      BY <2>4 DEF EnterMask
    <3> HIDE DEF C
    <3>3. MaskStep
      BY <2>1, <2>4, <3>1, <3>2 DEF MaskStep
    <3> QED
      BY <2>2, <3>3
  <2>5. CASE CloseMask(C)
    BY <1>2, <2>1, <2>2, <2>3, <2>5 DEF CloseMask
  <2>6. CASE OtherMask(C)
    <3>1. Emits("change_mask", parents, C) /\ masked_blocks' = masked_blocks
      BY <1>1, <2>1, <2>3, <2>6, ParentsType, EmitEmits DEF OtherMask
    <3> HIDE DEF C
    <3>2. MaskStep
      BY <2>1, <3>1 DEF MaskStep
    <3> QED
      BY <2>2, <3>2
  <2>7. CASE Siblings(prev, C) /\ ElseMask(C)
    <3> DEFINE i == find_open_mask_index(prev, Len(masked_blocks))
               j == find_open_mask_index(sibling_parent(prev, C), i - 1)
    <3>1. CASE i = 0
      <4>1. OtherMask(C)
        BY <2>7, <3>1 DEF ElseMask, OtherMask
      <4> QED
        BY <2>6, <4>1
    <3>2. CASE i # 0
      <4>1. /\ EmitNode("change_mask", <<masked_blocks[i].change_mask>>,
                        state[masked_blocks[i].change_mask], versions, C)
            /\ masked_blocks' = Append(SubSeq(masked_blocks, 1, ElseKept(i, j)),
                                       OpenMask(last_node + 1, last_node))
        BY <2>7, <3>2 DEF ElseMask
      <4>2. i \in 1 .. Len(masked_blocks)
        <5>1. Len(masked_blocks) \in Nat
          BY <1>1, LenProperties DEF RestType
        <5> QED
          BY <1>1, <3>2, <5>1, FoundType
      <4>3. <<masked_blocks[i].change_mask>> \in Seq(Nodes)
        BY <1>1, <4>2, StackEntry
      <4>4. Emits("change_mask", <<masked_blocks[i].change_mask>>, C)
        BY <1>1, <2>1, <2>3, <4>1, <4>3, EmitEmits
      <4> HIDE DEF C
      <4>5. MaskStep
        BY <2>1, <2>7, <3>2, <4>1, <4>4 DEF MaskStep
      <4> QED
        BY <2>2, <4>5
    <3> QED
      BY <3>1, <3>2
  <2> QED
    BY <1>4, <2>4, <2>5, <2>6, <2>7 DEF ChangeMask
<1> QED
  BY <1>3, <1>4

\* Every step of the pass is one of these.
StepKinds ==
  \/ PlainStep \/ StutterStep
  \/ MaskStep /\ UNCHANGED jumps
  \/ \E l \in Labels : LabelStep(l) \/ BranchStep(l)

\* Every step is of one of these kinds.
LEMMA Steps ==
  ASSUME TypeInv, [Next]_vars
  PROVE  StepKinds
<1>1. TypeOK
  BY DEF TypeInv
<1>2. CASE Instruction
  <2>1. CASE \E d \in Regs, i \in Comparisons : VCmp(d, i)
    BY <1>1, <2>1, PredicateSteps DEF StepKinds
  <2>2. CASE \E d, s \in Regs : SMov(d, s) \/ SNot(d, s)
    BY <1>1, <2>2, PredicateSteps DEF StepKinds
  <2>3. CASE \E d, s0, s1 \in Regs : SAnd(d, s0, s1) \/ SOr(d, s0, s1) \/ SXor(d, s0, s1)
    BY <1>1, <2>3, PredicateSteps DEF StepKinds
  <2>4. CASE Plain \/ \E d \in ScalarSet : Arith(d)
    BY <1>1, <2>4, PredicateSteps DEF StepKinds
  <2>5. CASE Unmask \/ EndPgm \/ \E p \in Preds : ChangeMask(p)
    BY <2>5, MaskSteps DEF StepKinds
  <2>6. ASSUME NEW l \in Labels, Branch(l) \/ BranchNot(l) \/ Jump(l) PROVE StepKinds
    BY <2>6 DEF Branch, BranchNot, Jump, BranchStep, StepKinds
  <2>7. ASSUME NEW l \in Labels, Label(l) PROVE StepKinds
    <3> DEFINE from == IF from_node[l] = <<>> THEN last_node ELSE Last(from_node[l])
    <3>1. from_node[l] \in Seq(Nodes)
      BY <1>1 DEF TypeOK
    <3>2. parents \o from_node[l] \in Seq(Nodes)
      BY <1>1, <3>1, ParentsType, ConcatProperties
    <3>3. from \in Nodes
      <4>1. from_node[l] # <<>> => from_node[l][Len(from_node[l])] \in Nodes
        BY <3>1, EmptySeq, LenProperties
      <4> QED
        BY <1>1, <4>1, ParentsType DEF Last
    <3>4. mask[from] \in Condition
      BY <1>1, <3>3 DEF TypeOK
    <3>5. EmitNode("label", parents \o from_node[l], state[from], versions, mask[from])
      BY <2>7 DEF Label
    <3>6. Emits("label", parents \o from_node[l], mask[from])
      BY <1>1, <3>2, <3>4, <3>5, EmitEmits DEF Opcodes
    <3>7. LabelStep(l)
      BY <2>7, <3>4, <3>6 DEF LabelStep, Label
    <3> QED
      BY <3>7 DEF StepKinds
  <2> QED
    BY <1>2, <2>1, <2>2, <2>3, <2>4, <2>5, <2>6, <2>7 DEF Instruction
<1>3. CASE Finish \/ UNCHANGED vars
  BY <1>3 DEF Finish, vars, StepKinds, StutterStep
<1> QED
  BY <1>2, <1>3 DEF Next

------------------------------------------------------------------------------
(***************************************************************************)
(* The stack of open masks.                                                *)
(***************************************************************************)
\* The condition of the root never changes: no else can take the root for its branch.
StackInv == TypeInv /\ StackOK /\ mask[1] = {}

\* A node keeps its instruction and its condition.
Grows ==
  /\ Nodes \subseteq Nodes' /\ last_node + 1 \notin Nodes
  /\ \A k \in Nodes : instruction'[k] = instruction[k] /\ mask'[k] = mask[k]

\* Emitting a node only adds to the graph.
LEMMA EmitGrows ==
  ASSUME TypeInv, NEW op, NEW ps, NEW mk, Emits(op, ps, mk)
  PROVE  Grows /\ 1 \in Nodes
<1>1. last_node \in Nat
  BY DEF TypeInv, TypeOK, last_node
<1> QED
  BY <1>1 DEF Emits, Grows

\* So does a branch.
LEMMA BranchGrows ==
  ASSUME TypeInv, NEW l \in Labels, BranchStep(l)
  PROVE  Grows /\ 1 \in Nodes
<1>1. PICK op \in {"s_br", "s_nbr", "s_branch"} : BranchTo(op, l)
  BY DEF BranchStep
<1>2. instruction' = Append(instruction, op) /\ mask' = Append(mask, mask[last_node])
  BY <1>1 DEF BranchTo
<1>3. TypeOK /\ op \in Opcodes
  BY DEF TypeInv, Opcodes
<1>4. /\ Len(instruction) \in Nat /\ Nodes = 1 .. Len(instruction) /\ Nodes \subseteq Nodes'
      /\ \A i \in Nodes : instruction'[i] = instruction[i]
  BY <1>2, <1>3, NewNode
<1>5. mask \in [1 .. Len(instruction) -> Condition]
  BY <1>3, <1>4 DEF TypeOK
<1>6. \A k \in Nodes : mask'[k] = mask[k]
  BY <1>2, <1>3, <1>4, <1>5, LastTypes, AppendOne
<1>7. 1 \in Nodes
  BY <1>3, <1>4 DEF TypeOK
<1> QED
  BY <1>4, <1>6, <1>7 DEF Grows, last_node

\* A prefix of the stack, over a graph that has grown, is a stack.
LEMMA PrefixStack ==
  ASSUME StackInv, NEW k \in 1 .. Len(masked_blocks), Grows \/ UNCHANGED graph,
         masked_blocks' = SubSeq(masked_blocks, 1, k)
  PROVE  StackOK'
<1>1. RestType
  BY TypeParts DEF StackInv
<1>2. Len(masked_blocks)' = k /\ \A i \in 1 .. k : masked_blocks'[i] = masked_blocks[i]
  BY <1>1, PrefixType DEF RestType
<1>3. \A i \in 1 .. k : masked_blocks[i].change_mask \in Nodes
  BY <1>1, StackEntry
<1>4. \A i \in 1 .. k : /\ instruction'[masked_blocks[i].change_mask] = instruction[masked_blocks[i].change_mask]
                        /\ mask'[masked_blocks[i].change_mask] = mask[masked_blocks[i].change_mask]
  BY <1>3 DEF Grows, graph
<1>5. Len(masked_blocks) \in Nat
  BY <1>1, LenProperties DEF RestType
<1> QED
  BY <1>2, <1>4, <1>5 DEF StackInv, StackOK

\* The stack unchanged is its own prefix.
LEMMA SameStack ==
  ASSUME StackInv, Grows \/ UNCHANGED graph, masked_blocks' = masked_blocks
  PROVE  StackOK'
<1>1. RestType
  BY TypeParts DEF StackInv
<1>2. Len(masked_blocks) \in 1 .. Len(masked_blocks)
  BY <1>1, LenProperties DEF RestType
<1>3. masked_blocks' = SubSeq(masked_blocks, 1, Len(masked_blocks))
  BY <1>1, SubSeqFull DEF RestType
<1> QED
  BY <1>2, <1>3, PrefixStack

\* A prefix of the stack and a new mask on top of it.
LEMMA PushStack ==
  ASSUME StackInv, NEW k \in 1 .. Len(masked_blocks), NEW C, C # {}, NEW ps,
         Emits("change_mask", ps, C), NEW e,
         masked_blocks' = Append(SubSeq(masked_blocks, 1, k), OpenMask(last_node + 1, e)),
         \/ e = no_parent
         \/ e = last_node /\ \A i \in 1 .. k : masked_blocks[i].change_mask < last_node
  PROVE  StackOK'
<1>1. RestType /\ TypeOK
  BY TypeParts DEF StackInv, TypeInv
<1>2. last_node \in Nat /\ Nodes = 1 .. last_node
  BY <1>1 DEF TypeOK, last_node, Nodes
<1>3. /\ instruction'[last_node + 1] = "change_mask" /\ mask'[last_node + 1] = C
      /\ \A n \in Nodes : instruction'[n] = instruction[n] /\ mask'[n] = mask[n]
  BY DEF Emits
<1> DEFINE below == SubSeq(masked_blocks, 1, k)
           m == OpenMask(last_node + 1, e)
<1>4. /\ below \in Seq(Mask) /\ Len(below) = k
      /\ \A i \in 1 .. k : below[i] = masked_blocks[i]
  BY <1>1, PrefixType DEF RestType
<1>5. /\ Len(Append(below, m)) = k + 1
      /\ \A i \in 1 .. k : Append(below, m)[i] = masked_blocks[i]
      /\ Append(below, m)[k + 1] = m
  <2> HIDE DEF below, m
  <2>1. below \in Seq(Mask \cup {m})
    BY <1>4, SeqMonotonic
  <2> QED
    BY <1>4, <2>1, AppendProperties
<1>6. m.change_mask = last_node + 1 /\ m.previous_branch_end = e
  BY DEF OpenMask
<1>7. \A i \in 1 .. k : masked_blocks[i].change_mask \in 1 .. last_node
  BY <1>1, <1>2, StackEntry
<1>8. k \in Nat /\ k >= 1 /\ Len(masked_blocks) \in Nat
  BY <1>1, LenProperties DEF RestType
<1> DEFINE s == masked_blocks'
<1>9. /\ Len(s) = k + 1 /\ s[k + 1] = m /\ \A i \in 1 .. k : s[i] = masked_blocks[i]
  BY <1>5
<1> HIDE DEF s, m, below
<1>10. Len(s) > 0 /\ s[1] = OpenMask(1, no_parent)
  BY <1>8, <1>9 DEF StackInv, StackOK
<1>11. ASSUME NEW i \in 2 .. k
       PROVE  /\ instruction'[s[i].change_mask] = "change_mask"
              /\ mask'[s[i].change_mask] # {}
              /\ s[i].previous_branch_end < s[i].change_mask
              /\ \A h \in 1 .. i - 1 :
                   /\ s[h].change_mask < s[i].change_mask
                   /\ \/ s[i].previous_branch_end = no_parent
                      \/ s[h].change_mask < s[i].previous_branch_end
  <2>1. i \in 2 .. Len(masked_blocks) /\ i \in 1 .. k /\ \A h \in 1 .. i - 1 : h \in 1 .. k
    BY <1>8
  <2>2. s[i] = masked_blocks[i] /\ \A h \in 1 .. i - 1 : s[h] = masked_blocks[h]
    BY <1>9, <2>1
  <2>3. masked_blocks[i].change_mask \in Nodes
    BY <1>2, <1>7, <2>1
  <2> QED
    BY <1>3, <2>1, <2>2, <2>3 DEF StackInv, StackOK
<1>12. /\ instruction'[m.change_mask] = "change_mask"
       /\ mask'[m.change_mask] # {}
       /\ m.previous_branch_end < m.change_mask
       /\ \A h \in 1 .. k :
            /\ s[h].change_mask < m.change_mask
            /\ \/ m.previous_branch_end = no_parent
               \/ s[h].change_mask < m.previous_branch_end
  BY <1>2, <1>3, <1>6, <1>7, <1>9 DEF no_parent
<1>13. \A i \in 2 .. Len(s) :
         /\ instruction'[s[i].change_mask] = "change_mask"
         /\ mask'[s[i].change_mask] # {}
         /\ s[i].previous_branch_end < s[i].change_mask
         /\ \A h \in 1 .. i - 1 :
              /\ s[h].change_mask < s[i].change_mask
              /\ \/ s[i].previous_branch_end = no_parent
                 \/ s[h].change_mask < s[i].previous_branch_end
  <2> TAKE i \in 2 .. Len(s)
  <2>1. CASE i \in 2 .. k
    BY <1>11, <2>1
  <2>2. CASE i = k + 1
    BY <1>8, <1>9, <1>12, <2>2
  <2> QED
    BY <1>8, <1>9, <2>1, <2>2
<1> QED
  BY <1>10, <1>13 DEF StackOK, s

\* Every mask change keeps the stack in order.
LEMMA MaskStepStack ==
  ASSUME StackInv, MaskStep
  PROVE  StackOK'
<1>1. TypeInv /\ RestType /\ TypeOK
  BY TypeParts DEF StackInv, TypeInv
<1>2. Len(masked_blocks) \in Nat /\ Len(masked_blocks) > 0
  BY <1>1, LenProperties DEF RestType
<1>3. ASSUME NEW C \in Condition, StrictSubset(mask[last_node], C),
             Emits("change_mask", parents, C),
             masked_blocks' = Append(masked_blocks, OpenMask(last_node + 1, no_parent))
      PROVE  StackOK'
  <2>1. SubSeq(masked_blocks, 1, Len(masked_blocks)) = masked_blocks
    BY <1>1, SubSeqFull DEF RestType
  <2>2. C # {}
    BY <1>3 DEF StrictSubset
  <2> QED
    BY <1>2, <1>3, <2>1, <2>2, PushStack
<1>4. ASSUME NEW op, NEW C, Emits(op, ParentsOfClosed(parents, C), C),
             masked_blocks' = SubSeq(masked_blocks, 1, Kept(C))
      PROVE  StackOK'
  BY <1>1, <1>4, KeptType, EmitGrows, PrefixStack
<1>5. ASSUME NEW C \in Condition, Emits("change_mask", parents, C), masked_blocks' = masked_blocks
      PROVE  StackOK'
  BY <1>1, <1>5, EmitGrows, SameStack
<1> DEFINE prev == mask[last_node]
           i == find_open_mask_index(prev, Len(masked_blocks))
<1>6. ASSUME NEW C \in Condition, Siblings(prev, C), i # 0, NEW j,
             j = find_open_mask_index(sibling_parent(prev, C), i - 1),
             Emits("change_mask", <<masked_blocks[i].change_mask>>, C),
             masked_blocks' = Append(SubSeq(masked_blocks, 1, ElseKept(i, j)),
                                     OpenMask(last_node + 1, last_node))
      PROVE  StackOK'
  <2>1. i \in 1 .. Len(masked_blocks) /\ mask[masked_blocks[i].change_mask] = prev
    BY <1>1, <1>2, <1>6, FoundType
  <2>2. C # {} /\ prev # {}
    BY <1>6 DEF Siblings
  <2>3. i # 1
    BY <2>1, <2>2 DEF StackInv, StackOK, OpenMask
  <2> HIDE DEF i
  <2>4. i - 1 \in Nat /\ i - 1 <= Len(masked_blocks) /\ i - 1 >= 1
    BY <2>1, <2>3, <1>2
  <2>5. j = 0 \/ j \in 1 .. i - 1
    BY <1>1, <1>6, <2>4, FoundType
  <2>6. ElseKept(i, j) \in 1 .. i - 1 /\ ElseKept(i, j) \in 1 .. Len(masked_blocks)
    BY <2>4, <2>5 DEF ElseKept
  <2>7. masked_blocks[i].change_mask \in 1 .. last_node /\ last_node \in Nat
    BY <1>1, <2>1, StackEntry DEF TypeOK, Nodes, last_node
  <2>8. \A h \in 1 .. ElseKept(i, j) : masked_blocks[h].change_mask < last_node
    <3> TAKE h \in 1 .. ElseKept(i, j)
    <3>1. h \in 1 .. i - 1 /\ i \in 2 .. Len(masked_blocks) /\ h \in 1 .. Len(masked_blocks)
      BY <1>2, <2>1, <2>3, <2>6
    <3>2. masked_blocks[h].change_mask < masked_blocks[i].change_mask
      BY <3>1 DEF StackInv, StackOK
    <3>3. masked_blocks[h].change_mask \in 1 .. last_node
      BY <1>1, <3>1, StackEntry DEF Nodes, last_node
    <3> QED
      BY <2>7, <3>2, <3>3
  <2> QED
    BY <1>6, <2>2, <2>6, <2>8, PushStack
<1> HIDE DEF i
<1> QED
  BY <1>3, <1>4, <1>5, <1>6 DEF MaskStep, i

\* The root keeps its condition.
LEMMA RootMask ==
  ASSUME TypeInv, mask[1] = {}, Grows \/ UNCHANGED graph
  PROVE  (mask[1] = {})'
<1>1. 1 \in Nodes
  BY DEF TypeInv, TypeOK, Nodes
<1> QED
  BY <1>1 DEF Grows, graph

\* A step either leaves the graph alone or adds to it.
LEMMA StepGrows ==
  ASSUME TypeInv, StepKinds
  PROVE  Grows \/ UNCHANGED graph
  BY EmitGrows, BranchGrows DEF StepKinds, PlainStep, StutterStep, MaskStep, LabelStep

\* The stack of open masks is in order, whatever the instruction list.
THEOREM StackCorrect == Spec => []StackInv
<1>1. Init => StackInv
  <2> SUFFICES ASSUME Init PROVE StackInv
    OBVIOUS
  <2>1. mask[1] = {} /\ Len(masked_blocks) = 1 /\ masked_blocks[1] = OpenMask(1, no_parent)
    BY DEF Init
  <2> QED
    BY <2>1, InitType DEF StackInv, StackOK
<1>2. StackInv /\ TypeInv' /\ [Next]_vars => StackInv'
  <2> SUFFICES ASSUME StackInv, TypeInv', [Next]_vars PROVE StackInv'
    OBVIOUS
  <2>1. TypeInv /\ StepKinds
    BY Steps DEF StackInv
  <2>2. Grows \/ UNCHANGED graph
    BY <2>1, StepGrows
  <2>3. (mask[1] = {})'
    BY <2>1, <2>2, RootMask DEF StackInv
  <2>4. StackOK'
    <3>1. CASE MaskStep
      BY <3>1, MaskStepStack
    <3>2. CASE ~MaskStep
      <4>1. masked_blocks' = masked_blocks
        BY <2>1, <3>2 DEF StepKinds, PlainStep, StutterStep, LabelStep, BranchStep, BranchTo
      <4> QED
        BY <2>2, <4>1, SameStack
    <3> QED
      BY <3>1, <3>2
  <2> QED
    BY <2>3, <2>4 DEF StackInv
<1> QED
  BY <1>1, <1>2, TypeCorrect, PTL DEF Spec

\* The same for the invariant the runs check.
THEOREM StackOKCorrect == Spec => []StackOK
<1>1. StackInv => StackOK
  BY DEF StackInv
<1> QED
  BY <1>1, StackCorrect, PTL

\* With the stack in order, the default condition closes all of it but the root.
LEMMA ClosesAll ==
  ASSUME StackInv
  PROVE  Kept({}) = 1
<1>1. RestType
  BY TypeParts DEF StackInv
<1>2. Kept({}) \in 1 .. Len(masked_blocks) /\ (Kept({}) > 1 => ~Closable(Kept({}), {}))
  BY <1>1, KeptType
<1>3. \A i \in 2 .. Len(masked_blocks) : Closable(i, {})
  BY DEF StackInv, StackOK, Closable, StrictSubset
<1> QED
  BY <1>2, <1>3

\* s_endpgm and the end of predicated code leave no mask open, however the masks were nested.
THEOREM AllClosedCorrect == Spec => []AllClosed
<1>1. Init => AllClosed
  BY DEF Init, AllClosed, last_node
<1>2. StackInv /\ StackInv' /\ AllClosed /\ [Next]_vars => AllClosed'
  <2> SUFFICES ASSUME StackInv, StackInv', AllClosed, [Next]_vars PROVE AllClosed'
    OBVIOUS
  <2>1. TypeInv /\ StepKinds /\ RestType /\ TypeOK
    BY Steps, TypeParts DEF StackInv, TypeInv
  <2>2. ASSUME NEW op, NEW ps, NEW mk, Emits(op, ps, mk)
        PROVE  instruction'[last_node'] = op /\ mask'[last_node'] = mk
    <3>1. last_node' = last_node + 1
      <4>1. Nodes' = 1 .. last_node' /\ last_node' \in Nat /\ last_node \in Nat
        BY <2>1 DEF Nodes, last_node, StackInv, TypeInv, TypeOK
      <4>2. Nodes' = 1 .. last_node + 1
        BY <2>2 DEF Emits
      <4> QED
        BY <4>1, <4>2
    <3> QED
      BY <2>2, <3>1 DEF Emits
  <2>3. CASE PlainStep
    BY <2>2, <2>3 DEF PlainStep, AllClosed
  <2>4. CASE StutterStep
    BY <2>4 DEF StutterStep, AllClosed, graph, last_node
  <2>5. CASE MaskStep
    <3>1. ASSUME NEW op, NEW C, (op \in {"unmask", "s_endpgm"} /\ C = {}) \/ op = "change_mask",
                 Emits(op, ParentsOfClosed(parents, C), C),
                 masked_blocks' = SubSeq(masked_blocks, 1, Kept(C))
          PROVE  AllClosed'
      <4>1. CASE op = "change_mask"
        BY <2>2, <3>1, <4>1 DEF AllClosed
      <4>2. CASE C = {}
        <5>1. 1 \in 1 .. Len(masked_blocks)
          BY <2>1, LenProperties DEF RestType
        <5>2. Len(masked_blocks)' = 1
          <6>1. masked_blocks' = SubSeq(masked_blocks, 1, 1)
            BY <3>1, <4>2, ClosesAll
          <6>2. masked_blocks \in Seq(Mask)
            BY <2>1 DEF RestType
          <6>3. Len(SubSeq(masked_blocks, 1, 1)) = 1
            BY <5>1, <6>2, PrefixType
          <6> QED
            BY <6>1, <6>3
        <5> QED
          BY <2>2, <3>1, <4>2, <5>2 DEF AllClosed
      <4> QED
        BY <3>1, <4>1, <4>2
    <3>2. ASSUME NEW ps, NEW C, Emits("change_mask", ps, C) PROVE AllClosed'
      BY <2>2, <3>2 DEF AllClosed
    <3> QED
      BY <2>5, <3>1, <3>2 DEF MaskStep
  <2>6. ASSUME NEW l \in Labels, LabelStep(l) PROVE AllClosed'
    BY <2>2, <2>6 DEF LabelStep, AllClosed
  <2>7. ASSUME NEW l \in Labels, BranchStep(l) PROVE AllClosed'
    <3>1. PICK op \in {"s_br", "s_nbr", "s_branch"} : instruction' = Append(instruction, op)
      BY <2>7 DEF BranchStep, BranchTo
    <3>2. instruction'[last_node'] = op
      BY <2>1, <3>1, AppendProperties DEF TypeOK, last_node, Opcodes
    <3> QED
      BY <3>2 DEF AllClosed
  <2> QED
    BY <2>1, <2>3, <2>4, <2>5, <2>6, <2>7 DEF StepKinds
<1> QED
  BY <1>1, <1>2, StackCorrect, PTL DEF Spec

------------------------------------------------------------------------------
(***************************************************************************)
(* The edges.                                                              *)
(***************************************************************************)
\* A node is attached to exactly its parents.
LEMMA AttachRange ==
  ASSUME NEW S, NEW p \in Nodes, children[p] \in Seq(S), NEW T, NEW ps \in Seq(T), NEW n \in S,
         NEW k
  PROVE  k \in Range(Attach(p, ps, n)) <=> k \in Range(children[p]) \/ (k = n /\ p \in Range(ps))
<1> DEFINE Places == {j \in DOMAIN ps : ps[j] = p}
           c == Cardinality(Places)
           new == [i \in 1 .. c |-> n]
<1>1. DOMAIN ps = 1 .. Len(ps) /\ Len(ps) \in Nat
  BY LenProperties
<1>2. IsFiniteSet(1 .. Len(ps))
  BY <1>1, FS_Interval
<1>3. IsFiniteSet(Places)
  BY <1>1, <1>2, FS_Subset
<1>4. c \in Nat /\ (c = 0 <=> Places = {})
  BY <1>3, FS_CardinalityType, FS_EmptySet
<1>5. p \in Range(ps) <=> Places # {}
  BY DEF Range
<1>6. p \in Range(ps) <=> c >= 1
  BY <1>4, <1>5
<1> HIDE DEF c
<1>7. new \in Seq(S) /\ Range(new) = IF c >= 1 THEN {n} ELSE {}
  BY <1>4 DEF Range
<1>8. Range(children[p] \o new) = Range(children[p]) \cup Range(new)
  BY <1>7, RangeConcatenation
<1>9. Attach(p, ps, n) = children[p] \o new
  BY DEF Attach, c
<1> HIDE DEF new
<1> QED
  BY <1>6, <1>7, <1>8, <1>9

EdgesInv == TypeInv /\ EdgesAgree /\ EdgesForward

\* A new node brings edges from its parents, which are older, and no other.
LEMMA EmitEdges ==
  ASSUME EdgesInv, NEW op, NEW mk, NEW ps \in Seq(Nodes), Emits(op, ps, mk),
         back_edges' = back_edges
  PROVE  EdgesAgree' /\ EdgesForward'
<1> DEFINE n == last_node + 1
<1>1. TypeOK /\ last_node \in Nat
  BY DEF EdgesInv, TypeInv, TypeOK, last_node
<1>2. Nodes' = 1 .. n /\ Nodes = 1 .. last_node
  BY DEF Emits
<1>3. \A k \in Nodes : parent[k] \in Seq(Nodes) /\ children[k] \in Seq(Nodes)
  BY <1>1 DEF TypeOK
<1>4. \A k \in Nodes : Range(parent[k]) \subseteq Nodes /\ Range(children[k]) \subseteq Nodes
  BY <1>3, RangeOfSeq
<1>5. Range(ps) \subseteq Nodes
  BY RangeOfSeq
<1>6. parent'[n] = ps /\ \A k \in Nodes : parent'[k] = parent[k]
  BY DEF Emits
<1>7. children'[n] = <<>> /\ \A p \in Nodes : children'[p] = Attach(p, ps, n)
  BY DEF Emits
<1>8. Nodes \subseteq Nodes' /\ n \in Nodes'
  BY <1>1, <1>2
<1>9. \A p \in Nodes : \A k :
        k \in Range(children'[p]) <=> k \in Range(children[p]) \/ (k = n /\ p \in Range(ps))
  <2> TAKE p \in Nodes
  <2> TAKE k
  <2>1. children[p] \in Seq(Nodes')
    BY <1>3, <1>8, SeqMonotonic
  <2> HIDE DEF n
  <2>2. k \in Range(Attach(p, ps, n)) <=> k \in Range(children[p]) \/ (k = n /\ p \in Range(ps))
    BY <1>8, <2>1, AttachRange
  <2> QED
    BY <1>7, <2>2
<1>10. Range(children'[n]) = {}
  BY <1>7 DEF Range
<1>11. n \notin Nodes
  BY <1>1, <1>2
<1> HIDE DEF n
<1>12. \A p, k \in Nodes' : p \in Range(parent'[k]) <=> k \in Range(children'[p])
  <2> TAKE p, k \in Nodes'
  <2>1. (p \in Nodes \/ p = n) /\ (k \in Nodes \/ k = n)
    BY <1>1, <1>2 DEF n
  <2>2. CASE p \in Nodes /\ k \in Nodes
    BY <1>6, <1>9, <1>11, <2>2 DEF EdgesInv, EdgesAgree
  <2>3. CASE p \in Nodes /\ k = n
    BY <1>4, <1>6, <1>9, <1>11, <2>3
  <2>4. CASE p = n
    BY <1>4, <1>5, <1>6, <1>10, <1>11, <2>1, <2>4
  <2> QED
    BY <2>1, <2>2, <2>3, <2>4
<1>13. \A k \in Nodes' : \A p \in Range(parent'[k]) : p < k \/ p \in back_edges'
  <2> TAKE k \in Nodes'
  <2>1. CASE k \in Nodes
    BY <1>6, <2>1 DEF EdgesInv, EdgesForward
  <2>2. CASE k = n
    BY <1>1, <1>2, <1>5, <1>6, <2>2 DEF n
  <2> QED
    BY <1>1, <1>2, <2>1, <2>2 DEF n
<1> QED
  BY <1>12, <1>13 DEF EdgesAgree, EdgesForward

\* What a branch to l does to the graph, node by node.
Branches(op, l) ==
  LET n == last_node + 1
      target == to_node[l]
  IN  /\ Nodes' = 1 .. n /\ Nodes = 1 .. last_node /\ last_node \in Nodes
      /\ instruction'[n] = op /\ \A k \in Nodes : instruction'[k] = instruction[k]
      /\ parent'[n] = parents
      /\ \A k \in Nodes : parent'[k] = IF k = target THEN Append(parent[k], n) ELSE parent[k]
      /\ children'[n] = IF target = 0 THEN <<>> ELSE <<target>>
      /\ \A k \in Nodes : children'[k] = Attach(k, parents, n)
      /\ back_edges' = IF target = 0 THEN back_edges ELSE back_edges \cup {n}

\* A branch is one new node, and one more parent of its label if that is already there.
LEMMA BranchBranches ==
  ASSUME TypeInv, NEW op \in Opcodes, NEW l \in Labels, BranchTo(op, l)
  PROVE  Branches(op, l)
<1> DEFINE n == last_node + 1
           target == to_node[l]
           kids == [p \in Nodes |-> Attach(p, parents, n)]
           joined == [parent EXCEPT ![target] = Append(@, n)]
<1>1. TypeOK /\ GraphType /\ RestType
  BY TypeParts DEF TypeInv
<1>2. instruction' = Append(instruction, op)
  BY DEF BranchTo
<1>3. /\ last_node \in Nat /\ Nodes' = 1 .. n /\ Nodes = 1 .. last_node /\ last_node \in Nodes
      /\ Nodes \subseteq Nodes' /\ n \in Nodes'
      /\ instruction'[n] = op /\ \A k \in Nodes : instruction'[k] = instruction[k]
  BY <1>1, <1>2, NewNode, ParentsType DEF last_node
<1>4. target \in Nodes \cup {0} /\ 0 \notin Nodes
  BY <1>1, <1>3 DEF RestType
<1>5. parents \in Seq(Nodes') /\ \A p \in Nodes : parent[p] \in Seq(Nodes')
  <2>1. parents \in Seq(Nodes) /\ \A p \in Nodes : parent[p] \in Seq(Nodes)
    BY <1>1, ParentsType DEF TypeOK
  <2> QED
    BY <1>3, <2>1, SeqMonotonic
<1>6. kids \in [1 .. last_node -> Seq(Nodes')]
  <2>0. \A p \in Nodes : children[p] \in Seq(Nodes)
    BY <1>1 DEF TypeOK
  <2>1. \A p \in Nodes : children[p] \in Seq(Nodes')
    BY <1>3, <2>0, SeqMonotonic
  <2>2. \A p \in Nodes : Attach(p, parents, n) \in Seq(Nodes')
    BY <1>3, <1>5, <2>1, AttachType
  <2> QED
    BY <1>3, <2>2
<1>7. \A k \in Nodes : kids[k] = Attach(k, parents, n)
  OBVIOUS
<1>8. DOMAIN parent = Nodes /\ parent \in [1 .. last_node -> Seq(Nodes')]
  BY <1>1, <1>3, <1>5 DEF TypeOK
<1>9. CASE target # 0
  <2>1. /\ parent' = Append(joined, parents) /\ children' = Append(kids, <<target>>)
        /\ back_edges' = back_edges \cup {n}
    BY <1>9 DEF BranchTo, BackEdges
  <2>2. Append(parent[target], n) \in Seq(Nodes') /\ <<target>> \in Seq(Nodes')
    BY <1>3, <1>4, <1>5, <1>9, PushType
  <2>3. /\ joined \in [1 .. last_node -> Seq(Nodes')]
        /\ \A k \in Nodes : joined[k] = IF k = target THEN Append(parent[k], n) ELSE parent[k]
    BY <1>8, <2>2
  <2> HIDE DEF kids, joined
  <2>4. parent'[n] = parents /\ \A k \in Nodes : parent'[k] = joined[k]
    BY <1>3, <1>5, <2>1, <2>3, AppendOne
  <2>5. children'[n] = <<target>> /\ \A k \in Nodes : children'[k] = kids[k]
    BY <1>3, <1>6, <2>1, <2>2, AppendOne
  <2> QED
    BY <1>3, <1>7, <1>9, <2>1, <2>3, <2>4, <2>5 DEF Branches
<1>10. CASE target = 0
  <2>1. /\ parent' = Append(parent, parents) /\ children' = Append(kids, <<>>)
        /\ back_edges' = back_edges
    BY <1>10 DEF BranchTo
  <2>2. <<>> \in Seq(Nodes')
    OBVIOUS
  <2> HIDE DEF kids
  <2>3. parent'[n] = parents /\ \A k \in Nodes : parent'[k] = parent[k]
    BY <1>3, <1>5, <1>8, <2>1, AppendOne
  <2>4. children'[n] = <<>> /\ \A k \in Nodes : children'[k] = kids[k]
    BY <1>3, <1>6, <2>1, <2>2, AppendOne
  <2> QED
    BY <1>3, <1>4, <1>7, <1>10, <2>1, <2>3, <2>4 DEF Branches
<1> QED
  BY <1>9, <1>10

\* A branch brings an edge from its parent and, if its label is already there, a back edge.
LEMMA BranchEdges ==
  ASSUME EdgesInv, NEW op \in Opcodes, NEW l \in Labels, BranchTo(op, l)
  PROVE  EdgesAgree' /\ EdgesForward'
<1> DEFINE n == last_node + 1
           target == to_node[l]
           Target == {target} \cap Nodes
<1>1. TypeInv /\ TypeOK /\ RestType
  BY TypeParts DEF EdgesInv, TypeInv
<1>2. Branches(op, l)
  BY <1>1, BranchBranches
<1>3. last_node \in Nat /\ Nodes' = 1 .. n /\ Nodes = 1 .. last_node
  BY <1>1, <1>2 DEF Branches, TypeOK, last_node
<1>4. Nodes \subseteq Nodes' /\ n \in Nodes' /\ n \notin Nodes
  BY <1>3
<1>5. target \in Nodes \cup {0} /\ 0 \notin Nodes /\ Target \subseteq Nodes
  BY <1>1, <1>3 DEF RestType
<1>6. parents \in Seq(Nodes) /\ \A k \in Nodes : parent[k] \in Seq(Nodes) /\ children[k] \in Seq(Nodes)
  BY <1>1, ParentsType DEF TypeOK
<1>7. /\ Range(parents) \subseteq Nodes
      /\ \A k \in Nodes : Range(parent[k]) \subseteq Nodes /\ Range(children[k]) \subseteq Nodes
  BY <1>6, RangeOfSeq
<1>8. \A p \in Nodes : \A k :
        k \in Range(children'[p]) <=> k \in Range(children[p]) \/ (k = n /\ p \in Range(parents))
  <2> TAKE p \in Nodes
  <2> TAKE k
  <2>1. children[p] \in Seq(Nodes')
    BY <1>4, <1>6, SeqMonotonic
  <2>2. children'[p] = Attach(p, parents, n)
    BY <1>2 DEF Branches
  <2> HIDE DEF n
  <2>3. k \in Range(Attach(p, parents, n)) <=> k \in Range(children[p]) \/ (k = n /\ p \in Range(parents))
    BY <1>4, <1>6, <2>1, AttachRange
  <2> QED
    BY <2>2, <2>3
<1>9. Range(children'[n]) = Target
  <2>1. children'[n] = IF target = 0 THEN <<>> ELSE <<target>>
    BY <1>2 DEF Branches
  <2> QED
    BY <1>5, <2>1 DEF Range
<1>10. \A k \in Nodes : Range(parent'[k]) = Range(parent[k]) \cup (IF k \in Target THEN {n} ELSE {})
  <2> TAKE k \in Nodes
  <2>1. parent'[k] = IF k = target THEN Append(parent[k], n) ELSE parent[k]
    BY <1>2 DEF Branches
  <2>2. parent[k] \in Seq(Nodes')
    BY <1>4, <1>6, SeqMonotonic
  <2> HIDE DEF n
  <2>3. Range(Append(parent[k], n)) = Range(parent[k]) \cup {n}
    BY <1>4, <2>2, AppendProperties DEF Range
  <2> QED
    BY <2>1, <2>3
<1>11. parent'[n] = parents
  BY <1>2 DEF Branches
<1>12. back_edges' = IF target = 0 THEN back_edges ELSE back_edges \cup {n}
  BY <1>2 DEF Branches
<1> HIDE DEF n, target, Target
<1>13. \A p, k \in Nodes' : p \in Range(parent'[k]) <=> k \in Range(children'[p])
  <2> TAKE p, k \in Nodes'
  <2>1. (p \in Nodes \/ p = n) /\ (k \in Nodes \/ k = n)
    BY <1>3 DEF n
  <2>2. CASE p \in Nodes /\ k \in Nodes
    BY <1>4, <1>8, <1>10, <2>2 DEF EdgesInv, EdgesAgree
  <2>3. CASE p \in Nodes /\ k = n
    BY <1>4, <1>7, <1>8, <1>11, <2>3
  <2>4. CASE p = n /\ k \in Nodes
    BY <1>4, <1>7, <1>9, <1>10, <2>4
  <2>5. CASE p = n /\ k = n
    BY <1>4, <1>5, <1>7, <1>9, <1>11, <2>5
  <2> QED
    BY <2>1, <2>2, <2>3, <2>4, <2>5
<1>14. \A k \in Nodes' : \A p \in Range(parent'[k]) : p < k \/ p \in back_edges'
  <2> TAKE k \in Nodes'
  <2> TAKE p \in Range(parent'[k])
  <2>1. CASE k \in Nodes /\ p \in Range(parent[k])
    BY <1>12, <2>1 DEF EdgesInv, EdgesForward
  <2>2. CASE k \in Nodes /\ p \notin Range(parent[k])
    <3>1. p = n /\ Target # {}
      BY <1>10, <2>2
    <3> QED
      BY <1>5, <1>12, <3>1 DEF Target
  <2>3. CASE k = n
    <3>1. p \in Nodes
      BY <1>7, <1>11, <2>3
    <3> QED
      BY <1>3, <2>3, <3>1 DEF n
  <2> QED
    BY <1>3, <2>1, <2>2, <2>3 DEF n
<1> QED
  BY <1>13, <1>14 DEF EdgesAgree, EdgesForward

\* The parents of every kind of step are nodes.
LEMMA StepParents ==
  ASSUME TypeInv
  PROVE  /\ parents \in Seq(Nodes)
         /\ \A C : ParentsOfClosed(parents, C) \in Seq(Nodes)
         /\ \A l \in Labels : parents \o from_node[l] \in Seq(Nodes)
         /\ \A C : LET i == find_open_mask_index(C, Len(masked_blocks))
                   IN  i # 0 => <<masked_blocks[i].change_mask>> \in Seq(Nodes)
<1>1. TypeOK /\ RestType
  BY TypeParts DEF TypeInv
<1>2. parents \in Seq(Nodes)
  BY <1>1, ParentsType
<1>3. \A C : ParentsOfClosed(parents, C) \in Seq(Nodes)
  BY <1>1, <1>2, ParentsOfClosedType
<1>4. \A l \in Labels : parents \o from_node[l] \in Seq(Nodes)
  <2> TAKE l \in Labels
  <2>1. from_node[l] \in Seq(Nodes)
    BY <1>1 DEF RestType
  <2> QED
    BY <1>2, <2>1, ConcatProperties
<1>5. ASSUME NEW C, find_open_mask_index(C, Len(masked_blocks)) # 0
      PROVE  <<masked_blocks[find_open_mask_index(C, Len(masked_blocks))].change_mask>> \in Seq(Nodes)
  <2> DEFINE i == find_open_mask_index(C, Len(masked_blocks))
  <2>1. Len(masked_blocks) \in Nat
    BY <1>1, LenProperties DEF RestType
  <2>2. i \in 1 .. Len(masked_blocks)
    BY <1>1, <1>5, <2>1, FoundType
  <2> HIDE DEF i
  <2>3. masked_blocks[i].change_mask \in Nodes
    BY <1>1, <2>2, StackEntry
  <2>4. <<masked_blocks[i].change_mask>> \in Seq(Nodes)
    BY <2>3
  <2> QED
    BY <2>4 DEF i
<1> QED
  BY <1>2, <1>3, <1>4, <1>5

\* Every edge of the graph is recorded at both ends and only the recorded back edges go back,
\* whatever the instruction list: what the merge of versions and the region graph read.
THEOREM EdgesCorrect == Spec => [](EdgesAgree /\ EdgesForward)
<1>1. Init => EdgesInv
  <2> SUFFICES ASSUME Init PROVE EdgesInv
    OBVIOUS
  <2>1. Nodes = {1} /\ parent[1] = <<>> /\ children[1] = <<>>
    BY DEF Init, Nodes
  <2>2. Range(<<>>) = {}
    BY DEF Range
  <2> QED
    BY <2>1, <2>2, InitType DEF EdgesInv, EdgesAgree, EdgesForward
<1>2. EdgesInv /\ TypeInv' /\ [Next]_vars => EdgesInv'
  <2> SUFFICES ASSUME EdgesInv, TypeInv', [Next]_vars PROVE EdgesAgree' /\ EdgesForward'
    BY DEF EdgesInv
  <2>1. TypeInv /\ StepKinds
    BY Steps DEF EdgesInv
  <2>2. CASE PlainStep
    <3>1. PICK op \in Opcodes : Emits(op, parents, mask[last_node]) /\ UNCHANGED jumps
      BY <2>2 DEF PlainStep
    <3> QED
      BY <2>1, <3>1, StepParents, EmitEdges DEF jumps
  <2>3. CASE StutterStep
    <3>1. Nodes' = Nodes
      BY <2>3 DEF StutterStep, graph, Nodes
    <3> QED
      BY <2>3, <3>1 DEF StutterStep, graph, jumps, EdgesInv, EdgesAgree, EdgesForward
  <2>4. CASE MaskStep /\ UNCHANGED jumps
    <3>1. \E ps \in Seq(Nodes) : \E op, mk : Emits(op, ps, mk)
      BY <2>1, <2>4, StepParents DEF MaskStep
    <3> QED
      BY <2>4, <3>1, EmitEdges DEF jumps
  <2>5. ASSUME NEW l \in Labels, LabelStep(l) PROVE EdgesAgree' /\ EdgesForward'
    BY <2>1, <2>5, StepParents, EmitEdges DEF LabelStep
  <2>6. ASSUME NEW l \in Labels, BranchStep(l) PROVE EdgesAgree' /\ EdgesForward'
    <3>1. {"s_br", "s_nbr", "s_branch"} \subseteq Opcodes
      BY DEF Opcodes
    <3> QED
      BY <2>6, <3>1, BranchEdges DEF BranchStep
  <2> QED
    BY <2>1, <2>2, <2>3, <2>4, <2>5, <2>6 DEF StepKinds
<1>3. EdgesInv => EdgesAgree /\ EdgesForward
  BY DEF EdgesInv
<1> QED
  BY <1>1, <1>2, <1>3, TypeCorrect, PTL DEF Spec

\* A node is among the children of another exactly if that is among its parents, for every
\* instruction list (node.py add_child, add_parent).
THEOREM EdgesAgreeCorrect == Spec => []EdgesAgree
BY EdgesCorrect, PTL

------------------------------------------------------------------------------
(***************************************************************************)
(* Nodes without a parent.                                                 *)
(***************************************************************************)
\* A concatenation is empty only if its first part is.
LEMMA ConcatEmpty ==
  ASSUME NEW S, NEW s \in Seq(S), NEW t \in Seq(S), s \o t = <<>>
  PROVE  s = <<>>
<1>1. Len(s \o t) = Len(s) + Len(t) /\ Len(s) \in Nat /\ Len(t) \in Nat
  BY ConcatProperties, LenProperties
<1>2. Len(s) = 0
  BY <1>1
<1> QED
  BY <1>2, EmptySeq

\* The parents of a step: none only after an unconditional jump.
LEMMA NoParents ==
  ASSUME TypeInv
  PROVE  /\ parents = <<>> => instruction[last_node] = "s_branch"
         /\ \A C : ParentsOfClosed(parents, C) = <<>> => parents = <<>>
         /\ \A l \in Labels : parents \o from_node[l] = <<>> => parents = <<>>
<1>1. TypeOK /\ RestType /\ parents \in Seq(Nodes)
  BY TypeParts, StepParents DEF TypeInv
<1>2. parents = <<>> => instruction[last_node] = "s_branch"
  BY DEF parents
<1>3. \A C : ClosedParents(C) \in Seq(Nodes)
  <2> TAKE C
  <2> DEFINE k == Len(masked_blocks) - Kept(C)
  <2>1. k \in Nat /\ \A i \in 1 .. k : Len(masked_blocks) - i + 1 \in 1 .. Len(masked_blocks)
    BY <1>1, KeptType, LenProperties DEF RestType
  <2>2. \A i \in 1 .. k : ClosedParent(masked_blocks[Len(masked_blocks) - i + 1]) \in Nodes
    BY <1>1, <2>1, StackEntry
  <2>3. ClosedParents(C) \in [1 .. k -> Nodes]
    BY <2>2 DEF ClosedParents
  <2> HIDE DEF k
  <2> QED
    BY <2>1, <2>3
<1>4. ASSUME NEW C, ParentsOfClosed(parents, C) = <<>> PROVE parents = <<>>
  <2> DEFINE new == ClosedParents(C)
  <2>1. new \in Seq(Nodes)
    BY <1>3
  <2> HIDE DEF new
  <2>2. new # <<>> => Tail(new) \in Seq(Nodes)
    BY <2>1, HeadTailProperties
  <2>3. \E rest \in Seq(Nodes) : ParentsOfClosed(parents, C) = parents \o rest
    BY <2>1, <2>2 DEF ParentsOfClosed, new
  <2> QED
    BY <1>1, <1>4, <2>3, ConcatEmpty
<1>5. ASSUME NEW l \in Labels, parents \o from_node[l] = <<>> PROVE parents = <<>>
  <2>1. from_node[l] \in Seq(Nodes)
    BY <1>1 DEF RestType
  <2> QED
    BY <1>1, <1>5, <2>1, ConcatEmpty
<1> QED
  BY <1>2, <1>4, <1>5

\* Only what follows an unconditional jump is ever cut off from the graph, whatever the
\* instruction list: closing masks, elses and labels always keep a parent.
THEOREM NoOrphanCorrect == Spec => []NoOrphan
<1>1. Init => NoOrphan
  BY DEF Init, Nodes, NoOrphan
<1>2. TypeInv /\ NoOrphan /\ [Next]_vars => NoOrphan'
  <2> SUFFICES ASSUME TypeInv, NoOrphan, [Next]_vars PROVE NoOrphan'
    OBVIOUS
  <2> DEFINE n == last_node + 1
  <2>1. StepKinds /\ TypeOK
    BY Steps DEF TypeInv
  <2>2. last_node \in Nat
    BY <2>1 DEF TypeOK, last_node
  \* An old node keeps what it has, a new one has parents unless it follows a jump.
  <2>3. ASSUME /\ Nodes' = 1 .. n /\ Nodes = 1 .. last_node /\ last_node \in Nodes
               /\ \A k \in Nodes : instruction'[k] = instruction[k]
               /\ \A k \in Nodes : parent'[k] = <<>> => parent[k] = <<>>
               /\ parent'[n] = <<>> => instruction[last_node] = "s_branch"
        PROVE  NoOrphan'
    <3>1. SUFFICES ASSUME NEW k \in Nodes', parent'[k] = <<>>
                   PROVE  k = 1 \/ instruction'[k - 1] = "s_branch"
      BY DEF NoOrphan
    <3>2. CASE k \in Nodes
      <4>1. k = 1 \/ instruction[k - 1] = "s_branch"
        BY <2>3, <3>1, <3>2 DEF NoOrphan
      <4>2. k = 1 \/ k - 1 \in Nodes
        BY <2>2, <2>3, <3>2
      <4> QED
        BY <2>3, <4>1, <4>2
    <3>3. CASE k = n
      BY <2>2, <2>3, <3>1, <3>3
    <3> QED
      BY <2>2, <2>3, <3>2, <3>3
  <2>4. ASSUME NEW ps, NEW op, NEW mk, Emits(op, ps, mk),
               ps = <<>> => instruction[last_node] = "s_branch"
        PROVE  NoOrphan'
    <3>1. /\ Nodes' = 1 .. n /\ Nodes = 1 .. last_node /\ last_node \in Nodes
          /\ \A k \in Nodes : instruction'[k] = instruction[k] /\ parent'[k] = parent[k]
          /\ parent'[n] = ps
      BY <2>4 DEF Emits
    <3> HIDE DEF n
    <3> QED
      BY <2>3, <2>4, <3>1
  <2>5. CASE PlainStep
    BY <2>4, <2>5, NoParents DEF PlainStep
  <2>6. CASE StutterStep
    BY <2>6 DEF StutterStep, graph, Nodes, NoOrphan
  <2>7. CASE MaskStep
    <3>1. ASSUME NEW op, NEW C, Emits(op, parents, C) PROVE NoOrphan'
      BY <2>4, <3>1, NoParents
    <3>2. ASSUME NEW op, NEW C, Emits(op, ParentsOfClosed(parents, C), C) PROVE NoOrphan'
      BY <2>4, <3>2, NoParents
    <3>3. ASSUME NEW op, NEW C, NEW cm, Emits(op, <<cm>>, C) PROVE NoOrphan'
      <4>1. <<cm>> # <<>>
        OBVIOUS
      <4> QED
        BY <2>4, <3>3, <4>1
    <3> QED
      BY <2>7, <3>1, <3>2, <3>3 DEF MaskStep
  <2>8. ASSUME NEW l \in Labels, LabelStep(l) PROVE NoOrphan'
    BY <2>4, <2>8, NoParents DEF LabelStep
  <2>9. ASSUME NEW l \in Labels, BranchStep(l) PROVE NoOrphan'
    <3>1. PICK op \in {"s_br", "s_nbr", "s_branch"} : BranchTo(op, l)
      BY <2>9 DEF BranchStep
    <3>2. Branches(op, l)
      BY <3>1, BranchBranches DEF Opcodes
    <3>3. \A k \in Nodes : parent[k] \in Seq(Nodes)
      BY <2>1 DEF TypeOK
    <3>4. \A k \in Nodes : parent'[k] = <<>> => parent[k] = <<>>
      <4> TAKE k \in Nodes
      <4>1. parent'[k] = parent[k] \/ parent'[k] = Append(parent[k], n)
        BY <3>2 DEF Branches
      <4>2. Append(parent[k], n) # <<>>
        BY <3>3
      <4> QED
        BY <4>1, <4>2
    <3>5. /\ Nodes' = 1 .. n /\ Nodes = 1 .. last_node /\ last_node \in Nodes
          /\ \A k \in Nodes : instruction'[k] = instruction[k]
          /\ parent'[n] = parents
      BY <3>2 DEF Branches
    <3> HIDE DEF n
    <3> QED
      BY <2>3, <3>4, <3>5, NoParents
  <2> QED
    BY <2>1, <2>5, <2>6, <2>7, <2>8, <2>9 DEF StepKinds
<1> QED
  BY <1>1, <1>2, TypeCorrect, PTL DEF Spec

------------------------------------------------------------------------------
(***************************************************************************)
(* Repeated parents.                                                       *)
(***************************************************************************)
Injective(s) == \A i, j \in DOMAIN s : i # j => s[i] # s[j]

\* The masks closed together contribute ever older nodes, from the top of the stack down.
LEMMA ClosedDescend ==
  ASSUME StackInv, NEW C
  PROVE  /\ ClosedParents(C) \in Seq(Nodes)
         /\ \A i, j \in DOMAIN ClosedParents(C) : i < j => ClosedParents(C)[j] < ClosedParents(C)[i]
<1> DEFINE last == Len(masked_blocks)
           k == last - Kept(C)
           m(i) == masked_blocks[last - i + 1]
<1>1. TypeOK /\ RestType /\ StackOK
  BY TypeParts DEF StackInv, TypeInv
<1>2. last \in Nat /\ Kept(C) \in 1 .. last
  BY <1>1, KeptType, LenProperties DEF RestType
<1>3. k \in Nat /\ \A i \in 1 .. k : last - i + 1 \in 2 .. last
  BY <1>2
<1>4. \A i \in 1 .. k : ClosedParent(m(i)) \in Nodes
  BY <1>1, <1>2, <1>3, StackEntry
<1>5. DOMAIN ClosedParents(C) = 1 .. k /\ \A i \in 1 .. k : ClosedParents(C)[i] = ClosedParent(m(i))
  BY DEF ClosedParents
<1>6. ClosedParents(C) \in Seq(Nodes)
  <2>1. ClosedParents(C) \in [1 .. k -> Nodes]
    BY <1>4 DEF ClosedParents
  <2> HIDE DEF k
  <2> QED
    BY <1>3, <2>1
<1>7. ASSUME NEW i \in 1 .. k, NEW j \in 1 .. k, i < j
      PROVE  ClosedParent(m(j)) < ClosedParent(m(i))
  <2> DEFINE hi == last - i + 1
             lo == last - j + 1
  <2>1. hi \in 2 .. last /\ lo \in 2 .. last /\ lo \in 1 .. hi - 1
    BY <1>2, <1>3, <1>7
  <2>2. masked_blocks[hi] \in Mask /\ masked_blocks[lo] \in Mask
    BY <1>1, <1>2, <2>1, ElementOfSeq DEF RestType
  <2> HIDE DEF hi, lo, last
  <2>3. /\ masked_blocks[lo].previous_branch_end < masked_blocks[lo].change_mask
        /\ masked_blocks[lo].change_mask < masked_blocks[hi].change_mask
        /\ \/ masked_blocks[hi].previous_branch_end = no_parent
           \/ masked_blocks[lo].change_mask < masked_blocks[hi].previous_branch_end
    BY <1>1, <2>1 DEF StackOK, last
  <2>4. masked_blocks[lo].change_mask \in Int /\ masked_blocks[lo].previous_branch_end \in Int
    BY <2>2 DEF Mask, Nodes, no_parent
  <2>5. masked_blocks[hi].change_mask \in Int /\ masked_blocks[hi].previous_branch_end \in Int
    BY <2>2 DEF Mask, Nodes, no_parent
  <2>6. ClosedParent(masked_blocks[lo]) < ClosedParent(masked_blocks[hi])
    BY <2>3, <2>4, <2>5 DEF ClosedParent
  <2> QED
    BY <2>6 DEF hi, lo
<1> QED
  BY <1>5, <1>6, <1>7

\* So the node that closes them has each of its parents once.
LEMMA ClosedOnce ==
  ASSUME StackInv, NEW C
  PROVE  Injective(ParentsOfClosed(parents, C))
<1> DEFINE new == ClosedParents(C)
           res == ParentsOfClosed(parents, C)
<1>1. /\ new \in Seq(Nodes)
      /\ \A i, j \in DOMAIN new : i < j => new[j] < new[i]
  BY ClosedDescend
<1>2. TypeOK
  BY DEF StackInv, TypeInv
<1>3. last_node \in Nat /\ Nodes = 1 .. last_node /\ last_node \in Nodes
  BY <1>2, ParentsType DEF TypeOK, last_node, Nodes
<1>4. parents = <<>> \/ parents = <<last_node>>
  BY DEF parents
<1>5. res = IF new # <<>> /\ new[1] \in Range(parents) THEN parents \o Tail(new) ELSE parents \o new
  BY DEF ParentsOfClosed
<1> HIDE DEF new, res
<1>6. DOMAIN new = 1 .. Len(new) /\ Len(new) \in Nat /\ \A i \in 1 .. Len(new) : new[i] \in Nodes
  BY <1>1, LenProperties, ElementOfSeq
<1>7. Injective(new)
  BY <1>1, <1>3, <1>6 DEF Injective
<1>8. CASE parents = <<>>
  <2>1. res = new
    BY <1>1, <1>5, <1>8 DEF Range
  <2> QED
    BY <1>7, <2>1 DEF res
<1>9. CASE parents = <<last_node>> /\ new # <<>> /\ new[1] = last_node
  <2>1. res = <<last_node>> \o Tail(new)
    BY <1>5, <1>9 DEF Range
  <2>2. res = new
    BY <1>1, <1>6, <1>9, <2>1
  <2> QED
    BY <1>7, <2>2 DEF res
<1>10. CASE parents = <<last_node>> /\ ~(new # <<>> /\ new[1] = last_node)
  <2>1. res = <<last_node>> \o new
    BY <1>5, <1>10 DEF Range
  <2>2. DOMAIN res = 1 .. Len(new) + 1 /\ res[1] = last_node
        /\ \A i \in 2 .. Len(new) + 1 : res[i] = new[i - 1]
    BY <1>1, <1>6, <2>1
  <2>3. \A i \in 1 .. Len(new) : new[i] < last_node
    <3> TAKE i \in 1 .. Len(new)
    <3>1. new[1] \in Nodes /\ new[1] # last_node
      BY <1>6, <1>10, EmptySeq
    <3>2. i = 1 \/ new[i] < new[1]
      BY <1>1, <1>6
    <3> QED
      BY <1>3, <1>6, <3>1, <3>2
  <2>4. Injective(res)
    <3> SUFFICES ASSUME NEW i \in DOMAIN res, NEW j \in DOMAIN res, i < j PROVE res[i] # res[j]
      BY <2>2 DEF Injective
    <3>1. j \in 2 .. Len(new) + 1 /\ res[j] = new[j - 1] /\ j - 1 \in 1 .. Len(new)
      BY <1>6, <2>2
    <3>2. CASE i = 1
      BY <1>3, <1>6, <2>2, <2>3, <3>1, <3>2
    <3>3. CASE i # 1
      <4>1. i - 1 \in 1 .. Len(new) /\ res[i] = new[i - 1] /\ i - 1 # j - 1
        BY <1>6, <2>2, <3>3
      <4> QED
        BY <1>6, <1>7, <3>1, <4>1 DEF Injective
    <3> QED
      BY <3>2, <3>3
  <2> QED
    BY <2>4 DEF res
<1> QED
  BY <1>4, <1>8, <1>9, <1>10

\* A back edge only ever joins a label.
OnceInv ==
  /\ NoRepeatedParent
  /\ \A l \in Labels : to_node[l] # 0 => instruction[to_node[l]] = "label"

\* Whatever the instruction list, only a label can have the same parent twice: which is why the
\* uniqueness test of _append_unique_node has only the first closed mask to look at.
THEOREM NoRepeatedParentCorrect == Spec => []NoRepeatedParent
<1>1. Init => OnceInv
  <2> SUFFICES ASSUME Init PROVE OnceInv
    OBVIOUS
  <2>1. Nodes = {1} /\ parent[1] = <<>> /\ \A l \in Labels : to_node[l] = 0
    BY DEF Init, Nodes
  <2> QED
    BY <2>1 DEF OnceInv, NoRepeatedParent
<1>2. StackInv /\ OnceInv /\ [Next]_vars => OnceInv'
  <2> SUFFICES ASSUME StackInv, OnceInv, [Next]_vars PROVE OnceInv'
    OBVIOUS
  <2> DEFINE n == last_node + 1
  <2>1. TypeInv /\ TypeOK /\ StepKinds
    BY Steps DEF StackInv, TypeInv
  <2>2. last_node \in Nat /\ \A l \in Labels : to_node[l] \in Nodes \cup {0}
    BY <2>1 DEF TypeOK, last_node
  <2>3. Injective(parents) /\ \A cm : Injective(<<cm>>)
    BY DEF parents, Injective
  \* A new node that is no label has each parent once, an old one gains a parent only as a label.
  <2>4. ASSUME /\ Nodes' = 1 .. n /\ Nodes = 1 .. last_node
               /\ \A k \in Nodes : instruction'[k] = instruction[k]
               /\ \A k \in Nodes : instruction[k] # "label" => parent'[k] = parent[k]
               /\ instruction'[n] # "label" => Injective(parent'[n])
        PROVE  NoRepeatedParent'
    <3>1. \A k \in Nodes' : k \in Nodes \/ k = n
      BY <2>2, <2>4
    <3>2. \A k \in Nodes : instruction[k] # "label" => Injective(parent[k])
      BY DEF OnceInv, NoRepeatedParent, Injective
    <3>3. \A k \in Nodes' : instruction'[k] # "label" => Injective(parent'[k])
      BY <2>4, <3>1, <3>2
    <3> QED
      BY <3>3 DEF NoRepeatedParent, Injective
  <2>5. ASSUME NEW ps, NEW op, NEW mk, Emits(op, ps, mk), op # "label" => Injective(ps)
        PROVE  NoRepeatedParent' /\ \A k \in Nodes : instruction'[k] = instruction[k]
    <3>1. /\ Nodes' = 1 .. n /\ Nodes = 1 .. last_node
          /\ \A k \in Nodes : instruction'[k] = instruction[k] /\ parent'[k] = parent[k]
          /\ instruction'[n] = op /\ parent'[n] = ps
      BY <2>5 DEF Emits
    <3> HIDE DEF n
    <3> QED
      BY <2>4, <2>5, <3>1
  <2>6. ASSUME to_node' = to_node, \A k \in Nodes : instruction'[k] = instruction[k]
        PROVE  (\A l \in Labels : to_node[l] # 0 => instruction[to_node[l]] = "label")'
    BY <2>2, <2>6 DEF OnceInv
  <2>7. CASE PlainStep
    <3>1. PICK op \in Opcodes : Emits(op, parents, mask[last_node]) /\ UNCHANGED jumps
      BY <2>7 DEF PlainStep
    <3> QED
      BY <2>3, <2>5, <2>6, <3>1 DEF jumps, OnceInv
  <2>8. CASE StutterStep
    BY <2>8 DEF StutterStep, graph, jumps, Nodes, OnceInv, NoRepeatedParent
  <2>9. CASE MaskStep /\ UNCHANGED jumps
    <3>1. ASSUME NEW op, NEW C, NEW ps, Emits(op, ps, C), Injective(ps) PROVE OnceInv'
      BY <2>5, <2>6, <2>9, <3>1 DEF jumps, OnceInv
    <3> QED
      BY <2>3, <2>9, <3>1, ClosedOnce DEF MaskStep
  <2>10. ASSUME NEW l \in Labels, LabelStep(l) PROVE OnceInv'
    <3>1. PICK mk : Emits("label", parents \o from_node[l], mk)
      BY <2>10 DEF LabelStep
    <3>2. NoRepeatedParent' /\ \A k \in Nodes : instruction'[k] = instruction[k]
      BY <2>5, <3>1
    <3>3. instruction'[n] = "label" /\ to_node' = [to_node EXCEPT ![l] = n]
      BY <2>10, <3>1 DEF LabelStep, Emits
    <3> HIDE DEF n
    <3>4. ASSUME NEW x \in Labels, to_node'[x] # 0 PROVE instruction'[to_node'[x]] = "label"
      <4>1. DOMAIN to_node = Labels
        BY <2>1 DEF TypeOK
      <4>2. CASE x = l
        BY <3>3, <4>1, <4>2
      <4>3. CASE x # l
        <5>1. to_node'[x] = to_node[x]
          BY <3>3, <4>3
        <5> QED
          BY <2>2, <3>2, <3>4, <5>1 DEF OnceInv
      <4> QED
        BY <4>2, <4>3
    <3> QED
      BY <3>2, <3>4 DEF OnceInv
  <2>11. ASSUME NEW l \in Labels, BranchStep(l) PROVE OnceInv'
    <3>1. PICK op \in {"s_br", "s_nbr", "s_branch"} : BranchTo(op, l)
      BY <2>11 DEF BranchStep
    <3>2. Branches(op, l) /\ to_node' = to_node
      BY <2>1, <3>1, BranchBranches DEF Opcodes, BranchTo
    <3>3. \A k \in Nodes : instruction[k] # "label" => parent'[k] = parent[k]
      <4> TAKE k \in Nodes
      <4>1. 0 \notin Nodes
        BY <2>2 DEF Nodes
      <4>2. k = to_node[l] => instruction[k] = "label"
        BY <4>1 DEF OnceInv
      <4> QED
        BY <3>2, <4>2 DEF Branches
    <3>4. /\ Nodes' = 1 .. n /\ Nodes = 1 .. last_node
          /\ \A k \in Nodes : instruction'[k] = instruction[k]
          /\ parent'[n] = parents
      BY <3>2 DEF Branches
    <3> HIDE DEF n
    <3>5. NoRepeatedParent'
      BY <2>3, <2>4, <3>3, <3>4
    <3> QED
      BY <2>6, <3>2, <3>4, <3>5 DEF OnceInv
  <2> QED
    BY <2>1, <2>7, <2>8, <2>9, <2>10, <2>11 DEF StepKinds
<1>3. OnceInv => NoRepeatedParent
  BY DEF OnceInv
<1> QED
  BY <1>1, <1>2, <1>3, StackCorrect, PTL DEF Spec
==============================================================================
