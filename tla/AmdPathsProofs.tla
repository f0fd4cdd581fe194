---------------------------- MODULE AmdPathsProofs ----------------------------
(***************************************************************************)
(* The graph of structured kernels, for every number of registers and      *)
(* comparisons and every depth of nesting: every lane runs through the     *)
(* computations and stores that the hardware executes for it, and every    *)
(* definition of a register that stays known has a version of its own.     *)
(***************************************************************************)
EXTENDS AmdMasksProofs

------------------------------------------------------------------------------
(***************************************************************************)
(* What the conditionals fs, that the pass has seen, have left open in the *)
(* graph.                                                                  *)
(***************************************************************************)
\* The node that the else or the end of the k-th conditional is attached to: where it began or,
\* after its else, the end of its then-branch.
Pending(fs, k) ==
  IF fs[k].kind = "mask" THEN ClosedParent(masked_blocks[Masks(fs, k) + 1])
                         ELSE Last(from_node[fs[k].label])

\* Only the jump to the end of a conditional ends with an unconditional branch.
Going == instruction[last_node] # "s_branch"

\* The k-th conditional waits at a node newer than those of the conditionals around it, and older
\* than the newest node unless it has just been entered.
WaitsAt(fs, k) ==
  LET p == Pending(fs, k)
      f == fs[k]
  IN  /\ p \in Nodes
      /\ \A j \in 1 .. k - 1 : Pending(fs, j) < p
      /\ p = last_node => k = Len(fs) /\ f.branch = "then"
      /\ f.kind = "mask" =>
           (masked_blocks[Masks(fs, k) + 1].previous_branch_end = no_parent <=> f.branch = "then")
      /\ f.kind = "branch" => from_node[f.label] = <<p>>
      /\ f.kind = "branch" /\ f.branch = "then" =>
           /\ instruction[p] \in {"s_br", "s_nbr"}
           /\ from_node[f.label + 1] = IF Going \/ k # Len(fs) THEN <<>> ELSE <<last_node>>

EndIR == IR("endpgm", "exec", "exec", "exec")

\* The conditionals that the machine instructions have turned or left, and the pass has not.
Behind(fs) == fs # <<>> /\ (frames = WithElse(fs) \/ frames = Front(fs))
Entering(fs) == frames # <<>> /\ frames = Append(fs, Top)

Waiting(fs) == Len(fs) \in Nat /\ \A k \in 1 .. Len(fs) : WaitsAt(fs, k)

\* What depends on the instructions that are still to be added.
Phased(fs) ==
  /\ ~Going =>
       /\ fs # <<>> /\ frames = WithElse(fs) /\ fs[Len(fs)].kind = "branch"
       /\ todo = <<LabelIR(fs[Len(fs)].label)>>
  /\ Entering(fs) /\ Top.kind = "branch" =>
       from_node[Top.label] = <<>> /\ from_node[Top.label + 1] = <<>>
  /\ Behind(fs) /\ Len(todo) = 1 => Pending(fs, Len(fs)) # last_node
  /\ todo = <<EndIR>> => \A k \in 1 .. Len(fs) : fs[k].kind = "mask"

LabelsAhead == \A l \in Labels : l > 2 * ifs => from_node[l] = <<>>

\* Every node but the root has parents, which are older.
Rooted ==
  /\ instruction[1] = "root" /\ parent[1] = <<>>
  /\ \A n \in Nodes : n # 1 => parent[n] # <<>>
  /\ \A n \in Nodes : \A i \in DOMAIN parent[n] : parent[n][i] \in 1 .. n - 1

Tracked(fs) == Waiting(fs) /\ Phased(fs) /\ LabelsAhead /\ Rooted

------------------------------------------------------------------------------
(***************************************************************************)
(* The lanes that reach each node.                                         *)
(***************************************************************************)
\* The lanes whose wave the pass believes here, w: it learns of a branch or a label when that
\* enters the graph.
Believed(fs, w) ==
  LET f == fs[Len(fs)]
      i == Top.cmp
      l == Top.label
  IN  \/ frames = fs /\ w = waves
      \/ Entering(fs) /\ Top.kind = "mask" /\ w = waves
      \/ /\ Entering(fs) /\ Top.kind = "branch" /\ w = Top.waves
         /\ \E b \in {<<IR("bra_n", l, l, l), w \cap True(i)>>, <<IR("bra", l, l, l), w \ True(i)>>} :
              /\ waves = b[2]
              /\ \/ todo = <<FlagIR(i), b[1]>>
                 \/ todo = <<b[1]>> /\ state[last_node]["scc"].text = Cmp(i)
      \/ Behind(fs) /\ f.kind = "mask" /\ w = waves
      \/ /\ Behind(fs) /\ f.kind = "branch" /\ w \subseteq f.waves
         /\ waves = IF frames = Front(fs) THEN f.waves ELSE f.waves \ w

\* The lanes that the first k conditionals let through, and those that the k-th one keeps out.
Inside(fs, w, k) == {l \in Lanes : Beyond(fs, w, k, l) /\ Satisfies(l, Cond(fs, k))}
Outer(fs, w, k) == Inside(fs, w, k - 1) \ Inside(fs, w, k)

\* Of the lanes that reach node n, those that go on to its first child and to its second.
ToFirst(reach, n) == {l \in reach[n] : Satisfies(l, Condition_of(n))}
ToSecond(reach, n) == reach[n] \ ToFirst(reach, n)

\* The lanes that the next child of a node gets.
Sent(reach, n) == IF children[n] = <<>> THEN ToFirst(reach, n) ELSE ToSecond(reach, n)

\* A node is reached by what its parents send there.
Along(reach, p, n) == IF children[p] # <<>> /\ children[p][1] = n THEN ToFirst(reach, p) ELSE ToSecond(reach, p)
Reached(reach, n) == reach[n] = UNION {Along(reach, p, n) : p \in Range(parent[n])}

\* A node has both children, or one and no lanes for another.
Complete(reach, n) ==
  \/ Len(children[n]) = 1 /\ ToSecond(reach, n) = {}
  \/ Len(children[n]) = 2 /\ children[n][1] # children[n][2]

\* What the k-th conditional has left open is what the hardware has left to execute.
Leaving(fs, w, reach, k) ==
  LET p == Pending(fs, k)
  IN  IF p = last_node THEN ToSecond(reach, p) = Outer(fs, w, k)
      ELSE /\ Sent(reach, p) = Outer(fs, w, k)
           /\ IF fs[k].branch = "then" THEN Len(children[p]) = 1
                                       ELSE children[p] = <<>> /\ ToSecond(reach, p) = {}

Pendings(fs) == {Pending(fs, k) : k \in 1 .. Len(fs)}

Graphed(reach) ==
  /\ reach \in [Nodes -> SUBSET Lanes] /\ reach[1] = Lanes
  /\ \A n \in Nodes : n # 1 => Reached(reach, n)
  /\ \A n \in Effects : reach[n] = active[n]

Flow(fs, w, reach) ==
  /\ Graphed(reach)
  /\ children[last_node] = <<>> /\ ToFirst(reach, last_node) = Inside(fs, w, Len(fs))
  /\ last_node \notin Pendings(fs) => ToSecond(reach, last_node) = {}
  /\ \A k \in 1 .. Len(fs) : Leaving(fs, w, reach, k)
  /\ \A n \in Nodes : n = last_node \/ n \in Pendings(fs) \/ Complete(reach, n)

------------------------------------------------------------------------------
(***************************************************************************)
(* The versions of a register.                                             *)
(***************************************************************************)
Ver(n, r) == state[n][r].ver
Newest(fs, r) ==
  \/ versions[r] = Ver(last_node, r)
  \/ \E k \in 1 .. Len(fs) :
       /\ Ver(Pending(fs, k), r) = versions[r]
       /\ \A j \in k + 1 .. Len(fs) : Ver(Pending(fs, j), r) = Ver(last_node, r)
Versioned(fs, r) ==
  /\ \A n \in Nodes : Ver(n, r) <= versions[r]
  /\ VersionsDiffer(r) /\ Newest(fs, r)

------------------------------------------------------------------------------
(***************************************************************************)
(* A new node.                                                             *)
(***************************************************************************)
\* Node last_node' is new, does op and has parents ps: it is their newest child.
Added(op, ps) ==
  /\ last_node \in Nat /\ last_node > 0 /\ last_node' = last_node + 1
  /\ Nodes = 1 .. last_node /\ Nodes' = 1 .. last_node + 1
  /\ \A k \in Nodes : /\ instruction'[k] = instruction[k] /\ parent'[k] = parent[k]
                      /\ mask'[k] = mask[k] /\ state'[k] = state[k]
  /\ instruction'[last_node'] = op /\ parent'[last_node'] = ps /\ children'[last_node'] = <<>>
  /\ ps \in Seq(Nodes)
  /\ \A k \in Nodes :
       children'[k] = IF k \in Range(ps) THEN Append(children[k], last_node') ELSE children[k]

\* A parent that occurs once gets the new node once.
LEMMA AttachOnce ==
  ASSUME NEW S, NEW p \in Nodes, children[p] \in Seq(S), NEW T, NEW ps \in Seq(T), Injective(ps), NEW n \in S
  PROVE  Attach(p, ps, n) = IF p \in Range(ps) THEN Append(children[p], n) ELSE children[p]
<1> DEFINE Places == {j \in DOMAIN ps : ps[j] = p}
<1>1. CASE p \in Range(ps)
  <2>1. PICK j \in DOMAIN ps : ps[j] = p
    BY <1>1 DEF Range
  <2>2. Places = {j}
    BY <2>1 DEF Injective
  <2>3. Cardinality(Places) = 1
    BY <2>2, FS_Singleton
  <2>4. Attach(p, ps, n) = children[p] \o [i \in 1 .. 1 |-> n]
    BY <2>3 DEF Attach
  <2>5. [i \in 1 .. 1 |-> n] = <<n>>
    OBVIOUS
  <2>6. Append(children[p], n) = children[p] \o <<n>>
    BY AppendIsConcat
  <2> QED
    BY <1>1, <2>4, <2>5, <2>6
<1>2. CASE p \notin Range(ps)
  <2>1. Places = {}
    BY <1>2 DEF Range
  <2>2. Cardinality(Places) = 0
    BY <2>1, FS_EmptySet
  <2>3. Attach(p, ps, n) = children[p] \o [i \in 1 .. 0 |-> n]
    BY <2>2 DEF Attach
  <2>4. [i \in 1 .. 0 |-> n] = <<>>
    OBVIOUS
  <2>5. children[p] \o <<>> = children[p]
    BY ConcatEmptySeq
  <2> QED
    BY <1>2, <2>3, <2>4, <2>5
<1> QED
  BY <1>1, <1>2

LEMMA EmitAdds ==
  ASSUME TypeOK, NEW op \in Opcodes, NEW ps \in Seq(Nodes), Injective(ps), NEW mk \in Condition,
         NEW st, NEW vs, EmitNode(op, ps, st, vs, mk)
  PROVE  /\ Added(op, ps) /\ mask'[last_node'] = mk
         /\ Len(ps) <= 1 => state'[last_node'] = st /\ versions' = vs
         /\ Len(ps) > 1 => state'[last_node'] = MergedState(st, ps) /\ update_reg_version(st, ps, vs)
<1>1. Emits(op, ps, mk)
  BY EmitEmits
<1>2. last_node \in Nat /\ last_node > 0 /\ last_node' = last_node + 1 /\ last_node = Len(instruction)
  BY <1>1, NewNode DEF EmitNode, last_node, Emits
<1>3. children \in [Nodes -> Seq(Nodes)] /\ state \in [1 .. last_node -> [Regs -> RegState]]
  BY <1>1 DEF TypeOK, Emits
<1> DEFINE new == IF Len(ps) > 1 THEN MergedState(st, ps) ELSE st
           S == [Regs -> RegState] \cup {new}
<1>4. state' = Append(state, new)
  BY DEF EmitNode
<1>5. state \in [1 .. last_node -> S] /\ new \in S
  BY <1>3
<1> HIDE DEF new, S
<1>6. state'[last_node + 1] = new /\ \A k \in 1 .. last_node : state'[k] = state[k]
  BY <1>2, <1>4, <1>5, AppendOne
<1>7. \A k \in Nodes :
        children'[k] = IF k \in Range(ps) THEN Append(children[k], last_node') ELSE children[k]
  <2> TAKE k \in Nodes
  <2>1. children[k] \in Seq(Nodes) /\ Nodes \subseteq Nodes' /\ last_node' \in Nodes'
    BY <1>1, <1>2, <1>3 DEF Emits
  <2>2. children[k] \in Seq(Nodes')
    BY <2>1, SeqMonotonic
  <2>3. Attach(k, ps, last_node') = IF k \in Range(ps) THEN Append(children[k], last_node') ELSE children[k]
    BY <2>1, <2>2, AttachOnce
  <2> QED
    BY <1>1, <1>2, <2>3 DEF Emits
<1>8. Len(ps) \in Nat
  BY LenProperties
<1>9. /\ Len(ps) <= 1 => new = st /\ versions' = vs
      /\ Len(ps) > 1 => new = MergedState(st, ps) /\ update_reg_version(st, ps, vs)
  BY <1>8 DEF EmitNode, new
<1> QED
  BY <1>1, <1>2, <1>6, <1>7, <1>9 DEF Emits, Added

\* So do the branches to a label that is still to come.
LEMMA BranchAdds ==
  ASSUME TypeInv, NEW op \in Opcodes, NEW l \in Labels, BranchTo(op, l), to_node[l] = 0
  PROVE  /\ Added(op, parents)
         /\ from_node' = [from_node EXCEPT ![l] = Append(@, last_node')]
         /\ masked_blocks' = masked_blocks /\ versions' = versions
         /\ state'[last_node'] = state[last_node]
<1>1. Branches(op, l) /\ Grown(mask[last_node], state[last_node]) /\ state'[last_node'] = state[last_node]
  BY BranchBranches, BranchGrown
<1>2. TypeOK /\ parents \in Seq(Nodes) /\ Injective(parents) /\ 0 \notin Nodes
  BY ParentsType DEF TypeInv, parents, Injective, Nodes
<1>3. \A k \in Nodes :
        children'[k] = IF k \in Range(parents) THEN Append(children[k], last_node') ELSE children[k]
  <2> TAKE k \in Nodes
  <2>0. children \in [Nodes -> Seq(Nodes)]
    BY <1>2 DEF TypeOK
  <2>1. children[k] \in Seq(Nodes) /\ Nodes \subseteq Nodes' /\ last_node' \in Nodes'
    BY <1>1, <2>0 DEF Grown
  <2>2. children[k] \in Seq(Nodes')
    BY <2>1, SeqMonotonic
  <2>3. Attach(k, parents, last_node') = IF k \in Range(parents) THEN Append(children[k], last_node') ELSE children[k]
    BY <1>2, <2>1, <2>2, AttachOnce
  <2> QED
    BY <1>1, <2>3 DEF Branches, Grown
<1>4. parent'[last_node'] = parents /\ children'[last_node'] = <<>> /\ \A k \in Nodes : parent'[k] = parent[k]
  BY <1>1, <1>2 DEF Branches, Grown
<1>5. from_node' = [from_node EXCEPT ![l] = Append(@, last_node')]
      /\ masked_blocks' = masked_blocks /\ versions' = versions
  BY <1>1 DEF BranchTo, Grown, naming
<1> QED
  BY <1>1, <1>2, <1>3, <1>4, <1>5 DEF Branches, Grown, Added

------------------------------------------------------------------------------
(***************************************************************************)
(* What a new node does to the conditionals that stay open.                *)
(***************************************************************************)
\* The first q conditionals wait where they did.
Still(fs, gs, q) ==
  \A k \in 1 .. q : gs[k] = fs[k] /\ Pending(fs, k) \in Nodes /\ Pending(gs, k)' = Pending(fs, k)

\* Their masks and labels are left alone, but for the jump to the end of the innermost one.
Untouched(fs, gs, q) ==
  \A k \in 1 .. q :
    /\ gs[k] = fs[k]
    /\ fs[k].kind = "mask" => masked_blocks'[Masks(fs, k) + 1] = masked_blocks[Masks(fs, k) + 1]
    /\ fs[k].kind = "branch" =>
         /\ from_node'[fs[k].label] = from_node[fs[k].label]
         /\ fs[k].branch = "then" =>
              from_node'[fs[k].label + 1] = IF Going' \/ k # Len(gs) THEN <<>> ELSE <<last_node'>>

LEMMA StillWait ==
  ASSUME NEW op, NEW ps, Added(op, ps), NEW fs, NEW m, Nested(fs, m), Waiting(fs), NEW gs,
         NEW q \in Nat, q <= Len(fs), Untouched(fs, gs, q)
  PROVE  Still(fs, gs, q) /\ \A k \in 1 .. q : WaitsAt(gs, k)'
<1>1. Len(fs) \in Nat /\ \A k \in 1 .. q : k \in 1 .. Len(fs) /\ WaitsAt(fs, k)
  BY DEF Waiting
<1>2. ASSUME NEW k \in 1 .. q
      PROVE  /\ gs[k] = fs[k] /\ Masks(gs, k) = Masks(fs, k)
             /\ Pending(fs, k) \in Nodes /\ Pending(gs, k)' = Pending(fs, k)
  <2>1. k \in 1 .. q /\ \A j \in 1 .. k : j \in 1 .. q
    BY <1>2
  <2>2. gs[k] = fs[k] /\ Masks(gs, k) = Masks(fs, k)
    BY <2>1, MasksSame DEF Untouched
  <2>3. Pending(fs, k) \in Nodes
    BY <1>1, <2>1 DEF WaitsAt
  <2>4. fs[k].kind = "branch" => from_node'[fs[k].label] = from_node[fs[k].label]
    BY <2>1 DEF Untouched
  <2>5. fs[k].kind \in {"mask", "branch"}
    BY <1>1, <2>1, SavesOf, FrameType
  <2>6. fs[k].kind = "mask" => masked_blocks'[Masks(fs, k) + 1] = masked_blocks[Masks(fs, k) + 1]
    BY <2>1 DEF Untouched
  <2> QED
    BY <2>2, <2>3, <2>4, <2>5, <2>6 DEF Pending
<1>3. ASSUME NEW k \in 1 .. q PROVE WaitsAt(gs, k)'
  <2> DEFINE p == Pending(fs, k)
             f == fs[k]
  <2>1. k \in 1 .. q /\ \A j \in 1 .. k - 1 : j \in 1 .. q
    BY <1>3
  <2>2. /\ WaitsAt(fs, k) /\ gs[k] = f /\ Masks(gs, k) = Masks(fs, k)
        /\ p \in Nodes /\ Pending(gs, k)' = p
        /\ \A j \in 1 .. k - 1 : Pending(gs, j)' = Pending(fs, j)
    BY <1>1, <1>2, <2>1
  <2>3. /\ p \in Nodes' /\ p # last_node' /\ instruction'[p] = instruction[p]
    BY <2>2 DEF Added
  <2>4. \A j \in 1 .. k - 1 : Pending(gs, j)' < Pending(gs, k)'
    BY <2>2 DEF WaitsAt
  <2>5. f.kind = "mask" => (masked_blocks'[Masks(gs, k) + 1].previous_branch_end = no_parent <=> f.branch = "then")
    BY <2>1, <2>2 DEF WaitsAt, Untouched
  <2>6. f.kind = "branch" => from_node'[f.label] = <<p>>
    BY <2>1, <2>2 DEF WaitsAt, Untouched
  <2>7. f.kind = "branch" /\ f.branch = "then" =>
          /\ instruction'[p] \in {"s_br", "s_nbr"}
          /\ from_node'[f.label + 1] = IF Going' \/ k # Len(gs) THEN <<>> ELSE <<last_node'>>
    BY <2>1, <2>2, <2>3 DEF WaitsAt, Untouched
  <2> HIDE DEF p, f
  <2> QED
    BY <2>2, <2>3, <2>4, <2>5, <2>6, <2>7 DEF WaitsAt
<1> QED
  BY <1>2, <1>3 DEF Still

------------------------------------------------------------------------------
(***************************************************************************)
(* How one IR instruction moves the graph on.  Those that open, turn and   *)
(* close conditionals bring it level with the machine instructions.        *)
(***************************************************************************)
\* The new node has the version that node n has of a register, or a new one.
Carries(n) ==
  \A r \in ScalarSet :
    \/ versions'[r] = versions[r] /\ Ver(last_node, r)' = Ver(n, r)
    \/ versions'[r] = versions[r] + 1 /\ Ver(last_node, r)' = versions[r] + 1

\* It starts from the state of node n and merges what comes from its parents.
Merges(n, ps) ==
  LET M == Merged(state[n], ps)
  IN  /\ state'[last_node'] = MergedState(state[n], ps)
      /\ versions' = [r \in Regs |-> IF r \in M THEN max_version(r, ps) + 1 ELSE versions[r]]

BodyOps == {"arith", "plain"}
GoOps == BodyOps \cup {"v_cmp", "s_mov_b64", "s_and_b64", "s_or_b64", "s_xor_b64", "s_branch"}

Goes(fs) ==
  /\ Still(fs, fs, Len(fs)) /\ Carries(last_node)
  /\ \E op \in GoOps : Added(op, <<last_node>>) /\ (op \in BodyOps => frames = fs)
Enters(fs, gs) ==
  /\ gs = Append(fs, Top) /\ Still(fs, gs, Len(fs)) /\ Carries(last_node)
  /\ Pending(gs, Len(fs) + 1)' = last_node'
  /\ \E op \in {"change_mask", "s_br", "s_nbr"} : Added(op, <<last_node>>)
TurnsAt(fs, gs) ==
  LET p == Pending(fs, Len(fs))
  IN  /\ fs # <<>> /\ fs[Len(fs)].branch = "then" /\ gs = WithElse(fs) /\ Still(fs, gs, Len(fs) - 1)
      /\ Carries(p) /\ p \in Nodes /\ p # last_node /\ Pending(gs, Len(fs))' = last_node
      /\ \E op \in {"change_mask", "label"} : Added(op, <<p>>)
LeavesAt(fs, gs) ==
  LET p == Pending(fs, Len(fs))
  IN  /\ fs # <<>> /\ gs = Front(fs) /\ Still(fs, gs, Len(fs) - 1)
      /\ p \in Nodes /\ p # last_node /\ (\E n \in {last_node, p} : Merges(n, <<last_node, p>>))
      /\ \E op \in {"change_mask", "label"} : Added(op, <<last_node, p>>)

\* A branch that is entered lets the lanes through whose wave is here.
Chooses(w) ==
  /\ Top.kind = "mask" => instruction'[last_node'] = "change_mask"
  /\ Top.kind = "branch" =>
       /\ waves \subseteq w /\ instruction'[last_node'] \in {"s_br", "s_nbr"}
       /\ \A l \in w : Satisfies(l, Condition_of(last_node)') <=> l \in waves
Moves(fs, gs, w, v) ==
  \/ gs = fs /\ v = w /\ Goes(fs)
  \/ gs = frames /\ v = waves /\ ((Enters(fs, gs) /\ Chooses(w)) \/ TurnsAt(fs, gs) \/ LeavesAt(fs, gs))

\* All that is known of the pass, and what a step makes of it.
Knows(fs, w) == MasksInv /\ Lags(fs) /\ Tracked(fs) /\ Believed(fs, w)
Continues(fs, w) ==
  \E gs, v : Lags(gs)' /\ Tracked(gs)' /\ Believed(gs, v)' /\ Moves(fs, gs, w, v)

\* Instructions that write a register, or none.
GoIRs == {"cmp", "mov", "and", "or", "xor", "arith", "store"}

LEMMA DefineGoes ==
  ASSUME TypeOK, Going, NEW op \in GoOps, NEW d, NEW txt, Define(op, d, txt)
  PROVE  Added(op, <<last_node>>) /\ Carries(last_node)
<1>1. parents = <<last_node>> /\ last_node \in Nodes /\ mask[last_node] \in Condition
  BY LastTypes, ParentsType DEF Going, parents
<1>2. <<last_node>> \in Seq(Nodes) /\ Injective(<<last_node>>) /\ Len(<<last_node>>) = 1 /\ op \in Opcodes
  BY <1>1 DEF Injective, GoOps, BodyOps, Opcodes
<1> DEFINE st == SetReg(state[last_node], d, txt)
<1>3. EmitNode(op, <<last_node>>, st, Bump(d), mask[last_node])
  BY <1>1 DEF Define
<1>4. Added(op, <<last_node>>) /\ state'[last_node'] = st /\ versions' = Bump(d)
  <2>1. PICK ps, s, vs, mk : ps = <<last_node>> /\ s = st /\ vs = Bump(d) /\ mk = mask[last_node]
    OBVIOUS
  <2> HIDE DEF st
  <2>2. /\ ps \in Seq(Nodes) /\ Injective(ps) /\ op \in Opcodes /\ mk \in Condition /\ Len(ps) <= 1
        /\ EmitNode(op, ps, s, vs, mk)
    BY <1>1, <1>2, <1>3, <2>1
  <2>3. Added(op, ps) /\ state'[last_node'] = s /\ versions' = vs
    BY <2>2, EmitAdds
  <2> QED
    BY <2>1, <2>3
<1>5. /\ state[last_node] \in [Regs -> RegState] /\ versions \in [Regs -> Nat] /\ ScalarSet \subseteq Regs
  BY LastTypes, KernelRegs
<1>6. ASSUME NEW r \in ScalarSet
      PROVE  \/ versions'[r] = versions[r] /\ state'[last_node'][r].ver = state[last_node][r].ver
             \/ versions'[r] = versions[r] + 1 /\ state'[last_node'][r].ver = versions[r] + 1
  <2>1. r \in Regs
    BY <1>5, <1>6
  <2>2. CASE r = d
    BY <1>4, <1>5, <2>1, <2>2 DEF SetReg, Bump
  <2>3. CASE r # d
    BY <1>4, <1>5, <2>1, <2>3 DEF SetReg, Bump
  <2> QED
    BY <2>2, <2>3
<1> QED
  BY <1>4, <1>6 DEF Carries, Ver

LEMMA BuildGoes ==
  ASSUME TypeOK, Going, NEW ir, ir.op \in GoIRs, Build(ir), running'
  PROVE  /\ masked_blocks' = masked_blocks /\ from_node' = from_node
         /\ \E op \in GoOps \ {"s_branch"} :
              /\ Added(op, <<last_node>>) /\ Carries(last_node)
              /\ op \in BodyOps => ir.op \in {"arith", "store"}
<1>0. ~\E x \in {"MissingRegister", "AssertionError"} : Fail(x)
  BY DEF Fail, running
<1>1. CASE ir.op \in {"cmp", "mov", "and", "or", "xor"}
  <2>1. \E d, txt : \E op \in {"v_cmp", "s_mov_b64", "s_and_b64", "s_or_b64", "s_xor_b64"} :
          Define(op, d, txt) /\ UNCHANGED <<jumps, masked_blocks>>
    BY <1>0, <1>1 DEF Build, VCmp, SMov, SAnd, SOr, SXor
  <2> QED
    BY <2>1, DefineGoes DEF GoOps, BodyOps, jumps
<1>2. CASE ir.op = "arith"
  <2>1. \E d, txt : Define("arith", d, txt) /\ UNCHANGED <<jumps, masked_blocks>>
    BY <1>2 DEF Build, Arith
  <2> QED
    BY <1>2, <2>1, DefineGoes DEF GoOps, BodyOps, jumps
<1>3. CASE ir.op = "store"
  <2>1. /\ EmitNode("plain", <<last_node>>, state[last_node], versions, mask[last_node])
        /\ UNCHANGED <<jumps, masked_blocks>>
    BY <1>3 DEF Build, Plain, parents, Going
  <2>2. /\ last_node \in Nodes /\ mask[last_node] \in Condition
        /\ <<last_node>> \in Seq(Nodes) /\ Injective(<<last_node>>) /\ Len(<<last_node>>) = 1
        /\ "plain" \in Opcodes
    BY LastTypes, ParentsType DEF Injective, Opcodes
  <2>3. Added("plain", <<last_node>>) /\ state'[last_node'] = state[last_node] /\ versions' = versions
    BY <2>1, <2>2, EmitAdds
  <2> QED
    BY <1>3, <2>1, <2>3 DEF GoOps, BodyOps, jumps, Carries, Ver
<1> QED
  BY <1>1, <1>2, <1>3 DEF GoIRs

LEMMA KnowsFacts ==
  ASSUME NEW fs, NEW w, Knows(fs, w), Step
  PROVE  /\ TypeInv /\ TypeOK /\ RestType /\ FramesInv /\ Steady /\ HwInv /\ running'
         /\ Len(fs) \in Nat /\ fs \in Seq(Frame) /\ Nested(fs, ifs) /\ Settled(fs) /\ ifs \in 0 .. MaxIfs
         /\ Waiting(fs) /\ Phased(fs) /\ LabelsAhead /\ Rooted /\ Believed(fs, w)
         /\ Build(Head(todo)) /\ todo # <<>> /\ todo' = Tail(todo)
         /\ frames' = frames /\ waves' = waves /\ ifs' = ifs /\ Top' = Top
<1>1. MasksInv /\ Lags(fs) /\ Tracked(fs) /\ Believed(fs, w)
  BY DEF Knows
<1>2. TypeInv /\ TypeOK /\ RestType /\ FramesInv /\ Steady /\ HwInv /\ ifs \in 0 .. MaxIfs
  BY <1>1, TypeParts DEF MasksInv, FramesInv, TypeInv
<1>3. running'
  BY <1>1, StepLags DEF Steady
<1>4. Nested(fs, ifs) /\ Settled(fs)
  BY <1>1 DEF Lags
<1>5. Len(fs) \in Nat /\ fs \in Seq(Frame)
  BY <1>4, SavesOf
<1>6. /\ Build(Head(todo)) /\ todo # <<>> /\ todo' = Tail(todo)
      /\ frames' = frames /\ waves' = waves /\ ifs' = ifs /\ Top' = Top
  BY DEF Step, Top
<1> QED
  BY <1>1, <1>2, <1>3, <1>4, <1>5, <1>6 DEF Tracked

\* The pass goes on with the conditionals it is at, or is level with the machine instructions.
LEMMA NextLags ==
  ASSUME NEW fs, NEW w, Knows(fs, w), Step, instruction'[last_node'] # "s_endpgm",
         NEW gs, (todo' # <<>> /\ gs = fs) \/ (todo' = <<>> /\ gs = frames)
  PROVE  Lags(gs)'
<1>1. GoesOn(fs)
  BY StepLags DEF Knows, Ended
<1>2. CASE todo' # <<>> /\ gs = fs
  BY <1>1, <1>2 DEF GoesOn
<1>3. CASE todo' = <<>> /\ gs = frames
  <2>1. PICK hs : Lags(hs)'
    BY <1>1 DEF GoesOn
  <2>2. ~Opening(hs)' /\ ~Switching(hs)' /\ ~Closing(hs)'
    BY <1>3 DEF Opening, Masking, Branching, Switching, Turning, Jumping, Closing, Restoring, Labelling
  <2>3. Level(hs)'
    BY <2>1, <2>2 DEF Lags
  <2>4. hs = gs
    BY <1>3, <2>3 DEF Level, Step
  <2> QED
    BY <2>1, <2>4
<1> QED
  BY <1>2, <1>3

LEMMA RootedNext ==
  ASSUME Rooted, NEW op, NEW ps, Added(op, ps), ps # <<>>
  PROVE  Rooted'
<1>1. /\ last_node \in Nat /\ last_node > 0 /\ last_node' = last_node + 1
      /\ Nodes = 1 .. last_node /\ Nodes' = 1 .. last_node + 1
      /\ \A k \in Nodes : instruction'[k] = instruction[k] /\ parent'[k] = parent[k]
      /\ parent'[last_node'] = ps /\ ps \in Seq(Nodes)
  BY DEF Added
<1>2. 1 \in Nodes /\ last_node' # 1 /\ \A n \in Nodes' : n \in Nodes \/ n = last_node'
  BY <1>1
<1>3. \A i \in DOMAIN ps : ps[i] \in 1 .. last_node' - 1
  BY <1>1
<1> QED
  BY <1>1, <1>2, <1>3 DEF Rooted

\* Nothing is believed otherwise unless a branch is about to be entered.
LEMMA BelievedSame ==
  ASSUME NEW fs, NEW w, Knows(fs, w), Step, ~(Entering(fs) /\ Top.kind = "branch")
  PROVE  Believed(fs, w)'
  BY KnowsFacts DEF Believed, Entering, Behind

\* A node follows the newest one, and the conditionals stay as they are.
LEMMA GoesContinue ==
  ASSUME NEW fs, NEW w, Knows(fs, w), Step, NEW op \in GoOps, Added(op, <<last_node>>),
         Carries(last_node), op \in BodyOps => frames = fs, todo' # <<>> \/ frames = fs,
         Untouched(fs, fs, Len(fs)), LabelsAhead', Believed(fs, w)',
         Still(fs, fs, Len(fs)) => Phased(fs)'
  PROVE  Continues(fs, w)
<1>1. Len(fs) \in Nat /\ Nested(fs, ifs) /\ Waiting(fs) /\ Rooted
  BY KnowsFacts
<1>2. Still(fs, fs, Len(fs)) /\ \A k \in 1 .. Len(fs) : WaitsAt(fs, k)'
  BY <1>1, StillWait
<1>3. Waiting(fs)' /\ Phased(fs)'
  BY <1>1, <1>2 DEF Waiting
<1>4. Rooted'
  BY <1>1, RootedNext
<1>5. instruction'[last_node'] # "s_endpgm"
  BY DEF Added, GoOps, BodyOps
<1>6. Lags(fs)'
  BY <1>5, NextLags
<1>7. Moves(fs, fs, w, w)
  BY <1>2 DEF Moves, Goes
<1> QED
  BY <1>3, <1>4, <1>6, <1>7 DEF Continues, Tracked

\* An instruction that writes a register, or none.
LEMMA IRGoes ==
  ASSUME NEW fs, NEW w, Knows(fs, w), Step, Head(todo).op \in GoIRs,
         todo' # <<EndIR>>, todo' # <<>> \/ frames = fs,
         Head(todo).op \in {"arith", "store"} => frames = fs, Believed(fs, w)'
  PROVE  Continues(fs, w)
<1>1. /\ TypeOK /\ Len(fs) \in Nat /\ Nested(fs, ifs) /\ Waiting(fs) /\ Phased(fs) /\ LabelsAhead
      /\ Build(Head(todo)) /\ running' /\ frames' = frames /\ ifs' = ifs /\ Top' = Top
  BY KnowsFacts
<1>2. Going
  <2>1. PICK f : f = fs[Len(fs)]
    OBVIOUS
  <2>2. ~Going => todo = <<LabelIR(f.label)>>
    BY <1>1, <2>1 DEF Phased
  <2>3. Head(<<LabelIR(f.label)>>).op = "label"
    BY DEF LabelIR, IR
  <2> QED
    BY <2>2, <2>3 DEF GoIRs
<1>3. /\ masked_blocks' = masked_blocks /\ from_node' = from_node
      /\ \E op \in GoOps \ {"s_branch"} :
           /\ Added(op, <<last_node>>) /\ Carries(last_node)
           /\ op \in BodyOps => Head(todo).op \in {"arith", "store"}
  BY <1>1, <1>2, BuildGoes
<1>4. PICK op \in GoOps \ {"s_branch"} :
           /\ Added(op, <<last_node>>) /\ Carries(last_node)
           /\ op \in BodyOps => Head(todo).op \in {"arith", "store"}
  BY <1>3
<1>5. Going'
  BY <1>4 DEF Added, Going
<1>6. Untouched(fs, fs, Len(fs))
  <2>1. \A k \in 1 .. Len(fs) : WaitsAt(fs, k)
    BY <1>1 DEF Waiting
  <2> QED
    BY <1>2, <1>3, <1>5, <2>1 DEF Untouched, WaitsAt
<1>7. LabelsAhead'
  BY <1>1, <1>3 DEF LabelsAhead
<1>8. ASSUME Still(fs, fs, Len(fs)) PROVE Phased(fs)'
  <2>1. (Entering(fs) /\ Top.kind = "branch")' => from_node'[Top.label] = <<>> /\ from_node'[Top.label + 1] = <<>>
    BY <1>1, <1>3 DEF Phased, Entering
  <2>2. fs # <<>> => Pending(fs, Len(fs))' # last_node'
    <3>1. fs # <<>> => Len(fs) \in 1 .. Len(fs)
      BY <1>1, KnowsFacts, EmptySeq
    <3> QED
      BY <1>4, <1>8, <3>1 DEF Still, Added
  <2> QED
    BY <1>1, <1>5, <2>1, <2>2 DEF Phased, Behind
<1> QED
  BY <1>3, <1>4, <1>6, <1>7, <1>8, GoesContinue

\* What the pass is at, by the number of conditionals that the machine has open.
LEMMA Apart ==
  ASSUME NEW fs, NEW m \in 0 .. MaxIfs, Nested(fs, m)
  PROVE  /\ Len(Append(fs, Top)) = Len(fs) + 1 /\ Len(fs) \in Nat
         /\ fs # <<>> => Len(fs) \in 1 .. Len(fs) /\ Len(Front(fs)) = Len(fs) - 1
         /\ Switching(fs) => Len(frames) = Len(fs) /\ frames # fs /\ ~Entering(fs)
         /\ Closing(fs) => Len(frames) = Len(fs) - 1 /\ frames # fs /\ ~Entering(fs)
         /\ frames = fs => ~Entering(fs)
<1>1. Len(fs) \in Nat /\ fs \in Seq(Frame)
  BY SavesOf
<1>2. Len(Append(fs, Top)) = Len(fs) + 1
  BY <1>1 DEF Append
<1>3. fs # <<>> => Len(fs) \in 1 .. Len(fs) /\ Len(Front(fs)) = Len(fs) - 1
  BY <1>1, FrontProperties
<1>4. Switching(fs) => Len(frames) = Len(fs) /\ frames # fs
  <2> SUFFICES ASSUME Switching(fs) PROVE Len(frames) = Len(fs) /\ frames # fs
    OBVIOUS
  <2>1. fs # <<>> /\ fs[Len(fs)].branch = "then" /\ frames = WithElse(fs)
    BY DEF Switching
  <2>2. /\ Len(WithElse(fs)) = Len(fs) /\ WithElse(fs)[Len(fs)] = Elsed(fs[Len(fs)])
        /\ fs[Len(fs)].kind = "branch" => fs[Len(fs)].label + 1 \in Labels
    BY <2>1, NestedElse
  <2>3. fs[Len(fs)] \in Frame
    BY <1>3, <2>1, SavesOf
  <2>4. Elsed(fs[Len(fs)]).branch = "else"
    BY <2>1, <2>2, <2>3, ElsedType
  <2> QED
    BY <2>1, <2>2, <2>4
<1>5. Closing(fs) => Len(frames) = Len(fs) - 1 /\ frames # fs
  BY <1>1, <1>3 DEF Closing
<1> QED
  BY <1>1, <1>2, <1>3, <1>4, <1>5 DEF Entering

LEMMA JumpGoes ==
  ASSUME NEW fs, NEW w, Knows(fs, w), Step, Switching(fs), fs[Len(fs)].kind = "branch",
         todo = <<JumpIR(fs[Len(fs)].label + 1), LabelIR(fs[Len(fs)].label)>>
  PROVE  Continues(fs, w)
<1> DEFINE n == Len(fs)
           l == fs[n].label
<1>1. /\ TypeInv /\ n \in Nat /\ Nested(fs, ifs) /\ Waiting(fs) /\ Phased(fs) /\ LabelsAhead
      /\ Build(Head(todo)) /\ todo' = Tail(todo) /\ frames' = frames /\ ifs' = ifs /\ Top' = Top
      /\ ifs \in 0 .. MaxIfs /\ Settled(fs)
  BY KnowsFacts
<1>2. fs # <<>> /\ fs[n].branch = "then" /\ frames = WithElse(fs) /\ n \in 1 .. n /\ ~Entering(fs) /\ frames # fs
  BY <1>1, Apart DEF Switching
<1>3. Going
  <2>1. todo # <<LabelIR(l)>>
    OBVIOUS
  <2> QED
    BY <1>1, <2>1 DEF Phased
<1>4. /\ l \in Labels /\ l \in Nat /\ l + 1 \in Labels /\ l + 1 <= 2 * ifs
      /\ \A j \in 1 .. n - 1 : fs[j].kind = "branch" =>
           /\ fs[j].label \in Labels /\ fs[j].label < l
           /\ fs[j].branch = "then" => fs[j].label + 1 \in Labels /\ fs[j].label + 1 < l
  BY <1>1, <1>2, LabelsApart
<1>5. BranchTo("s_branch", l + 1) /\ todo' = <<LabelIR(l)>> /\ to_node[l + 1] = 0
  BY <1>1, <1>2, BuildOf DEF Settled, LabelsWait
<1>6. "s_branch" \in Opcodes /\ parents = <<last_node>>
  BY <1>3 DEF Opcodes, parents, Going
<1>7. /\ Added("s_branch", <<last_node>>)
      /\ from_node' = [from_node EXCEPT ![l + 1] = Append(@, last_node')]
      /\ masked_blocks' = masked_blocks /\ versions' = versions
      /\ state'[last_node'] = state[last_node]
  BY <1>1, <1>4, <1>5, <1>6, BranchAdds
<1>8. Carries(last_node)
  BY <1>7 DEF Carries, Ver
<1>9. ~Going'
  BY <1>7 DEF Added, Going
<1>10. \A k \in 1 .. n : WaitsAt(fs, k)
  BY <1>1 DEF Waiting
<1>11. from_node \in [Labels -> Seq(Nodes)]
  BY <1>1, TypeParts DEF RestType
<1> HIDE DEF n, l
<1>12. from_node'[l + 1] = <<last_node'>> /\ \A x \in Labels \ {l + 1} : from_node'[x] = from_node[x]
  <2>1. from_node[l + 1] = <<>>
    BY <1>2, <1>3, <1>10 DEF WaitsAt, n, l
  <2>2. from_node'[l + 1] = Append(<<>>, last_node')
    BY <1>4, <1>7, <1>11, <2>1
  <2> QED
    BY <1>7, <1>11, <2>2
<1>13. Untouched(fs, fs, n)
  <2>1. ASSUME NEW k \in 1 .. n, fs[k].kind = "branch"
        PROVE  /\ from_node'[fs[k].label] = from_node[fs[k].label]
               /\ fs[k].branch = "then" =>
                    from_node'[fs[k].label + 1] = IF Going' \/ k # Len(fs) THEN <<>> ELSE <<last_node'>>
    <3>1. CASE k = n
      <4>1. l \in Labels \ {l + 1}
        BY <1>4
      <4>2. from_node'[l] = from_node[l]
        BY <1>12, <4>1
      <4> QED
        BY <1>9, <1>12, <3>1, <4>2 DEF n, l
    <3>2. CASE k # n
      <4>1. k \in 1 .. n - 1
        BY <1>1, <3>2
      <4>2. /\ fs[k].label \in Labels \ {l + 1}
            /\ fs[k].branch = "then" => fs[k].label + 1 \in Labels \ {l + 1}
        BY <1>4, <2>1, <4>1, LabelsType
      <4>3. fs[k].branch = "then" => from_node[fs[k].label + 1] = <<>>
        BY <1>3, <1>10, <2>1 DEF WaitsAt
      <4> QED
        BY <1>12, <3>2, <4>2, <4>3 DEF n
    <3> QED
      BY <3>1, <3>2
  <2> QED
    BY <1>7, <2>1 DEF Untouched
<1>14. LabelsAhead'
  <2>1. \A x \in Labels : x > 2 * ifs => x \in Labels \ {l + 1}
    BY <1>1, <1>4, LabelsType
  <2> QED
    BY <1>1, <1>12, <2>1 DEF LabelsAhead
<1>15. ASSUME Still(fs, fs, n) PROVE Phased(fs)'
  <2>1. Pending(fs, n)' # last_node'
    BY <1>2, <1>7, <1>15 DEF Still, Added
  <2>2. ~Entering(fs)'
    BY <1>1, <1>2 DEF Entering
  <2>3. todo' # <<EndIR>>
    <3>1. LabelIR(l).op # EndIR.op
      BY DEF LabelIR, EndIR, IR
    <3> QED
      BY <1>5, <3>1
  <2> QED
    BY <1>1, <1>2, <1>5, <2>1, <2>2, <2>3 DEF Phased, n, l, Switching
<1>16. Believed(fs, w)'
  BY <1>2, BelievedSame
<1>17. "s_branch" \in GoOps \ BodyOps /\ todo' # <<>>
  BY <1>5 DEF GoOps, BodyOps
<1> QED
  BY <1>7, <1>8, <1>13, <1>14, <1>15, <1>16, <1>17, GoesContinue DEF n

\* The last instruction of a conditional's begin, else or end.
LEMMA PhaseEnds ==
  ASSUME NEW fs, NEW w, Knows(fs, w), Step, todo' = <<>>, NEW gs, gs = frames,
         NEW op \in {"change_mask", "label", "s_br", "s_nbr"}, NEW ps, Added(op, ps), ps # <<>>,
         Waiting(gs)', LabelsAhead',
         (Enters(fs, gs) /\ Chooses(w)) \/ TurnsAt(fs, gs) \/ LeavesAt(fs, gs)
  PROVE  Continues(fs, w)
<1>1. Rooted /\ FramesInv /\ frames' = gs /\ waves' = waves /\ Top' = Top
  BY KnowsFacts
<1>2. Rooted'
  BY <1>1, RootedNext
<1>3. instruction'[last_node'] = op
  BY DEF Added
<1>4. Lags(gs)'
  BY <1>3, NextLags
<1>0. PICK v : v = waves
  OBVIOUS
<1>5. Believed(gs, v)'
  BY <1>0, <1>1 DEF Believed
<1>6. Phased(gs)'
  <2>1. Len(gs) \in Nat /\ gs \in Seq(Frame)
    BY <1>1, SavesOf DEF FramesInv
  <2>2. ~Entering(gs)'
    <3>1. \A x : Len(Append(gs, x)) = Len(gs) + 1
      BY <2>1 DEF Append
    <3> QED
      BY <1>1, <2>1, <3>1 DEF Entering
  <2>3. Going' /\ todo' # <<EndIR>> /\ Len(todo') # 1
    BY <1>3 DEF Going
  <2> QED
    BY <2>2, <2>3 DEF Phased
<1>7. Moves(fs, gs, w, v)
  BY <1>0 DEF Moves
<1> QED
  BY <1>2, <1>4, <1>5, <1>6, <1>7 DEF Continues, Tracked

\* The instructions that do not come after a jump.
LEMMA StillGoing ==
  ASSUME NEW fs, NEW w, Knows(fs, w), Step, \A l : todo # <<LabelIR(l)>>
  PROVE  Going /\ parents = <<last_node>> /\ <<last_node>> \in Seq(Nodes) /\ Injective(<<last_node>>)
<1>1. Going
  BY KnowsFacts DEF Phased
<1>2. last_node \in Nodes
  BY KnowsFacts, ParentsType
<1> QED
  BY <1>1, <1>2 DEF parents, Going, Injective

\* The innermost of the conditionals has no effect on the entries of those around it.
LEMMA EntriesOf ==
  ASSUME NEW fs, NEW m, Nested(fs, m), Settled(fs)
  PROVE  /\ Len(masked_blocks) = Masks(fs, Len(fs)) + 1 /\ Masks(fs, Len(fs)) \in Nat
         /\ \A k \in 0 .. Len(fs) : Masks(fs, k) \in Nat /\ Masks(fs, k) + 1 \in 1 .. Len(masked_blocks)
<1>1. Len(fs) \in Nat
  BY SavesOf
<1>2. Masks(fs, Len(fs)) \in Nat /\ \A k \in 0 .. Len(fs) : Masks(fs, k) \in Nat /\ Masks(fs, k) <= Masks(fs, Len(fs))
  BY <1>1, MasksRange
<1>3. Len(masked_blocks) = Masks(fs, Len(fs)) + 1
  BY DEF Settled, BlocksOpen
<1> QED
  BY <1>2, <1>3

\* The mask of a conditional is pushed.
LEMMA MaskEnters ==
  ASSUME NEW fs, NEW w, Knows(fs, w), Step, Opening(fs), Top.kind = "mask", todo = <<UseMask>>
  PROVE  Continues(fs, w)
<1> DEFINE n == Len(fs)
           f == Top
           L == Len(masked_blocks)
<1>0. PICK gs : gs = frames
  OBVIOUS
<1>1. /\ TypeInv /\ TypeOK /\ Steady /\ n \in Nat /\ fs \in Seq(Frame) /\ Nested(fs, ifs) /\ Settled(fs)
      /\ Waiting(fs) /\ LabelsAhead /\ Build(Head(todo)) /\ todo' = Tail(todo) /\ ifs' = ifs
      /\ FramesInv
  BY KnowsFacts
<1>2. gs = Append(fs, f) /\ f.branch = "then" /\ Masking(fs, f) /\ f \in Frame /\ Nested(gs, ifs)
  <2>1. gs = Append(fs, f) /\ f.branch = "then" /\ Masking(fs, f) /\ frames # <<>>
    BY <1>0 DEF Opening
  <2> QED
    BY <1>0, <1>1, <2>1, TopFacts DEF FramesInv
<1>3. Going /\ parents = <<last_node>> /\ <<last_node>> \in Seq(Nodes) /\ Injective(<<last_node>>)
  <2>1. \A l : UseMask.op # LabelIR(l).op
    BY DEF UseMask, LabelIR, IR
  <2> QED
    BY <2>1, StillGoing
<1>4. todo' = <<>> /\ ChangeMask("exec")
  BY <1>1, BuildOf
<1>5. ExecIs(Cond(fs, Len(fs)) \cup {Literal(f)}) /\ SaveDone(fs, f.save)
  BY <1>2 DEF Masking
<1>6. EnterMask(exec_registers["exec"]) /\ from_node' = from_node
  BY <1>1, <1>2, <1>4, <1>5, MaskOpens
<1>7. PICK C \in Condition : C = exec_registers["exec"]
  BY <1>1, KernelRegs, TypeParts DEF RestType
<1>8. /\ EmitNode("change_mask", <<last_node>>, state[last_node], versions, C)
      /\ masked_blocks' = Append(masked_blocks, OpenMask(last_node + 1, no_parent))
  BY <1>3, <1>6, <1>7 DEF EnterMask
<1>9. Added("change_mask", <<last_node>>) /\ Carries(last_node)
  <2>1. PICK ps, s, vs : ps = <<last_node>> /\ s = state[last_node] /\ vs = versions
    OBVIOUS
  <2>2. /\ ps \in Seq(Nodes) /\ Injective(ps) /\ "change_mask" \in Opcodes /\ Len(ps) <= 1
        /\ EmitNode("change_mask", ps, s, vs, C)
    BY <1>3, <1>8, <2>1 DEF Opcodes
  <2>3. Added("change_mask", ps) /\ state'[last_node'] = s /\ versions' = vs
    BY <1>1, <2>2, EmitAdds
  <2> QED
    BY <2>1, <2>3 DEF Carries, Ver
<1>10. /\ Len(gs) = n + 1 /\ gs[n + 1] = f /\ (\A k \in 1 .. n : gs[k] = fs[k])
       /\ Masks(gs, n + 1) = Masks(fs, n) + 1
  BY <1>1, <1>2, Opened
<1>11. /\ L = Masks(fs, n) + 1 /\ L \in Nat
       /\ \A k \in 0 .. n : Masks(fs, k) + 1 \in 1 .. L
  BY <1>1, EntriesOf
<1>12. /\ masked_blocks'[L + 1] = OpenMask(last_node + 1, no_parent)
       /\ \A b \in 1 .. L : masked_blocks'[b] = masked_blocks[b]
  <2>1. masked_blocks \in Seq(Mask)
    BY <1>1, TypeParts DEF RestType
  <2>2. masked_blocks \in [1 .. L -> Mask \cup {OpenMask(last_node + 1, no_parent)}]
    BY <2>1, LenProperties
  <2> QED
    BY <1>8, <1>11, <2>2, AppendOne
<1> HIDE DEF n, f, L
<1>13. Going'
  BY <1>9 DEF Added, Going
<1>14. Untouched(fs, gs, n)
  <2>1. \A k \in 1 .. n : WaitsAt(fs, k) /\ k \in 0 .. n
    BY <1>1 DEF Waiting, n
  <2> QED
    BY <1>3, <1>6, <1>10, <1>11, <1>12, <1>13, <2>1 DEF Untouched, WaitsAt
<1>15. Still(fs, gs, n) /\ \A k \in 1 .. n : WaitsAt(gs, k)'
  BY <1>1, <1>9, <1>14, StillWait DEF n
<1>20. PICK q : q = n + 1
  OBVIOUS
<1>16. Pending(gs, q)' = last_node' /\ WaitsAt(gs, q)'
  <2>1. last_node' = last_node + 1 /\ last_node' \in Nodes' /\ \A p \in Nodes : p < last_node'
    BY <1>9 DEF Added
  <2>2. masked_blocks'[Masks(gs, q) + 1] = OpenMask(last_node', no_parent)
    BY <1>20, <1>10, <1>11, <1>12, <2>1
  <2>3. gs[q].kind = "mask" /\ gs[q].branch = "then" /\ q = Len(gs)
    BY <1>20, <1>2, <1>10 DEF f
  <2>4. Pending(gs, q)' = last_node'
    BY <2>2, <2>3 DEF Pending, ClosedParent, OpenMask
  <2>5. \A j \in 1 .. n : Pending(gs, j)' < last_node'
    BY <1>1, <1>15, <2>1 DEF Still
  <2>6. 1 .. q - 1 = 1 .. n
    BY <1>20, <1>1 DEF n
  <2>7. \A j \in 1 .. q - 1 : Pending(gs, j)' < last_node'
    BY <2>5, <2>6
  <2>8. (masked_blocks[Masks(gs, q) + 1].previous_branch_end)' = no_parent
    BY <2>2 DEF OpenMask
  <2>9. WaitsAt(gs, q)'
    BY <2>1, <2>3, <2>4, <2>7, <2>8 DEF WaitsAt
  <2> QED
    BY <2>4, <2>9
<1>17. Waiting(gs)'
  <2>1. \A k \in 1 .. n + 1 : k \in 1 .. n \/ k = n + 1
    BY <1>1 DEF n
  <2> QED
    BY <1>20, <1>1, <1>10, <1>15, <1>16, <2>1 DEF Waiting, n
<1>18. LabelsAhead'
  BY <1>1, <1>6 DEF LabelsAhead
<1>19. Enters(fs, gs) /\ Chooses(w)
  <2>1. Enters(fs, gs)
    BY <1>20, <1>2, <1>9, <1>15, <1>16 DEF Enters, n, f
  <2>2. Top.kind = "mask" /\ Top.kind # "branch" /\ instruction'[last_node'] = "change_mask"
    BY <1>2, <1>9 DEF f, Added
  <2> QED
    BY <2>1, <2>2 DEF Chooses
<1> QED
  BY <1>0, <1>4, <1>9, <1>17, <1>18, <1>19, PhaseEnds

LEMMA ElseLen ==
  ASSUME NEW fs \in Seq(Frame)
  PROVE  Len(WithElse(fs)) = Len(fs)
<1>1. DOMAIN fs = 1 .. Len(fs) /\ Len(fs) \in Nat
  BY LenProperties
<1>2. DOMAIN WithElse(fs) = 1 .. Len(fs)
  BY <1>1 DEF WithElse
<1> QED
  BY <1>1, <1>2 DEF WithElse

LEMMA FlagChooses ==
  ASSUME NEW i \in Comparisons, NEW l \in Lanes
  PROVE  /\ Satisfies(l, {Cmp(i)}) <=> l \in True(i)
         /\ Satisfies(l, {Wrap(Cmp(i))}) <=> l \notin True(i)
<1>1. Cmp(i).kind = "cmp" /\ Cmp(i).id = i /\ Cmp(i).neg = 0
  BY DEF Cmp
<1>2. Wrap(Cmp(i)).kind = "cmp" /\ Wrap(Cmp(i)).id = i /\ Wrap(Cmp(i)).neg = 1
  BY <1>1 DEF Wrap, Cmp
<1>3. 0 % 2 = 0 /\ 1 % 2 = 1
  OBVIOUS
<1> QED
  BY <1>1, <1>2, <1>3 DEF Satisfies, Holds, True

\* What the pass believes when a branch enters the graph.
LEMMA BelievedBranch ==
  ASSUME NEW fs, NEW w, Knows(fs, w), Entering(fs), Top.kind = "branch", NEW b, todo = <<b>>
  PROVE  LET i == Top.cmp
             l == Top.label
         IN  /\ w = Top.waves /\ state[last_node]["scc"].text = Cmp(i)
             /\ \/ b = IR("bra_n", l, l, l) /\ waves = w \cap True(i)
                \/ b = IR("bra", l, l, l) /\ waves = w \ True(i)
<1> DEFINE i == Top.cmp
           l == Top.label
<1>1. Nested(fs, ifs) /\ ifs \in 0 .. MaxIfs /\ Believed(fs, w)
  BY DEF Knows, Lags, MasksInv, FramesInv
<1>2. frames # fs /\ ~Behind(fs)
  <2>1. Len(frames) = Len(fs) + 1 /\ Len(fs) \in Nat
    BY <1>1, Apart DEF Entering
  <2>2. fs # <<>> => Len(Front(fs)) = Len(fs) - 1
    BY <1>1, Apart
  <2>3. Len(WithElse(fs)) = Len(fs)
    BY <1>1, SavesOf, ElseLen
  <2> QED
    BY <2>1, <2>2, <2>3 DEF Behind
<1>3. w = Top.waves /\ \E c \in {<<IR("bra_n", l, l, l), w \cap True(i)>>, <<IR("bra", l, l, l), w \ True(i)>>} :
        /\ waves = c[2]
        /\ \/ todo = <<FlagIR(i), c[1]>>
           \/ todo = <<c[1]>> /\ state[last_node]["scc"].text = Cmp(i)
  BY <1>1, <1>2 DEF Believed, Entering
<1>4. PICK c \in {<<IR("bra_n", l, l, l), w \cap True(i)>>, <<IR("bra", l, l, l), w \ True(i)>>} :
        /\ waves = c[2]
        /\ \/ todo = <<FlagIR(i), c[1]>>
           \/ todo = <<c[1]>> /\ state[last_node]["scc"].text = Cmp(i)
  BY <1>3
<1>5. todo = <<c[1]>> /\ state[last_node]["scc"].text = Cmp(i) /\ b = c[1]
  <2>1. Len(todo) = 1
    OBVIOUS
  <2>2. \A x, y : Len(<<x, y>>) = 2
    OBVIOUS
  <2> QED
    BY <1>4, <2>1, <2>2
<1> QED
  BY <1>3, <1>4, <1>5

LEMMA BuildOfBranch ==
  /\ \A l : Build(IR("bra", l, l, l)) => BranchTo("s_br", l)
  /\ \A l : Build(IR("bra_n", l, l, l)) => BranchTo("s_nbr", l)
<1>1. \A l : Build(IR("bra", l, l, l)) => BranchTo("s_br", l)
  BY DEF Build, IR, Branch
<1>2. \A l : Build(IR("bra_n", l, l, l)) => BranchTo("s_nbr", l)
  BY DEF Build, IR, BranchNot
<1> QED
  BY <1>1, <1>2

\* A conditional that branches is entered.
LEMMA BranchEnters ==
  ASSUME NEW fs, NEW w, Knows(fs, w), Step, Opening(fs), Top.kind = "branch",
         NEW b \in BranchIRs(Top.label), todo = <<b>>
  PROVE  Continues(fs, w)
<1> DEFINE n == Len(fs)
           f == Top
           l == f.label
<1>0. PICK gs : gs = frames
  OBVIOUS
<1>1. /\ TypeInv /\ TypeOK /\ Steady /\ n \in Nat /\ fs \in Seq(Frame) /\ Nested(fs, ifs)
      /\ Waiting(fs) /\ LabelsAhead /\ Build(Head(todo)) /\ todo' = Tail(todo) /\ ifs' = ifs
      /\ FramesInv /\ Phased(fs) /\ ifs \in 0 .. MaxIfs
  BY KnowsFacts
<1>2. gs = Append(fs, f) /\ f.branch = "then" /\ Branching(fs, f) /\ f \in Frame /\ Nested(gs, ifs) /\ Entering(fs)
  <2>1. gs = Append(fs, f) /\ f.branch = "then" /\ Branching(fs, f) /\ frames # <<>>
    BY <1>0 DEF Opening
  <2> QED
    BY <1>0, <1>1, <2>1, TopFacts DEF FramesInv, Entering
<1>3. Going /\ parents = <<last_node>>
  <2>1. \A x : b.op # LabelIR(x).op
    BY DEF BranchIRs, LabelIR, IR
  <2>2. \A x : todo # <<LabelIR(x)>>
    BY <2>1
  <2> QED
    BY <2>2, StillGoing
<1>4. /\ f.waves \in SUBSET Lanes /\ w = f.waves /\ f.cmp \in Comparisons
      /\ state[last_node]["scc"].text = Cmp(f.cmp)
      /\ \/ b = IR("bra_n", l, l, l) /\ waves = w \cap True(f.cmp)
         \/ b = IR("bra", l, l, l) /\ waves = w \ True(f.cmp)
  BY <1>2, BelievedBranch, FrameType
<1>5. /\ Len(gs) = n + 1 /\ gs[n + 1] = f /\ \A k \in 1 .. n : gs[k] = fs[k]
  BY <1>1, <1>2, Opened
<1>6. /\ l \in Labels /\ l \in Nat /\ l + 1 \in Labels /\ l + 1 <= 2 * ifs
      /\ \A j \in 1 .. n : fs[j].kind = "branch" =>
           /\ fs[j].label \in Labels /\ fs[j].label < l
           /\ fs[j].branch = "then" => fs[j].label + 1 \in Labels /\ fs[j].label + 1 < l
  <2>1. n + 1 \in 1 .. Len(gs) /\ 1 .. n + 1 - 1 = 1 .. n
    BY <1>1, <1>5
  <2>2. PICK q \in 1 .. Len(gs) : q = n + 1
    BY <2>1
  <2>3. gs[q] = f /\ 1 .. q - 1 = 1 .. n
    BY <1>5, <2>1, <2>2
  <2> HIDE DEF f, l, n
  <2>4. gs[q].kind = "branch" /\ gs[q].branch = "then"
    BY <1>2, <2>3 DEF f
  <2>5. /\ gs[q].label \in Labels /\ gs[q].label \in Nat /\ gs[q].label + 1 \in Labels /\ gs[q].label + 1 <= 2 * ifs
        /\ \A j \in 1 .. q - 1 : gs[j].kind = "branch" =>
             /\ gs[j].label \in Labels /\ gs[j].label < gs[q].label
             /\ gs[j].branch = "then" => gs[j].label + 1 \in Labels /\ gs[j].label + 1 < gs[q].label
    BY <1>1, <1>2, <2>2, <2>4, LabelsApart
  <2> QED
    BY <1>5, <2>3, <2>5 DEF l
<1>7. PICK op \in {"s_br", "s_nbr"} :
        /\ BranchTo(op, l)
        /\ op = "s_nbr" => waves = w \cap True(f.cmp)
        /\ op = "s_br" => waves = w \ True(f.cmp)
  <2>1. Head(todo) = b
    OBVIOUS
  <2> HIDE DEF f, l
  <2>2. CASE b = IR("bra_n", l, l, l) /\ waves = w \cap True(f.cmp)
    <3>1. BranchTo("s_nbr", l)
      BY <1>1, <2>1, <2>2, BuildOfBranch
    <3> QED
      BY <2>2, <3>1
  <2>3. CASE b = IR("bra", l, l, l) /\ waves = w \ True(f.cmp)
    <3>1. BranchTo("s_br", l)
      BY <1>1, <2>1, <2>3, BuildOfBranch
    <3> QED
      BY <2>3, <3>1
  <2> QED
    BY <1>4, <2>2, <2>3
<1>8. op \in Opcodes /\ to_node[l] = 0
  BY <1>2 DEF Opcodes, Branching
<1>9. /\ Added(op, <<last_node>>)
      /\ from_node' = [from_node EXCEPT ![l] = Append(@, last_node')]
      /\ masked_blocks' = masked_blocks /\ versions' = versions
      /\ state'[last_node'] = state[last_node]
  BY <1>1, <1>3, <1>6, <1>7, <1>8, BranchAdds
<1>10. Carries(last_node)
  BY <1>9 DEF Carries, Ver
<1>11. from_node \in [Labels -> Seq(Nodes)]
  BY <1>1, TypeParts DEF RestType
<1>12. from_node[l] = <<>> /\ from_node[l + 1] = <<>>
  BY <1>1, <1>2 DEF Phased
<1> HIDE DEF n, f, l
<1>13. from_node'[l] = <<last_node'>> /\ \A x \in Labels \ {l} : from_node'[x] = from_node[x]
  <2>1. from_node'[l] = Append(<<>>, last_node')
    BY <1>6, <1>9, <1>11, <1>12
  <2> QED
    BY <1>9, <1>11, <2>1
<1>14. Going' /\ instruction'[last_node'] = op
  BY <1>9 DEF Added, Going
<1>15. Untouched(fs, gs, n)
  <2>1. ASSUME NEW k \in 1 .. n, fs[k].kind = "branch"
        PROVE  /\ from_node'[fs[k].label] = from_node[fs[k].label]
               /\ fs[k].branch = "then" =>
                    from_node'[fs[k].label + 1] = IF Going' \/ k # Len(gs) THEN <<>> ELSE <<last_node'>>
    <3>1. WaitsAt(fs, k)
      BY <1>1, <2>1 DEF Waiting, n
    <3>2. /\ fs[k].label \in Labels \ {l}
          /\ fs[k].branch = "then" => fs[k].label + 1 \in Labels \ {l}
      BY <1>6, <2>1, LabelsType
    <3>3. fs[k].branch = "then" => from_node[fs[k].label + 1] = <<>>
      BY <1>3, <2>1, <3>1 DEF WaitsAt
    <3> QED
      BY <1>13, <1>14, <3>2, <3>3
  <2> QED
    BY <1>5, <1>9, <2>1 DEF Untouched
<1>16. Still(fs, gs, n) /\ \A k \in 1 .. n : WaitsAt(gs, k)'
  BY <1>1, <1>9, <1>15, StillWait DEF n
<1>17. PICK q : q = n + 1
  OBVIOUS
<1>18. Pending(gs, q)' = last_node' /\ WaitsAt(gs, q)'
  <2>1. last_node' = last_node + 1 /\ last_node' \in Nodes' /\ \A p \in Nodes : p < last_node'
    BY <1>9 DEF Added
  <2>2. gs[q].kind = "branch" /\ gs[q].branch = "then" /\ q = Len(gs) /\ gs[q].label = l
    BY <1>17, <1>2, <1>5 DEF f, l
  <2>3. Last(<<last_node'>>) = last_node'
    BY DEF Last
  <2>4. Pending(gs, q)' = last_node'
    BY <1>13, <2>2, <2>3 DEF Pending
  <2>5. \A j \in 1 .. n : Pending(gs, j)' < last_node'
    BY <1>1, <1>16, <2>1 DEF Still
  <2>6. 1 .. q - 1 = 1 .. n
    BY <1>17, <1>1 DEF n
  <2>7. \A j \in 1 .. q - 1 : Pending(gs, j)' < last_node'
    BY <2>5, <2>6
  <2>8. from_node'[l + 1] = <<>>
    <3>1. l + 1 \in Labels \ {l}
      BY <1>6
    <3> QED
      BY <1>12, <1>13, <3>1
  <2>9. WaitsAt(gs, q)'
    BY <1>13, <1>14, <2>1, <2>2, <2>4, <2>7, <2>8 DEF WaitsAt
  <2> QED
    BY <2>4, <2>9
<1>19. Waiting(gs)'
  <2>1. \A k \in 1 .. n + 1 : k \in 1 .. n \/ k = n + 1
    BY <1>1 DEF n
  <2> QED
    BY <1>17, <1>1, <1>5, <1>16, <1>18, <2>1 DEF Waiting, n
<1>20. LabelsAhead'
  <2>1. \A x \in Labels : x > 2 * ifs => x \in Labels \ {l}
    BY <1>1, <1>6, LabelsType
  <2> QED
    BY <1>1, <1>13, <2>1 DEF LabelsAhead
<1>21. Chooses(w)
  <2>1. (state[last_node]["scc"].text)' = Cmp(f.cmp)
    BY <1>4, <1>9 DEF f
  <2>2. /\ op = "s_nbr" => Condition_of(last_node)' = {Cmp(f.cmp)}
        /\ op = "s_br" => Condition_of(last_node)' = {Wrap(Cmp(f.cmp))}
    BY <1>14, <2>1 DEF Condition_of
  <2>3. \A x \in w : /\ Satisfies(x, {Cmp(f.cmp)}) <=> x \in True(f.cmp)
                     /\ Satisfies(x, {Wrap(Cmp(f.cmp))}) <=> x \notin True(f.cmp)
    BY <1>4, FlagChooses DEF f
  <2>4. waves \subseteq w /\ \A x \in w : Satisfies(x, Condition_of(last_node)') <=> x \in waves
    BY <1>7, <2>2, <2>3
  <2>5. Top.kind # "mask"
    BY <1>2 DEF f
  <2> QED
    BY <1>14, <2>4, <2>5 DEF Chooses
<1>22. Enters(fs, gs)
  BY <1>17, <1>2, <1>9, <1>10, <1>16, <1>18 DEF Enters, n, f
<1> QED
  <2>1. todo' = <<>>
    BY <1>1
  <2> QED
    BY <1>0, <1>9, <1>19, <1>20, <1>21, <1>22, <2>1, PhaseEnds

\* The comparison of a branch.
LEMMA FlagGoes ==
  ASSUME NEW fs, NEW w, Knows(fs, w), Step, Opening(fs), Top.kind = "branch",
         NEW b \in BranchIRs(Top.label), todo = <<FlagIR(Top.cmp), b>>
  PROVE  Continues(fs, w)
<1> DEFINE i == Top.cmp
           l == Top.label
<1>1. /\ TypeInv /\ Nested(fs, ifs) /\ ifs \in 0 .. MaxIfs /\ FramesInv /\ Believed(fs, w)
      /\ Build(Head(todo)) /\ todo' = Tail(todo) /\ frames' = frames /\ waves' = waves /\ Top' = Top
  BY KnowsFacts
<1>2. Entering(fs) /\ Top \in Frame
  <2>1. frames # <<>> /\ frames = Append(fs, Top)
    BY DEF Opening
  <2> QED
    BY <1>1, <2>1, TopFacts DEF Entering
<1>3. i \in Comparisons /\ l \in Labels
  BY <1>2, FrameType
<1>4. Head(todo) = FlagIR(i) /\ todo' = <<b>> /\ Head(todo).op = "cmp"
  BY <1>1 DEF FlagIR, IR
<1>5. VCmp("scc", i)
  BY <1>1, <1>4, BuildOf
<1>6. "scc" \in Regs /\ Cmp(i) \in Text /\ "v_cmp" \in Opcodes
  <2>1. "scc" \in Preds
    BY <1>3, LabelsType
  <2>2. Cmp(i) \in Text
    BY <1>3, <1>5, <2>1, CmpWrites
  <2> QED
    BY <2>1, <2>2, KernelRegs DEF Opcodes
<1>7. state'[last_node']["scc"].text = Cmp(i)
  <2>1. Define("v_cmp", "scc", Cmp(i))
    BY <1>5 DEF VCmp
  <2> QED
    BY <1>1, <1>6, <2>1, DefineGrown
<1>8. Believed(fs, w)'
  <2>1. frames # fs /\ ~Behind(fs)
    <3>1. Len(frames) = Len(fs) + 1 /\ Len(fs) \in Nat
      BY <1>1, <1>2, Apart DEF Entering
    <3>2. fs # <<>> => Len(Front(fs)) = Len(fs) - 1
      BY <1>1, Apart
    <3>3. Len(WithElse(fs)) = Len(fs)
      BY <1>1, <3>1, SavesOf, ElseLen
    <3> QED
      BY <3>1, <3>2, <3>3 DEF Behind
  <2>2. PICK c \in {<<IR("bra_n", l, l, l), w \cap True(i)>>, <<IR("bra", l, l, l), w \ True(i)>>} :
           /\ w = Top.waves /\ waves = c[2]
           /\ \/ todo = <<FlagIR(i), c[1]>>
              \/ todo = <<c[1]>> /\ state[last_node]["scc"].text = Cmp(i)
    BY <1>1, <2>1 DEF Believed, Entering
  <2>3. c[1] = b
    <3>1. \A x : todo # <<x>>
      OBVIOUS
    <3> QED
      BY <2>2, <3>1
  <2>4. (state[last_node]["scc"].text)' = Cmp(i)
    BY <1>7
  <2>5. todo' = <<c[1]>> /\ waves' = c[2] /\ Top' = Top /\ Entering(fs)'
    BY <1>1, <1>2, <1>4, <2>2, <2>3 DEF Entering
  <2> QED
    BY <1>1, <2>2, <2>4, <2>5 DEF Believed
<1>9. todo' # <<>> /\ todo' # <<EndIR>>
  <2>1. b.op # EndIR.op
    BY DEF BranchIRs, EndIR, IR
  <2> QED
    BY <1>4, <2>1
<1> QED
  BY <1>4, <1>8, <1>9, IRGoes DEF GoIRs

\* The else of a conditional with a mask.
LEMMA MaskTurnsAt ==
  ASSUME NEW fs, NEW w, Knows(fs, w), Step, Switching(fs), fs[Len(fs)].kind = "mask", todo = <<UseMask>>
  PROVE  Continues(fs, w)
<1> DEFINE n == Len(fs)
           f == fs[n]
           L == Len(masked_blocks)
           p == Pending(fs, n)
<1>0. PICK gs : gs = frames
  OBVIOUS
<1>1. /\ TypeInv /\ TypeOK /\ RestType /\ Steady /\ n \in Nat /\ fs \in Seq(Frame) /\ Nested(fs, ifs) /\ Settled(fs)
      /\ Waiting(fs) /\ LabelsAhead /\ Build(Head(todo)) /\ todo' = Tail(todo) /\ ifs' = ifs
      /\ FramesInv /\ Phased(fs) /\ ifs \in 0 .. MaxIfs
  BY KnowsFacts
<1>2. fs # <<>> /\ f.branch = "then" /\ gs = WithElse(fs) /\ Turning(fs, f)
  BY <1>0 DEF Switching
<1>3. Going
  <2>1. \A l : UseMask.op # LabelIR(l).op
    BY DEF UseMask, LabelIR, IR
  <2> QED
    BY <2>1, StillGoing
<1>4. todo' = <<>> /\ ChangeMask("exec")
  BY <1>1, BuildOf
<1>5. ExecIs(Cond(fs, n - 1) \cup {Literal(Elsed(f))})
  BY <1>2 DEF Turning
<1>6. LET cm == masked_blocks[L].change_mask
      IN  /\ EmitNode("change_mask", <<cm>>, state[cm], versions, exec_registers["exec"])
          /\ masked_blocks' = Append(SubSeq(masked_blocks, 1, L - 1), OpenMask(last_node + 1, last_node))
          /\ from_node' = from_node
  BY <1>1, <1>2, <1>4, <1>5, MaskTurns
<1>7. PICK C \in Condition : C = exec_registers["exec"]
  BY <1>1, KernelRegs, TypeParts DEF RestType
<1>8. /\ L = Masks(fs, n) + 1 /\ L \in Nat /\ n > 0
      /\ Masks(fs, n - 1) = L - 2 /\ Masks(fs, n) = L - 1 /\ Masks(fs, n - 1) \in Nat
  BY <1>1, <1>2, TopBlocks, EntriesOf
<1>9. WaitsAt(fs, n) /\ n \in 1 .. n
  BY <1>1, <1>8 DEF Waiting
<1>10. p = masked_blocks[L].change_mask /\ p \in Nodes
  <2>1. masked_blocks[Masks(fs, n) + 1].previous_branch_end = no_parent
    BY <1>2, <1>9 DEF WaitsAt
  <2>2. p = masked_blocks[Masks(fs, n) + 1].change_mask
    BY <2>1 DEF Pending, ClosedParent
  <2>3. p \in Nodes
    BY <1>9 DEF WaitsAt
  <2> QED
    BY <1>8, <2>2, <2>3
<1>11. p # last_node
  <2>1. Behind(fs) /\ Len(todo) = 1
    BY <1>0, <1>2 DEF Behind
  <2> QED
    BY <1>1, <2>1 DEF Phased
<1> HIDE DEF p
<1>12. Added("change_mask", <<p>>) /\ Carries(p)
  <2>1. PICK ps, s, vs : ps = <<p>> /\ s = state[p] /\ vs = versions
    OBVIOUS
  <2>2. /\ ps \in Seq(Nodes) /\ Injective(ps) /\ "change_mask" \in Opcodes /\ Len(ps) <= 1
    BY <1>10, <2>1 DEF Injective, Opcodes
  <2>3. EmitNode("change_mask", ps, s, vs, C)
    BY <1>6, <1>7, <1>10, <2>1
  <2>4. Added("change_mask", ps) /\ state'[last_node'] = s /\ versions' = vs
    BY <1>1, <2>2, <2>3, EmitAdds
  <2> QED
    BY <2>1, <2>4 DEF Carries, Ver
<1>13. /\ Len(gs) = n /\ gs[n] = Elsed(f) /\ (\A k \in 1 .. n - 1 : gs[k] = fs[k])
       /\ Elsed(f).kind = "mask" /\ Elsed(f).branch = "else"
  <2>1. /\ Len(gs) = n /\ gs[n] = Elsed(f) /\ \A k \in 1 .. n - 1 : gs[k] = fs[k]
    BY <1>1, <1>2, NestedElse
  <2>2. f \in Frame /\ f.kind = "mask"
    BY <1>1, <1>9, SavesOf
  <2> QED
    BY <1>2, <2>1, <2>2, ElsedType
<1>14. /\ masked_blocks'[L] = OpenMask(last_node + 1, last_node)
       /\ \A b \in 1 .. L - 1 : masked_blocks'[b] = masked_blocks[b]
  <2>1. PICK k \in 1 .. L : k = L - 1 /\ k + 1 = L
    BY <1>8
  <2> QED
    BY <1>1, <1>6, <2>1, StackReplaced
<1> HIDE DEF n, f, L
<1>15. Going'
  BY <1>12 DEF Added, Going
<1>16. Untouched(fs, gs, n - 1)
  <2>1. ASSUME NEW k \in 1 .. n - 1 PROVE masked_blocks'[Masks(fs, k) + 1] = masked_blocks[Masks(fs, k) + 1]
    <3>1. n - 1 \in Nat /\ k \in 0 .. n - 1
      BY <1>1, <1>8, <2>1
    <3>2. Masks(fs, k) \in Nat /\ Masks(fs, k) <= Masks(fs, n - 1)
      BY <3>1, MasksRange
    <3>3. Masks(fs, k) + 1 \in 1 .. L - 1
      BY <1>8, <3>2
    <3> QED
      BY <1>14, <3>3
  <2>2. \A k \in 1 .. n - 1 : WaitsAt(fs, k)
    BY <1>1 DEF Waiting, n
  <2> QED
    BY <1>3, <1>6, <1>13, <1>15, <2>1, <2>2 DEF Untouched, WaitsAt
<1>17. Still(fs, gs, n - 1) /\ \A k \in 1 .. n - 1 : WaitsAt(gs, k)'
  <2>1. PICK q \in Nat : q = n - 1 /\ q <= n
    BY <1>1, <1>8
  <2>2. Untouched(fs, gs, q)
    BY <1>16, <2>1
  <2>3. Still(fs, gs, q) /\ \A k \in 1 .. q : WaitsAt(gs, k)'
    BY <1>1, <1>12, <2>1, <2>2, StillWait DEF n
  <2> QED
    BY <2>1, <2>3
<1>18. PICK q : q = n
  OBVIOUS
<1>19. Pending(gs, q)' = last_node /\ WaitsAt(gs, q)'
  <2>1. last_node' = last_node + 1 /\ last_node \in Nodes' /\ last_node # last_node' /\ last_node # no_parent
        /\ \A x \in Nodes : x <= last_node /\ x \in Nat
    BY <1>12 DEF Added, no_parent
  <2>2. Masks(gs, q) = Masks(fs, n)
    <3>1. \A j \in 1 .. q : j \in 1 .. n - 1 \/ j = n
      BY <1>1, <1>8, <1>18 DEF n
    <3>2. \A j \in 1 .. q : gs[j].kind = fs[j].kind
      BY <1>13, <3>1 DEF f, n
    <3> QED
      BY <1>18, <3>2, MasksSame
  <2>3. masked_blocks'[Masks(gs, q) + 1] = OpenMask(last_node + 1, last_node)
    BY <1>8, <1>14, <2>2
  <2>4. gs[q].kind = "mask" /\ gs[q].branch = "else"
    BY <1>13, <1>18
  <2>5. Pending(gs, q)' = last_node
    BY <2>1, <2>3, <2>4 DEF Pending, ClosedParent, OpenMask
  <2>6. \A j \in 1 .. q - 1 : Pending(gs, j)' < last_node
    <3>1. ASSUME NEW j \in 1 .. n - 1 PROVE Pending(gs, j)' < last_node
      <4>1. Pending(gs, j)' = Pending(fs, j) /\ Pending(fs, j) \in Nodes
        BY <1>17, <3>1 DEF Still
      <4>2. Pending(fs, j) < p
        BY <1>9, <3>1 DEF WaitsAt, p
      <4>3. p <= last_node /\ p \in Nat /\ Pending(fs, j) \in Nat /\ last_node \in Nat
        BY <1>10, <1>12, <2>1, <4>1 DEF Added
      <4> QED
        BY <4>1, <4>2, <4>3
    <3> QED
      BY <1>18, <3>1
  <2>7. (masked_blocks[Masks(gs, q) + 1].previous_branch_end)' # no_parent
    BY <2>1, <2>3 DEF OpenMask
  <2>8. WaitsAt(gs, q)'
    BY <2>1, <2>4, <2>5, <2>6, <2>7 DEF WaitsAt
  <2> QED
    BY <2>5, <2>8
<1>20. Waiting(gs)'
  <2>1. \A k \in 1 .. n : k \in 1 .. n - 1 \/ k = n
    BY <1>1, <1>8 DEF n
  <2> QED
    BY <1>1, <1>13, <1>17, <1>18, <1>19, <2>1 DEF Waiting, n
<1>21. LabelsAhead'
  BY <1>1, <1>6 DEF LabelsAhead
<1>22. TurnsAt(fs, gs)
  <2>1. \E op \in {"change_mask", "label"} : Added(op, <<p>>)
    BY <1>12
  <2>2. Pending(gs, n)' = last_node
    BY <1>18, <1>19 DEF n
  <2> QED
    BY <1>2, <1>10, <1>11, <1>12, <1>17, <2>1, <2>2 DEF TurnsAt, p, n, f
<1>23. <<p>> # <<>>
  OBVIOUS
<1> QED
  BY <1>0, <1>4, <1>12, <1>20, <1>21, <1>22, <1>23, PhaseEnds

\* The label of an else.
LEMMA LabelTurnsAt ==
  ASSUME NEW fs, NEW w, Knows(fs, w), Step, Switching(fs), fs[Len(fs)].kind = "branch",
         todo = <<LabelIR(fs[Len(fs)].label)>>
  PROVE  Continues(fs, w)
<1> DEFINE n == Len(fs)
           f == fs[n]
           l == f.label
           p == Pending(fs, n)
<1>0. PICK gs : gs = frames
  OBVIOUS
<1>1. /\ TypeInv /\ TypeOK /\ RestType /\ Steady /\ n \in Nat /\ fs \in Seq(Frame) /\ Nested(fs, ifs) /\ Settled(fs)
      /\ Waiting(fs) /\ LabelsAhead /\ Build(Head(todo)) /\ todo' = Tail(todo) /\ ifs' = ifs
      /\ FramesInv /\ Phased(fs) /\ ifs \in 0 .. MaxIfs
  BY KnowsFacts
<1>2. fs # <<>> /\ f.branch = "then" /\ gs = WithElse(fs) /\ Jumping(fs, f) /\ n \in 1 .. n /\ n > 0
  <2>1. fs # <<>> /\ f.branch = "then" /\ gs = WithElse(fs) /\ Jumping(fs, f)
    BY <1>0 DEF Switching
  <2> QED
    BY <1>1, <2>1, Apart
<1>3. WaitsAt(fs, n)
  BY <1>1, <1>2 DEF Waiting
<1>4. from_node[l + 1] # <<>>
  BY <1>2 DEF Jumping, Waits
<1>5. /\ p \in Nodes /\ from_node[l] = <<p>> /\ instruction[p] \in {"s_br", "s_nbr"}
      /\ ~Going /\ from_node[l + 1] = <<last_node>>
  BY <1>2, <1>3, <1>4 DEF WaitsAt
<1>6. p # last_node
  BY <1>5 DEF Going
<1>7. todo' = <<>> /\ Label(l)
  <2>1. Build(LabelIR(l))
    BY <1>1
  <2> QED
    BY <1>1, <2>1, BuildOf
<1> HIDE DEF p
<1>8. EmitNode("label", <<p>>, state[p], versions, mask[p]) /\ from_node' = from_node /\ masked_blocks' = masked_blocks
  <2>1. parents = <<>> /\ <<>> \o <<p>> = <<p>> /\ Last(<<p>>) = p /\ <<p>> # <<>>
    BY <1>5, ConcatEmptySeq DEF parents, Going, Last
  <2> HIDE DEF l
  <2> QED
    BY <1>5, <1>7, <2>1 DEF Label
<1>9. mask[p] \in Condition
  BY <1>1, <1>5 DEF TypeOK
<1>10. Added("label", <<p>>) /\ Carries(p)
  <2>1. PICK ps, s, vs, mk : ps = <<p>> /\ s = state[p] /\ vs = versions /\ mk = mask[p]
    OBVIOUS
  <2>2. /\ ps \in Seq(Nodes) /\ Injective(ps) /\ "label" \in Opcodes /\ Len(ps) <= 1 /\ mk \in Condition
    BY <1>5, <1>9, <2>1 DEF Injective, Opcodes
  <2>3. EmitNode("label", ps, s, vs, mk)
    BY <1>8, <2>1
  <2>4. Added("label", ps) /\ state'[last_node'] = s /\ versions' = vs
    BY <1>1, <2>2, <2>3, EmitAdds
  <2> QED
    BY <2>1, <2>4 DEF Carries, Ver
<1>11. /\ Len(gs) = n /\ gs[n] = Elsed(f) /\ (\A k \in 1 .. n - 1 : gs[k] = fs[k])
       /\ Elsed(f).kind = "branch" /\ Elsed(f).branch = "else" /\ Elsed(f).label = l + 1
  <2>1. /\ Len(gs) = n /\ gs[n] = Elsed(f) /\ (\A k \in 1 .. n - 1 : gs[k] = fs[k])
        /\ f.kind = "branch" => f.label + 1 \in Labels
    BY <1>1, <1>2, NestedElse
  <2>2. f \in Frame /\ f.kind = "branch"
    BY <1>1, <1>2, SavesOf
  <2> QED
    BY <1>2, <2>1, <2>2, ElsedType
<1> HIDE DEF n, f, l
<1>12. Untouched(fs, gs, n - 1)
  <2>1. \A k \in 1 .. n - 1 : WaitsAt(fs, k) /\ k # n
    BY <1>1, <1>2 DEF Waiting, n
  <2>2. \A k \in 1 .. n - 1 : k # Len(fs)
    BY <2>1 DEF n
  <2> QED
    BY <1>8, <1>11, <2>1, <2>2 DEF Untouched, WaitsAt
<1>13. Still(fs, gs, n - 1) /\ \A k \in 1 .. n - 1 : WaitsAt(gs, k)'
  <2>1. PICK q \in Nat : q = n - 1 /\ q <= n
    BY <1>1, <1>2
  <2>2. Untouched(fs, gs, q)
    BY <1>12, <2>1
  <2>3. Still(fs, gs, q) /\ \A k \in 1 .. q : WaitsAt(gs, k)'
    BY <1>1, <1>10, <2>1, <2>2, StillWait DEF n
  <2> QED
    BY <2>1, <2>3
<1>14. PICK q : q = n
  OBVIOUS
<1>15. Pending(gs, q)' = last_node /\ WaitsAt(gs, q)'
  <2>1. last_node' = last_node + 1 /\ last_node \in Nodes' /\ last_node # last_node'
        /\ \A x \in Nodes : x <= last_node /\ x \in Nat
    BY <1>10 DEF Added
  <2>2. gs[q].kind = "branch" /\ gs[q].branch = "else" /\ gs[q].label = l + 1
    BY <1>11, <1>14
  <2>3. from_node'[l + 1] = <<last_node>> /\ Last(<<last_node>>) = last_node
    BY <1>5, <1>8 DEF Last, l
  <2>4. Pending(gs, q)' = last_node
    BY <2>2, <2>3 DEF Pending
  <2>5. \A j \in 1 .. q - 1 : Pending(gs, j)' < last_node
    <3>1. ASSUME NEW j \in 1 .. n - 1 PROVE Pending(gs, j)' < last_node
      <4>1. Pending(gs, j)' = Pending(fs, j) /\ Pending(fs, j) \in Nodes
        BY <1>13, <3>1 DEF Still
      <4>2. Pending(fs, j) < p
        BY <1>3, <3>1 DEF WaitsAt, p, n
      <4>3. p <= last_node /\ p \in Nat /\ Pending(fs, j) \in Nat /\ last_node \in Nat
        BY <1>5, <1>10, <2>1, <4>1 DEF Added
      <4> QED
        BY <4>1, <4>2, <4>3
    <3> QED
      BY <1>14, <3>1
  <2>6. WaitsAt(gs, q)'
    BY <2>1, <2>2, <2>3, <2>4, <2>5 DEF WaitsAt
  <2> QED
    BY <2>4, <2>6
<1>16. Waiting(gs)'
  <2>1. \A k \in 1 .. n : k \in 1 .. n - 1 \/ k = n
    BY <1>1, <1>2 DEF n
  <2> QED
    BY <1>1, <1>11, <1>13, <1>14, <1>15, <2>1 DEF Waiting, n
<1>17. LabelsAhead'
  BY <1>1, <1>8 DEF LabelsAhead
<1>18. TurnsAt(fs, gs)
  <2>1. \E op \in {"change_mask", "label"} : Added(op, <<p>>)
    BY <1>10
  <2>2. Pending(gs, n)' = last_node
    BY <1>14, <1>15 DEF n
  <2> QED
    BY <1>2, <1>5, <1>6, <1>10, <1>13, <2>1, <2>2 DEF TurnsAt, p, n, f
<1>19. <<p>> # <<>>
  OBVIOUS
<1> QED
  BY <1>0, <1>7, <1>10, <1>16, <1>17, <1>18, <1>19, PhaseEnds

LEMMA TwoParents ==
  ASSUME TypeOK, NEW op \in Opcodes, NEW p \in Nodes, p # last_node, NEW st, NEW mk \in Condition,
         EmitNode(op, <<last_node, p>>, st, versions, mk)
  PROVE  /\ Added(op, <<last_node, p>>)
         /\ \A n : st = state[n] => Merges(n, <<last_node, p>>)
<1>1. PICK ps, vs : ps = <<last_node, p>> /\ vs = versions
  OBVIOUS
<1>2. last_node \in Nodes
  BY ParentsType
<1>3. ps \in Seq(Nodes) /\ Injective(ps) /\ Len(ps) = 2
  BY <1>1, <1>2 DEF Injective
<1>4. EmitNode(op, ps, st, vs, mk)
  BY <1>1
<1>5. Added(op, ps) /\ state'[last_node'] = MergedState(st, ps) /\ update_reg_version(st, ps, vs)
  BY <1>3, <1>4, EmitAdds
<1>6. \A n : st = state[n] => Merges(n, ps)
  BY <1>1, <1>5 DEF Merges, update_reg_version
<1> QED
  BY <1>1, <1>5, <1>6

\* A conditional is left when its branches meet again.
LEMMA LeavesContinues ==
  ASSUME NEW fs, NEW w, Knows(fs, w), Step, todo' = <<>>, fs # <<>>, frames = Front(fs),
         NEW op \in {"change_mask", "label"}, NEW p, p = Pending(fs, Len(fs)), p # last_node,
         Added(op, <<last_node, p>>), NEW n \in {last_node, p}, Merges(n, <<last_node, p>>),
         from_node' = from_node,
         \A k \in 1 .. Len(fs) - 1 : masked_blocks'[Masks(fs, k) + 1] = masked_blocks[Masks(fs, k) + 1]
  PROVE  Continues(fs, w)
<1> DEFINE m == Len(fs)
<1>0. PICK gs : gs = frames
  OBVIOUS
<1>1. /\ m \in Nat /\ fs \in Seq(Frame) /\ Nested(fs, ifs) /\ Waiting(fs) /\ LabelsAhead /\ ifs' = ifs
      /\ ifs \in 0 .. MaxIfs
  BY KnowsFacts
<1>2. m \in 1 .. m /\ m > 0
  BY <1>1, Apart
<1>3. gs = Front(fs) /\ Len(gs) = m - 1 /\ \A k \in 1 .. m - 1 : gs[k] = fs[k]
  BY <1>0, <1>1, FrontProperties
<1>4. Going'
  BY DEF Added, Going
<1>5. \A k \in 1 .. m : WaitsAt(fs, k)
  BY <1>1 DEF Waiting
<1>6. p \in Nodes
  BY <1>2, <1>5 DEF WaitsAt
<1> HIDE DEF m
<1>7. Untouched(fs, gs, m - 1)
  <2>1. \A k \in 1 .. m - 1 : WaitsAt(fs, k) /\ k # m
    BY <1>1, <1>2, <1>5
  <2>2. \A k \in 1 .. m - 1 : k # Len(fs) /\ masked_blocks'[Masks(fs, k) + 1] = masked_blocks[Masks(fs, k) + 1]
    BY <2>1 DEF m
  <2> QED
    BY <1>3, <1>4, <2>1, <2>2 DEF Untouched, WaitsAt
<1>8. Still(fs, gs, m - 1) /\ \A k \in 1 .. m - 1 : WaitsAt(gs, k)'
  <2>1. PICK q \in Nat : q = m - 1 /\ q <= m
    BY <1>1, <1>2
  <2>2. Untouched(fs, gs, q)
    BY <1>7, <2>1
  <2>3. Still(fs, gs, q) /\ \A k \in 1 .. q : WaitsAt(gs, k)'
    BY <1>1, <2>1, <2>2, StillWait DEF m
  <2> QED
    BY <2>1, <2>3
<1>9. Waiting(gs)'
  BY <1>1, <1>2, <1>3, <1>8 DEF Waiting
<1>10. LabelsAhead'
  BY <1>1 DEF LabelsAhead
<1>11. LeavesAt(fs, gs)
  BY <1>3, <1>6, <1>8 DEF LeavesAt, m
<1>12. <<last_node, p>> # <<>>
  OBVIOUS
<1> QED
  BY <1>0, <1>9, <1>10, <1>11, <1>12, PhaseEnds

\* The end of a conditional with a mask.
LEMMA MaskLeaves ==
  ASSUME NEW fs, NEW w, Knows(fs, w), Step, Closing(fs), fs[Len(fs)].kind = "mask", todo = <<UseMask>>
  PROVE  Continues(fs, w)
<1> DEFINE n == Len(fs)
           f == fs[n]
           L == Len(masked_blocks)
           p == Pending(fs, n)
<1>1. /\ TypeInv /\ TypeOK /\ RestType /\ Steady /\ n \in Nat /\ fs \in Seq(Frame) /\ Nested(fs, ifs) /\ Settled(fs)
      /\ Waiting(fs) /\ Build(Head(todo)) /\ todo' = Tail(todo) /\ ifs' = ifs /\ Phased(fs)
  BY KnowsFacts
<1>2. fs # <<>> /\ frames = Front(fs) /\ Restoring(fs, f)
  BY DEF Closing
<1>3. Going /\ parents = <<last_node>>
  <2>1. \A l : UseMask.op # LabelIR(l).op
    BY DEF UseMask, LabelIR, IR
  <2> QED
    BY <2>1, StillGoing
<1>4. todo' = <<>> /\ ChangeMask("exec")
  BY <1>1, BuildOf
<1>5. ExecIs(Cond(fs, n - 1))
  BY <1>2 DEF Restoring
<1>6. LET C == exec_registers["exec"]
      IN  /\ Kept(C) = L - 1
          /\ EmitNode("change_mask", ParentsOfClosed(parents, C), state[last_node], versions, C)
          /\ masked_blocks' = SubSeq(masked_blocks, 1, L - 1)
          /\ from_node' = from_node
  BY <1>1, <1>2, <1>4, <1>5, MaskCloses
<1>7. PICK C \in Condition : C = exec_registers["exec"]
  BY <1>1, KernelRegs, TypeParts DEF RestType
<1>8. /\ L = Masks(fs, n) + 1 /\ L \in Nat /\ n > 0 /\ L - 1 \in 1 .. L
      /\ Masks(fs, n - 1) = L - 2 /\ Masks(fs, n) = L - 1 /\ Masks(fs, n - 1) \in Nat
  BY <1>1, <1>2, TopBlocks, EntriesOf
<1>9. WaitsAt(fs, n) /\ n \in 1 .. n
  BY <1>1, <1>8 DEF Waiting
<1>10. p = ClosedParent(masked_blocks[L]) /\ p \in Nodes
  BY <1>8, <1>9 DEF Pending, WaitsAt
<1>11. p # last_node
  <2>1. Behind(fs) /\ Len(todo) = 1
    BY <1>2 DEF Behind
  <2> QED
    BY <1>1, <2>1 DEF Phased
<1> HIDE DEF p, L
<1>12. ParentsOfClosed(parents, C) = <<last_node, p>>
  <2>1. ClosedParents(C) = [i \in 1 .. 1 |-> ClosedParent(masked_blocks[L - i + 1])]
    <3>1. Len(masked_blocks) - Kept(C) = 1
      BY <1>6, <1>7, <1>8 DEF L
    <3> QED
      BY <3>1 DEF ClosedParents, L
  <2>2. PICK new : new = ClosedParents(C)
    OBVIOUS
  <2>3. new = <<p>>
    <3>1. L - 1 + 1 = L
      BY <1>8
    <3>2. [i \in 1 .. 1 |-> ClosedParent(masked_blocks[L - i + 1])] = [i \in 1 .. 1 |-> p]
      BY <1>10, <3>1
    <3>3. [i \in 1 .. 1 |-> p] = <<p>>
      OBVIOUS
    <3> QED
      BY <2>1, <2>2, <3>2, <3>3
  <2>4. new[1] = p /\ p \notin Range(parents)
    BY <1>3, <1>11, <2>3 DEF Range
  <2>5. ParentsOfClosed(parents, C) = parents \o new
    BY <2>2, <2>4 DEF ParentsOfClosed
  <2>6. <<last_node>> \o <<p>> = <<last_node, p>>
    BY OneAndOne
  <2> QED
    BY <1>3, <2>3, <2>5, <2>6
<1>13. /\ Added("change_mask", <<last_node, p>>) /\ Merges(last_node, <<last_node, p>>)
  <2>1. EmitNode("change_mask", <<last_node, p>>, state[last_node], versions, C)
    BY <1>6, <1>7, <1>12
  <2>2. "change_mask" \in Opcodes
    BY DEF Opcodes
  <2>3. PICK st : st = state[last_node]
    OBVIOUS
  <2>4. /\ Added("change_mask", <<last_node, p>>)
        /\ \A k : st = state[k] => Merges(k, <<last_node, p>>)
    BY <1>1, <1>10, <1>11, <2>1, <2>2, <2>3, TwoParents
  <2> QED
    BY <2>3, <2>4
<1>14. \A b \in 1 .. L - 1 : masked_blocks'[b] = masked_blocks[b]
  <2>1. PICK k \in 1 .. L : k = L - 1
    BY <1>8
  <2>2. masked_blocks \in Seq(Mask) /\ masked_blocks' = SubSeq(masked_blocks, 1, k)
    BY <1>1, <1>6, <2>1 DEF RestType, L
  <2> QED
    BY <2>1, <2>2, PrefixType DEF L
<1>15. ASSUME NEW k \in 1 .. n - 1 PROVE masked_blocks'[Masks(fs, k) + 1] = masked_blocks[Masks(fs, k) + 1]
  <2>1. n - 1 \in Nat /\ k \in 0 .. n - 1
    BY <1>1, <1>8, <1>15
  <2>2. Masks(fs, k) \in Nat /\ Masks(fs, k) <= Masks(fs, n - 1)
    BY <2>1, MasksRange
  <2>3. Masks(fs, k) + 1 \in 1 .. L - 1
    BY <1>8, <2>2
  <2> QED
    BY <1>14, <2>3
<1> QED
  BY <1>2, <1>4, <1>6, <1>11, <1>13, <1>15, LeavesContinues DEF p

\* The label of an end.
LEMMA LabelLeaves ==
  ASSUME NEW fs, NEW w, Knows(fs, w), Step, Closing(fs), fs[Len(fs)].kind = "branch",
         todo = <<LabelIR(fs[Len(fs)].label)>>
  PROVE  Continues(fs, w)
<1> DEFINE n == Len(fs)
           l == fs[n].label
           p == Pending(fs, n)
<1>1. /\ TypeInv /\ TypeOK /\ n \in Nat /\ fs \in Seq(Frame) /\ Nested(fs, ifs)
      /\ Waiting(fs) /\ Build(Head(todo)) /\ todo' = Tail(todo) /\ Phased(fs) /\ ifs \in 0 .. MaxIfs
  BY KnowsFacts
<1>2. fs # <<>> /\ frames = Front(fs)
  BY DEF Closing
<1>3. n \in 1 .. n /\ Len(frames) = n - 1 /\ Len(WithElse(fs)) = n
  BY <1>1, <1>2, Apart, ElseLen
<1>4. Going /\ parents = <<last_node>>
  BY <1>1, <1>3 DEF Phased, parents, Going
<1>5. WaitsAt(fs, n)
  BY <1>1, <1>3 DEF Waiting
<1>6. p \in Nodes /\ from_node[l] = <<p>>
  BY <1>5 DEF WaitsAt
<1>7. p # last_node
  <2>1. Behind(fs) /\ Len(todo) = 1
    BY <1>2 DEF Behind
  <2> QED
    BY <1>1, <2>1 DEF Phased
<1>8. todo' = <<>> /\ Label(l)
  <2>1. Build(LabelIR(l))
    BY <1>1
  <2> QED
    BY <1>1, <2>1, BuildOf
<1> HIDE DEF p
<1>9. /\ EmitNode("label", <<last_node, p>>, state[p], versions, mask[p])
      /\ from_node' = from_node /\ masked_blocks' = masked_blocks
  <2>1. parents \o <<p>> = <<last_node, p>> /\ Last(<<p>>) = p /\ <<p>> # <<>>
    BY <1>4, OneAndOne DEF Last
  <2> HIDE DEF l
  <2> QED
    BY <1>6, <1>8, <2>1 DEF Label
<1>10. Added("label", <<last_node, p>>) /\ Merges(p, <<last_node, p>>)
  <2>1. mask[p] \in Condition /\ "label" \in Opcodes
    BY <1>1, <1>6 DEF TypeOK, Opcodes
  <2>2. PICK st : st = state[p]
    OBVIOUS
  <2>3. /\ Added("label", <<last_node, p>>)
        /\ \A k : st = state[k] => Merges(k, <<last_node, p>>)
    BY <1>1, <1>6, <1>7, <1>9, <2>1, <2>2, TwoParents
  <2> QED
    BY <2>2, <2>3
<1> QED
  BY <1>2, <1>7, <1>8, <1>9, <1>10, LeavesContinues DEF p

\* Every IR instruction but the end of the program.
LEMMA StepContinues ==
  ASSUME NEW fs, NEW w, Knows(fs, w), Step, todo # <<EndIR>>
  PROVE  Continues(fs, w)
<1>1. /\ Lags(fs) /\ Nested(fs, ifs) /\ ifs \in 0 .. MaxIfs /\ todo # <<>> /\ todo' = Tail(todo)
  BY KnowsFacts DEF Knows
<1>2. ASSUME NEW a, Head(todo) = a, Tail(todo) # <<>>, Tail(todo) # <<EndIR>>,
             a.op \in {"cmp", "mov", "and", "or", "xor"}, ~(Entering(fs) /\ Top.kind = "branch")
      PROVE  Continues(fs, w)
  <2>1. Believed(fs, w)'
    BY <1>2, BelievedSame
  <2> QED
    BY <1>1, <1>2, <2>1, IRGoes DEF GoIRs
<1>3. \A s, i : /\ CmpIR(i).op = "cmp" /\ SaveIR(s).op = "mov" /\ NarrowIR.op = "and" /\ ElseIR(s).op = "xor"
                /\ \A ir \in RestoreIRs(s) : ir.op \in {"mov", "or"}
  BY DEF CmpIR, SaveIR, NarrowIR, ElseIR, RestoreIRs, IR
<1>4. <<UseMask>> # <<>> /\ <<UseMask>> # <<EndIR>>
  <2>1. UseMask.op # EndIR.op
    BY DEF UseMask, EndIR, IR
  <2> QED
    BY <2>1
<1>5. CASE Opening(fs) /\ Top.kind = "mask"
  <2>1. Masking(fs, Top)
    BY <1>5 DEF Opening
  <2>2. CASE todo = <<UseMask>>
    BY <1>5, <2>2, MaskEnters
  <2>3. CASE todo # <<UseMask>>
    <3>1. \/ todo = <<CmpIR(Top.cmp), SaveIR(Top.save), NarrowIR, UseMask>>
          \/ todo = <<SaveIR(Top.save), NarrowIR, UseMask>>
          \/ todo = <<NarrowIR, UseMask>>
      BY <2>1, <2>3 DEF Masking
    <3>2. CASE todo = <<CmpIR(Top.cmp), SaveIR(Top.save), NarrowIR, UseMask>>
      <4>1. /\ Head(todo) = CmpIR(Top.cmp) /\ Tail(todo) = <<SaveIR(Top.save), NarrowIR, UseMask>>
            /\ <<SaveIR(Top.save), NarrowIR, UseMask>> # <<>> /\ <<SaveIR(Top.save), NarrowIR, UseMask>> # <<EndIR>>
        BY <3>2
      <4> QED
        BY <1>2, <1>3, <1>5, <4>1
    <3>3. CASE todo = <<SaveIR(Top.save), NarrowIR, UseMask>>
      <4>1. /\ Head(todo) = SaveIR(Top.save) /\ Tail(todo) = <<NarrowIR, UseMask>>
            /\ <<NarrowIR, UseMask>> # <<>> /\ <<NarrowIR, UseMask>> # <<EndIR>>
        BY <3>3
      <4> QED
        BY <1>2, <1>3, <1>5, <4>1
    <3>4. CASE todo = <<NarrowIR, UseMask>>
      <4>1. Head(todo) = NarrowIR /\ Tail(todo) = <<UseMask>>
        BY <3>4
      <4> QED
        BY <1>2, <1>3, <1>4, <1>5, <4>1
    <3> QED
      BY <3>1, <3>2, <3>3, <3>4
  <2> QED
    BY <2>2, <2>3
<1>6. CASE Opening(fs) /\ Top.kind = "branch"
  <2>1. \E b \in BranchIRs(Top.label) : todo = <<FlagIR(Top.cmp), b>> \/ todo = <<b>>
    BY <1>6 DEF Opening, Branching
  <2> QED
    BY <1>6, <2>1, FlagGoes, BranchEnters
<1>7. CASE Switching(fs) /\ fs[Len(fs)].kind = "mask"
  <2>1. Turning(fs, fs[Len(fs)]) /\ ~Entering(fs)
    BY <1>1, <1>7, Apart DEF Switching
  <2>2. CASE todo = <<UseMask>>
    BY <1>7, <2>2, MaskTurnsAt
  <2>3. CASE todo = <<ElseIR(fs[Len(fs)].save), UseMask>>
    <3>1. Head(todo) = ElseIR(fs[Len(fs)].save) /\ Tail(todo) = <<UseMask>>
      BY <2>3
    <3> QED
      BY <1>2, <1>3, <1>4, <2>1, <3>1
  <2> QED
    BY <2>1, <2>2, <2>3 DEF Turning
<1>8. CASE Switching(fs) /\ fs[Len(fs)].kind = "branch"
  <2>1. Jumping(fs, fs[Len(fs)])
    BY <1>8 DEF Switching
  <2> QED
    BY <1>8, <2>1, JumpGoes, LabelTurnsAt DEF Jumping
<1>9. CASE Closing(fs) /\ fs[Len(fs)].kind = "mask"
  <2>1. Restoring(fs, fs[Len(fs)]) /\ ~Entering(fs)
    BY <1>1, <1>9, Apart DEF Closing
  <2>2. CASE todo = <<UseMask>>
    BY <1>9, <2>2, MaskLeaves
  <2>3. CASE \E ir \in RestoreIRs(fs[Len(fs)].save) : todo = <<ir, UseMask>>
    <3>1. PICK ir \in RestoreIRs(fs[Len(fs)].save) : todo = <<ir, UseMask>>
      BY <2>3
    <3>2. Head(todo) = ir /\ Tail(todo) = <<UseMask>>
      BY <3>1
    <3>3. ir.op \in {"mov", "or"}
      BY <1>3
    <3> QED
      BY <1>2, <1>4, <2>1, <3>2, <3>3
  <2> QED
    BY <2>1, <2>2, <2>3 DEF Restoring
<1>10. CASE Closing(fs) /\ fs[Len(fs)].kind = "branch"
  BY <1>10, LabelLeaves DEF Closing, Labelling
<1>11. CASE Level(fs)
  <2>1. PICK ir \in BodyIRs : todo = <<ir>>
    BY <1>1, <1>11 DEF Level
  <2>2. ir.op \in {"arith", "store"}
    BY <2>1 DEF BodyIRs, EndIR, IR
  <2>3. Head(todo) = ir /\ todo' = <<>> /\ <<>> # <<EndIR>>
    BY <1>1, <2>1
  <2>4. frames = fs /\ ~Entering(fs)
    BY <1>1, <1>11, Apart DEF Level
  <2>5. Believed(fs, w)'
    BY <2>4, BelievedSame
  <2> QED
    BY <2>2, <2>3, <2>4, <2>5, IRGoes DEF GoIRs
<1> QED
  BY <1>1, <1>5, <1>6, <1>7, <1>8, <1>9, <1>10, <1>11 DEF Lags, Opening, Switching, Closing

------------------------------------------------------------------------------
(***************************************************************************)
(* The lanes that reach the new node are those that its parents have left. *)
(***************************************************************************)
ActiveInv == active \in Seq(SUBSET Lanes) /\ Len(active) = last_node

Spreads(reach, next, ps) ==
  /\ next \in [Nodes' -> SUBSET Lanes] /\ \A n \in Nodes : next[n] = reach[n]
  /\ next[last_node'] = UNION {Sent(reach, p) : p \in Range(ps)}

\* The other nodes send on what they did, and the parents have a child more.
Carried(reach, next, ps) ==
  /\ \A n \in Nodes : ToFirst(next, n)' = ToFirst(reach, n) /\ ToSecond(next, n)' = ToSecond(reach, n)
  /\ \A n \in Nodes \ Range(ps) :
       /\ children'[n] = children[n] /\ Sent(next, n)' = Sent(reach, n)
       /\ Complete(reach, n) => Complete(next, n)'
  /\ \A n \in Range(ps) :
       /\ children[n] = <<>> =>
            /\ Len(children'[n]) = 1 /\ Sent(next, n)' = ToSecond(reach, n)
            /\ ToSecond(reach, n) = {} => Complete(next, n)'
       /\ Len(children[n]) = 1 => Complete(next, n)'

\* Conditions of nodes do not change.
LEMMA ConditionKept ==
  ASSUME TypeOK, Rooted, NEW op, NEW ps, Added(op, ps), NEW n \in Nodes
  PROVE  Condition_of(n)' = Condition_of(n)
<1>1. /\ last_node \in Nat /\ Nodes = 1 .. last_node /\ n \in Nat
      /\ \A k \in Nodes : /\ instruction'[k] = instruction[k] /\ parent'[k] = parent[k]
                          /\ mask'[k] = mask[k] /\ state'[k] = state[k]
  BY DEF Added
<1>2. CASE instruction[n] = "change_mask"
  <2>1. n # 1
    BY <1>2 DEF Rooted
  <2>2. parent[n] # <<>> /\ \A i \in DOMAIN parent[n] : parent[n][i] \in 1 .. n - 1
    BY <2>1 DEF Rooted
  <2>3. mask'[parent[n][1]] = mask[parent[n][1]]
    <3>1. parent[n][1] \in Nodes
      <4>1. parent[n] \in Seq(Nodes)
        BY DEF TypeOK
      <4>2. Len(parent[n]) \in Nat /\ Len(parent[n]) > 0
        BY <2>2, <4>1, EmptySeq, LenProperties
      <4> QED
        BY <4>1, <4>2
    <3> QED
      BY <1>1, <3>1
  <2>4. Condition_of(n) = mask[n] \ mask[parent[n][1]]
    BY <1>2 DEF Condition_of
  <2>5. instruction'[n] = "change_mask" /\ mask'[n] = mask[n] /\ parent'[n] = parent[n]
    BY <1>1, <1>2
  <2>6. Condition_of(n)' = mask'[n] \ mask'[parent'[n][1]]
    BY <2>5 DEF Condition_of
  <2> QED
    BY <2>3, <2>4, <2>5, <2>6
<1>3. CASE instruction[n] # "change_mask"
  <2>1. /\ instruction'[n] = instruction[n] /\ state'[n] = state[n]
    BY <1>1
  <2> QED
    BY <1>3, <2>1 DEF Condition_of
<1> QED
  BY <1>2, <1>3

LEMMA SpreadsCarry ==
  ASSUME TypeOK, Rooted, NEW op, NEW ps, Added(op, ps), NEW reach, NEW next, Spreads(reach, next, ps)
  PROVE  Carried(reach, next, ps)
<1>1. /\ last_node \in Nat /\ Nodes = 1 .. last_node /\ last_node' \notin Nodes /\ last_node' = last_node + 1
      /\ children \in [Nodes -> Seq(Nodes)] /\ Range(ps) \subseteq Nodes
      /\ \A k \in Nodes :
           children'[k] = IF k \in Range(ps) THEN Append(children[k], last_node') ELSE children[k]
  <2>1. children \in [Nodes -> Seq(Nodes)]
    BY DEF TypeOK
  <2>2. /\ last_node \in Nat /\ Nodes = 1 .. last_node /\ last_node' = last_node + 1 /\ ps \in Seq(Nodes)
        /\ \A k \in Nodes :
             children'[k] = IF k \in Range(ps) THEN Append(children[k], last_node') ELSE children[k]
    BY DEF Added
  <2>3. Range(ps) \subseteq Nodes
    BY <2>2 DEF Range
  <2>4. last_node' \notin Nodes
    BY <2>2
  <2> QED
    BY <2>1, <2>2, <2>3, <2>4
<1>2. ASSUME NEW n \in Nodes
      PROVE  ToFirst(next, n)' = ToFirst(reach, n) /\ ToSecond(next, n)' = ToSecond(reach, n)
  <2>1. Condition_of(n)' = Condition_of(n) /\ next[n] = reach[n]
    BY ConditionKept DEF Spreads
  <2>2. ToFirst(next, n)' = ToFirst(reach, n)
    BY <2>1 DEF ToFirst
  <2> QED
    BY <2>1, <2>2 DEF ToSecond
<1>3. ASSUME NEW n \in Nodes \ Range(ps)
      PROVE  /\ children'[n] = children[n] /\ Sent(next, n)' = Sent(reach, n)
             /\ Complete(reach, n) => Complete(next, n)'
  <2>1. children'[n] = children[n] /\ ToFirst(next, n)' = ToFirst(reach, n) /\ ToSecond(next, n)' = ToSecond(reach, n)
    BY <1>1, <1>2
  <2> QED
    BY <2>1 DEF Sent, Complete
<1>4. ASSUME NEW n \in Range(ps)
      PROVE  /\ children[n] = <<>> =>
                  /\ Len(children'[n]) = 1 /\ Sent(next, n)' = ToSecond(reach, n)
                  /\ ToSecond(reach, n) = {} => Complete(next, n)'
             /\ Len(children[n]) = 1 => Complete(next, n)'
  <2>1. n \in Nodes /\ children[n] \in Seq(Nodes) /\ children'[n] = Append(children[n], last_node')
    BY <1>1, <1>4
  <2>2. ToFirst(next, n)' = ToFirst(reach, n) /\ ToSecond(next, n)' = ToSecond(reach, n)
    BY <1>2, <2>1
  <2>3. CASE children[n] = <<>>
    <3>1. children'[n] = <<last_node'>>
      BY <2>1, <2>3
    <3>2. Len(children'[n]) = 1 /\ children'[n] # <<>>
      BY <3>1
    <3>3. Sent(next, n)' = ToSecond(reach, n)
      BY <2>2, <3>2 DEF Sent
    <3>4. Len(children[n]) = 0
      BY <2>3
    <3> QED
      BY <2>2, <3>2, <3>3, <3>4 DEF Complete
  <2>4. CASE Len(children[n]) = 1
    <3>1. children[n][1] \in Nodes
      BY <2>1, <2>4
    <3>2. Len(children'[n]) = 2 /\ children'[n][1] = children[n][1] /\ children'[n][2] = last_node'
      BY <2>1, <2>4
    <3>3. children'[n][1] # children'[n][2]
      BY <1>1, <3>1, <3>2
    <3> QED
      BY <2>4, <3>2, <3>3 DEF Complete
  <2> QED
    BY <2>3, <2>4
<1> QED
  BY <1>2, <1>3, <1>4 DEF Carried

\* A node is reached by what its parents send.
LEMMA SpreadsReach ==
  ASSUME TypeOK, Rooted, EdgesAgree, NEW op, NEW ps, Added(op, ps), NEW reach, Graphed(reach),
         NEW next, Spreads(reach, next, ps), op \in BodyOps => next[last_node'] = active'[last_node'],
         \A n \in Nodes : active'[n] = active[n]
  PROVE  Graphed(next)'
<1>1. /\ last_node \in Nat /\ last_node > 0 /\ Nodes = 1 .. last_node /\ Nodes' = 1 .. last_node + 1
      /\ last_node' \notin Nodes /\ last_node' = last_node + 1 /\ 1 \in Nodes
      /\ parent'[last_node'] = ps /\ instruction'[last_node'] = op
      /\ \A k \in Nodes : /\ parent'[k] = parent[k] /\ instruction'[k] = instruction[k]
                          /\ children'[k] = IF k \in Range(ps) THEN Append(children[k], last_node') ELSE children[k]
  BY DEF Added
<1>0. /\ children \in [Nodes -> Seq(Nodes)] /\ parent \in [Nodes -> Seq(Nodes)] /\ Range(ps) \subseteq Nodes
      /\ \A k \in Nodes : children[k] \in Seq(Nodes) /\ parent[k] \in Seq(Nodes) /\ Range(parent[k]) \subseteq Nodes
  <2>1. children \in [Nodes -> Seq(Nodes)] /\ parent \in [Nodes -> Seq(Nodes)]
    BY DEF TypeOK
  <2>2. ps \in Seq(Nodes)
    BY DEF Added
  <2> QED
    BY <2>1, <2>2 DEF Range
<1>2. \A n \in Nodes : ToFirst(next, n)' = ToFirst(reach, n) /\ ToSecond(next, n)' = ToSecond(reach, n)
  BY SpreadsCarry DEF Carried
<1>3. ASSUME NEW n \in Nodes, n # 1 PROVE Reached(next, n)'
  <2>1. ASSUME NEW p \in Range(parent[n]) PROVE Along(next, p, n)' = Along(reach, p, n)
    <3>1. p \in Nodes /\ n \in Range(children[p])
      <4>1. p \in Nodes
        BY <1>0, <1>3, <2>1
      <4> QED
        BY <1>3, <2>1, <4>1 DEF EdgesAgree
    <3>2. children[p] \in Seq(Nodes) /\ children[p] # <<>>
      BY <1>0, <3>1 DEF Range
    <3>3. Len(children[p]) \in Nat \ {0}
      BY <3>2, EmptySeq
    <3>4. \A x : Append(children[p], x) # <<>> /\ Append(children[p], x)[1] = children[p][1]
      BY <3>2, <3>3
    <3>5. children'[p] # <<>> /\ children'[p][1] = children[p][1]
      <4>1. children'[p] = IF p \in Range(ps) THEN Append(children[p], last_node') ELSE children[p]
        BY <1>1, <3>1
      <4> QED
        BY <3>2, <3>4, <4>1
    <3> QED
      BY <1>2, <3>1, <3>2, <3>5 DEF Along
  <2>2. reach[n] = UNION {Along(reach, p, n) : p \in Range(parent[n])}
    BY <1>3 DEF Graphed, Reached
  <2>3. parent'[n] = parent[n] /\ next[n] = reach[n]
    BY <1>1, <1>3 DEF Spreads
  <2>4. {Along(next, p, n)' : p \in Range(parent[n])} = {Along(reach, p, n) : p \in Range(parent[n])}
    BY <2>1
  <2> QED
    BY <2>2, <2>3, <2>4 DEF Reached
<1>4. Reached(next, last_node)'
  <2>1. ASSUME NEW p \in Range(ps) PROVE Along(next, p, last_node)' = Sent(reach, p)
    <3>1. p \in Nodes /\ children[p] \in Seq(Nodes) /\ children'[p] = Append(children[p], last_node')
      BY <1>0, <1>1, <2>1
    <3>2. CASE children[p] = <<>>
      <4>1. children'[p] = <<last_node'>>
        BY <3>1, <3>2
      <4>2. children'[p] # <<>> /\ children'[p][1] = last_node'
        BY <4>1
      <4> QED
        BY <1>2, <3>1, <3>2, <4>2 DEF Along, Sent
    <3>3. CASE children[p] # <<>>
      <4>1. Len(children[p]) \in Nat \ {0}
        BY <3>1, <3>3, EmptySeq
      <4>2. children[p][1] \in Nodes
        BY <3>1, <4>1
      <4>3. children'[p][1] = children[p][1]
        BY <3>1, <4>1
      <4>4. children'[p][1] # last_node'
        BY <1>1, <4>2, <4>3
      <4> QED
        BY <1>2, <3>1, <3>3, <4>4 DEF Along, Sent
    <3> QED
      BY <3>2, <3>3
  <2>2. next[last_node'] = UNION {Sent(reach, p) : p \in Range(ps)}
    BY DEF Spreads
  <2>3. {Along(next, p, last_node)' : p \in Range(ps)} = {Sent(reach, p) : p \in Range(ps)}
    BY <2>1
  <2> QED
    BY <1>1, <2>2, <2>3 DEF Reached
<1>5. \A n \in Nodes' : n # 1 => Reached(next, n)'
  <2>1. \A n \in Nodes' : n \in Nodes \/ n = last_node'
    BY <1>1
  <2> QED
    BY <1>3, <1>4, <2>1
<1>6. ASSUME NEW n \in Effects' PROVE next[n] = active'[n]
  <2>1. n \in Nodes \/ n = last_node'
    BY <1>1, <1>6 DEF Effects
  <2>2. CASE n \in Nodes
    <3>1. n \in Effects
      BY <1>1, <1>6, <2>2 DEF Effects
    <3> QED
      BY <2>2, <3>1 DEF Graphed, Spreads
  <2>3. CASE n = last_node'
    BY <1>1, <1>6, <2>3 DEF Effects, BodyOps
  <2> QED
    BY <2>1, <2>2, <2>3
<1>7. next \in [Nodes' -> SUBSET Lanes] /\ next[1] = Lanes
  BY <1>1 DEF Spreads, Graphed
<1> QED
  BY <1>5, <1>6, <1>7 DEF Graphed

------------------------------------------------------------------------------
(***************************************************************************)
(* The lanes inside the conditionals.                                      *)
(***************************************************************************)
\* They stay the same up to conditional q if they do there.
LEMMA InsideSame ==
  ASSUME NEW fs, NEW gs, NEW w, NEW v, NEW q \in Nat, Len(fs) \in Nat, Len(gs) \in Nat,
         q <= Len(fs), q <= Len(gs), \A j \in 1 .. q : gs[j] = fs[j],
         \A l \in Lanes : Beyond(fs, w, q, l) <=> Beyond(gs, v, q, l)
  PROVE  \A k \in 0 .. q : Inside(gs, v, k) = Inside(fs, w, k)
<1> TAKE k \in 0 .. q
<1>1. k \in Nat /\ k <= q
  OBVIOUS
<1>2. Cond(gs, k) = Cond(fs, k)
  <2>1. \A i \in 1 .. k : gs[i] = fs[i]
    BY <1>1
  <2> QED
    BY <2>1, CondSame
<1>3. ASSUME NEW l \in Lanes PROVE Beyond(fs, w, k, l) <=> Beyond(gs, v, k, l)
  <2>1. k + 1 .. Len(fs) = (k + 1 .. q) \cup (q + 1 .. Len(fs)) /\ k + 1 .. Len(gs) = (k + 1 .. q) \cup (q + 1 .. Len(gs))
    BY <1>1
  <2>2. \A j \in k + 1 .. q : gs[j] = fs[j]
    BY <1>1
  <2>3. Beyond(fs, w, k, l) <=>
          Beyond(fs, w, q, l) \/ \E j \in k + 1 .. q : fs[j].kind = "branch" /\ l \in fs[j].waves
    BY <2>1 DEF Beyond
  <2>4. Beyond(gs, v, k, l) <=>
          Beyond(gs, v, q, l) \/ \E j \in k + 1 .. q : gs[j].kind = "branch" /\ l \in gs[j].waves
    BY <2>1 DEF Beyond
  <2>5. Beyond(fs, w, q, l) <=> Beyond(gs, v, q, l)
    BY <1>3
  <2> QED
    BY <2>2, <2>3, <2>4, <2>5
<1> QED
  BY <1>2, <1>3 DEF Inside

\* The innermost conditional.
LEMMA InsideTop ==
  ASSUME NEW fs, NEW w, NEW n \in Nat, n = Len(fs)
  PROVE  /\ Inside(fs, w, n) = {l \in Lanes : l \in w /\ Satisfies(l, Cond(fs, n))}
         /\ \A l : Beyond(fs, w, n, l) <=> l \in w
         /\ n > 0 => \A l : Beyond(fs, w, n - 1, l) <=> l \in w \/ (fs[n].kind = "branch" /\ l \in fs[n].waves)
<1>1. n + 1 .. Len(fs) = {} /\ (n > 0 => (n - 1) + 1 .. Len(fs) = {n})
  OBVIOUS
<1>2. \A l : Beyond(fs, w, n, l) <=> l \in w
  BY <1>1 DEF Beyond
<1>3. n > 0 => \A l : Beyond(fs, w, n - 1, l) <=> l \in w \/ (fs[n].kind = "branch" /\ l \in fs[n].waves)
  BY <1>1 DEF Beyond
<1> QED
  BY <1>2, <1>3 DEF Inside

\* Who is inside more conditionals is inside fewer.
LEMMA InsideShrinks ==
  ASSUME NEW fs, NEW w, NEW k \in 1 .. Len(fs), Len(fs) \in Nat
  PROVE  Inside(fs, w, k) \subseteq Inside(fs, w, k - 1)
<1>1. k \in Nat /\ k > 0 /\ k - 1 \in Nat /\ (k - 1) + 1 = k
  OBVIOUS
<1>2. Cond(fs, k - 1) \subseteq Cond(fs, k)
  BY <1>1, CondStep
<1>3. ASSUME NEW l, Beyond(fs, w, k, l) PROVE Beyond(fs, w, k - 1, l)
  <2>1. k + 1 .. Len(fs) \subseteq (k - 1) + 1 .. Len(fs)
    BY <1>1
  <2> QED
    BY <1>3, <2>1 DEF Beyond
<1>4. \A l : Satisfies(l, Cond(fs, k)) => Satisfies(l, Cond(fs, k - 1))
  BY <1>2 DEF Satisfies
<1> QED
  BY <1>3, <1>4 DEF Inside

------------------------------------------------------------------------------
(***************************************************************************)
(* What a step does to the lanes that the graph has sent nowhere yet.      *)
(***************************************************************************)
\* All lanes go on from a node that is not a branch.
LEMMA AllGo ==
  ASSUME NEW gs, Lags(gs)', instruction'[last_node'] \notin {"s_br", "s_nbr"}, NEW v,
         NEW n \in Nat, n = Len(gs), NEW l \in Inside(gs, v, n)
  PROVE  Satisfies(l, Condition_of(last_node)')
<1>1. mask'[last_node'] = Cond(gs, n)
  BY DEF Lags, Settled, Here, Within
<1>2. Satisfies(l, Cond(gs, n))
  BY DEF Inside
<1>3. CASE instruction'[last_node'] = "change_mask"
  <2>1. Condition_of(last_node)' = mask'[last_node'] \ mask'[parent'[last_node'][1]]
    BY <1>3 DEF Condition_of
  <2> QED
    BY <1>1, <1>2, <2>1 DEF Satisfies
<1>4. CASE instruction'[last_node'] # "change_mask"
  <2>1. Condition_of(last_node)' = {}
    BY <1>4 DEF Condition_of
  <2> QED
    BY <2>1 DEF Satisfies
<1> QED
  BY <1>3, <1>4

\* What a conditional has left open stays so, when the node it waits at gets no child or its first.
LEMMA LeavingStays ==
  ASSUME NEW reach, NEW next, NEW ps, Carried(reach, next, ps), last_node' \notin Nodes,
         NEW fs, NEW gs, NEW w, NEW v, NEW k, gs[k] = fs[k],
         Pending(fs, k) \in Nodes, Pending(gs, k)' = Pending(fs, k),
         Outer(gs, v, k) = Outer(fs, w, k), Leaving(fs, w, reach, k),
         \/ Pending(fs, k) # last_node /\ Pending(fs, k) \notin Range(ps)
         \/ /\ Pending(fs, k) = last_node /\ last_node \in Range(ps)
            /\ children[last_node] = <<>> /\ fs[k].branch = "then"
  PROVE  Leaving(gs, v, next, k)'
<1>1. PICK p \in Nodes : p = Pending(fs, k)
  OBVIOUS
<1>2. p # last_node' /\ Pending(gs, k)' = p
  BY <1>1
<1>3. /\ Sent(next, p)' = Outer(gs, v, k)
      /\ IF gs[k].branch = "then" THEN Len(children'[p]) = 1
                                  ELSE children'[p] = <<>> /\ ToSecond(next, p)' = {}
  <2>1. CASE p # last_node /\ p \notin Range(ps)
    <3>1. /\ children'[p] = children[p] /\ Sent(next, p)' = Sent(reach, p)
          /\ ToSecond(next, p)' = ToSecond(reach, p)
      BY <2>1 DEF Carried
    <3> QED
      BY <1>1, <2>1, <3>1 DEF Leaving
  <2>2. CASE /\ p = last_node /\ p \in Range(ps) /\ children[p] = <<>> /\ fs[k].branch = "then"
    <3>1. Len(children'[p]) = 1 /\ Sent(next, p)' = ToSecond(reach, p)
      BY <2>2 DEF Carried
    <3> QED
      BY <1>1, <2>2, <3>1 DEF Leaving
  <2> QED
    BY <1>1, <2>1, <2>2
<1> QED
  BY <1>2, <1>3 DEF Leaving

\* The lanes of the new node, and that the graph stays one that they go through.
LEMMA FlowGrows ==
  ASSUME TypeOK, Rooted, EdgesAgree, Step, ActiveInv, FramesInv, HwInv,
         NEW op, NEW ps, Added(op, ps), NEW reach, Graphed(reach)
  PROVE  /\ ActiveInv'
         /\ \E next :
              /\ Spreads(reach, next, ps) /\ Carried(reach, next, ps)
              /\ (op \in BodyOps => next[last_node'] = hw["exec"] \cap waves) => Graphed(next)'
<1>1. /\ last_node \in Nat /\ last_node > 0 /\ Nodes = 1 .. last_node /\ Nodes' = 1 .. last_node + 1
      /\ last_node' = last_node + 1 /\ last_node' \notin Nodes /\ ps \in Seq(Nodes)
  BY DEF Added
<1> DEFINE here == hw["exec"] \cap waves
<1>2. here \in SUBSET Lanes
  BY DEF FramesInv
<1>3. active \in Seq(SUBSET Lanes) /\ Len(active) = last_node /\ active' = Append(active, here)
  BY DEF ActiveInv, Step
<1> HIDE DEF here
<1>4. /\ active' \in Seq(SUBSET Lanes) /\ Len(active') = last_node + 1
      /\ active'[last_node + 1] = here /\ \A n \in 1 .. last_node : active'[n] = active[n]
  BY <1>2, <1>3
<1>5. ActiveInv'
  BY <1>1, <1>4 DEF ActiveInv
<1> DEFINE sent == UNION {Sent(reach, p) : p \in Range(ps)}
           next == [n \in 1 .. last_node + 1 |-> IF n \in Nodes THEN reach[n] ELSE sent]
<1>6. reach \in [Nodes -> SUBSET Lanes]
  BY DEF Graphed
<1>7. sent \in SUBSET Lanes
  <2>1. ASSUME NEW p \in Range(ps) PROVE Sent(reach, p) \in SUBSET Lanes
    <3>1. p \in Nodes
      BY <1>1, <2>1 DEF Range
    <3>2. reach[p] \in SUBSET Lanes
      BY <1>6, <3>1
    <3>3. ToFirst(reach, p) \subseteq reach[p] /\ ToSecond(reach, p) \subseteq reach[p]
      BY DEF ToFirst, ToSecond
    <3> QED
      BY <3>2, <3>3 DEF Sent
  <2> QED
    BY <2>1
<1> HIDE DEF sent
<1>8. next \in [Nodes' -> SUBSET Lanes] /\ (\A n \in Nodes : next[n] = reach[n]) /\ next[last_node'] = sent
  BY <1>1, <1>6, <1>7
<1> HIDE DEF next
<1>9. PICK x : x = next
  OBVIOUS
<1>10. Spreads(reach, x, ps)
  BY <1>8, <1>9 DEF Spreads, sent
<1>11. Carried(reach, x, ps)
  BY <1>10, SpreadsCarry
<1>12. ASSUME op \in BodyOps => x[last_node'] = here PROVE Graphed(x)'
  <2>1. op \in BodyOps => x[last_node'] = active'[last_node']
    BY <1>1, <1>4, <1>12
  <2>2. \A n \in Nodes : active'[n] = active[n]
    BY <1>1, <1>4
  <2> QED
    BY <1>10, <2>1, <2>2, SpreadsReach
<1> QED
  BY <1>5, <1>10, <1>11, <1>12 DEF here

\* What is known of the pass when it is level with the machine instructions.
LEMMA LevelLanes ==
  ASSUME NEW fs, NEW w, Knows(fs, w), Step, frames = fs
  PROVE  Inside(fs, w, Len(fs)) = hw["exec"] \cap waves
<1> DEFINE n == Len(fs)
<1>1. FramesInv /\ HwInv /\ n \in Nat /\ fs \in Seq(Frame) /\ Nested(fs, ifs) /\ ifs \in 0 .. MaxIfs /\ Believed(fs, w)
  BY KnowsFacts
<1>2. ~Entering(fs) /\ (fs # <<>> => Len(Front(fs)) = n - 1)
  BY <1>1, Apart
<1>3. fs # <<>> => fs # Front(fs)
  BY <1>1, <1>2
<1>4. ASSUME fs # <<>>, fs[n].kind = "branch" PROVE fs # WithElse(fs)
  <2>1. n \in 1 .. n
    BY <1>1, <1>4, EmptySeq
  <2>2. fs[n] \in Frame
    BY <1>1, <2>1
  <2>3. fs[n].label \in Nat
    BY <1>4, <2>2, FrameType, LabelsType
  <2>4. WithElse(fs)[n] = Elsed(fs[n])
    BY <1>1, <2>1 DEF WithElse
  <2>5. Elsed(fs[n]).label = fs[n].label + 1
    <3>1. fs[n] \in [kind : {"branch"}, cmp : Comparisons, branch : Sides, label : Labels, waves : SUBSET Lanes]
      BY <1>4, <2>2 DEF Frame
    <3> QED
      BY <1>4, <3>1 DEF Elsed
  <2> QED
    BY <2>3, <2>4, <2>5
<1>5. w = waves
  <2>1. ~(Behind(fs) /\ fs[Len(fs)].kind = "branch")
    BY <1>3, <1>4 DEF Behind
  <2> QED
    BY <1>1, <1>2, <2>1 DEF Believed
<1>6. Inside(fs, w, n) = {l \in Lanes : l \in w /\ Satisfies(l, Cond(fs, n))}
  BY <1>1, InsideTop
<1>7. waves \subseteq Lanes /\ \A l \in waves : l \in hw["exec"] <=> Satisfies(l, Cond(fs, n))
  BY <1>1 DEF FramesInv, HwInv, ExecRight
<1> QED
  BY <1>5, <1>6, <1>7

\* The lanes at the newest node go on to its child.
LEMMA FollowSent ==
  ASSUME NEW reach, NEW next, Spreads(reach, next, <<last_node>>), children[last_node] = <<>>
  PROVE  next[last_node'] = ToFirst(reach, last_node)
<1>1. Range(<<last_node>>) = {last_node}
  BY DEF Range
<1>2. Sent(reach, last_node) = ToFirst(reach, last_node)
  BY DEF Sent
<1>3. next[last_node'] = UNION {Sent(reach, p) : p \in {last_node}}
  BY <1>1 DEF Spreads
<1> QED
  BY <1>2, <1>3

\* A node follows the newest one, which leaves all conditionals as they are, or opens another.
LEMMA FollowFlow ==
  ASSUME NEW fs, Waiting(fs), NEW w, NEW reach, Flow(fs, w, reach),
         NEW gs, NEW v, NEW n \in Nat, n = Len(fs), Len(gs) \in Nat, n <= Len(gs), Still(fs, gs, n),
         \A k \in 1 .. n : Outer(gs, v, k) = Outer(fs, w, k),
         NEW op, Added(op, <<last_node>>),
         NEW next, Carried(reach, next, <<last_node>>), Graphed(next)',
         ToFirst(next, last_node)' = Inside(gs, v, Len(gs)),
         \A k \in n + 1 .. Len(gs) : Leaving(gs, v, next, k)',
         (last_node \notin Pendings(gs))' => ToSecond(next, last_node)' = {}
  PROVE  Flow(gs, v, next)'
<1>1. /\ last_node \in Nat /\ last_node > 0 /\ Nodes = 1 .. last_node /\ Nodes' = 1 .. last_node + 1
      /\ last_node' = last_node + 1 /\ last_node' \notin Nodes /\ last_node \in Nodes
      /\ children'[last_node'] = <<>>
  BY DEF Added
<1>2. Range(<<last_node>>) = {last_node}
  BY DEF Range
<1>3. children[last_node] = <<>>
  BY DEF Flow
<1>4. ASSUME NEW k \in 1 .. n PROVE Leaving(gs, v, next, k)'
  <2>1. gs[k] = fs[k] /\ Pending(fs, k) \in Nodes /\ Pending(gs, k)' = Pending(fs, k)
    BY <1>4 DEF Still
  <2>2. Pending(fs, k) = last_node => fs[k].branch = "then"
    BY <1>4 DEF Waiting, WaitsAt
  <2>3. Leaving(fs, w, reach, k) /\ Outer(gs, v, k) = Outer(fs, w, k)
    BY <1>4 DEF Flow
  <2> QED
    BY <1>1, <1>2, <1>3, <2>1, <2>2, <2>3, LeavingStays
<1>5. \A k \in 1 .. Len(gs) : Leaving(gs, v, next, k)'
  <2>1. \A k \in 1 .. Len(gs) : k \in 1 .. n \/ k \in n + 1 .. Len(gs)
    OBVIOUS
  <2> QED
    BY <1>4, <2>1
<1>6. Pendings(fs) \subseteq Pendings(gs)'
  <2>1. ASSUME NEW k \in 1 .. n PROVE Pending(fs, k) \in Pendings(gs)'
    <3>1. k \in 1 .. Len(gs) /\ Pending(gs, k)' = Pending(fs, k)
      BY <2>1 DEF Still
    <3> QED
      BY <3>1 DEF Pendings
  <2> QED
    BY <2>1 DEF Pendings
<1>7. ASSUME NEW m \in Nodes PROVE m \in Pendings(gs)' \/ Complete(next, m)'
  <2>1. CASE m \in Pendings(fs)
    BY <1>6, <2>1
  <2>2. CASE m = last_node /\ m \notin Pendings(fs)
    <3>1. ToSecond(reach, m) = {}
      BY <2>2 DEF Flow
    <3> QED
      BY <1>2, <1>3, <2>2, <3>1 DEF Carried
  <2>3. CASE m # last_node /\ m \notin Pendings(fs)
    <3>1. Complete(reach, m)
      BY <2>3 DEF Flow
    <3> QED
      BY <1>2, <2>3, <3>1 DEF Carried
  <2> QED
    BY <2>1, <2>2, <2>3
<1>8. \A m \in Nodes' : m = last_node' \/ m \in Pendings(gs)' \/ Complete(next, m)'
  <2>1. \A m \in Nodes' : m \in Nodes \/ m = last_node'
    BY <1>1
  <2> QED
    BY <1>7, <2>1
<1> QED
  BY <1>1, <1>5, <1>8 DEF Flow

LEMMA GoesFlow ==
  ASSUME NEW fs, NEW w, Knows(fs, w), Step, EdgesAgree, ActiveInv, NEW reach, Flow(fs, w, reach),
         Lags(fs)', Goes(fs)
  PROVE  ActiveInv' /\ \E next : Flow(fs, w, next)'
<1> DEFINE n == Len(fs)
<1>1. /\ TypeOK /\ Rooted /\ FramesInv /\ HwInv /\ n \in Nat /\ Waiting(fs)
  BY KnowsFacts
<1>2. Still(fs, fs, n)
  BY DEF Goes
<1>3. PICK op \in GoOps : Added(op, <<last_node>>) /\ (op \in BodyOps => frames = fs)
  BY DEF Goes
<1>4. Graphed(reach) /\ children[last_node] = <<>> /\ ToFirst(reach, last_node) = Inside(fs, w, n)
  BY DEF Flow
<1> HIDE DEF n
<1>5. ActiveInv' /\
      \E next :
        /\ Spreads(reach, next, <<last_node>>) /\ Carried(reach, next, <<last_node>>)
        /\ (op \in BodyOps => next[last_node'] = hw["exec"] \cap waves) => Graphed(next)'
  <2>1. PICK ps : ps = <<last_node>>
    OBVIOUS
  <2>2. Added(op, ps)
    BY <1>3, <2>1
  <2>3. ActiveInv' /\
      \E next :
        /\ Spreads(reach, next, ps) /\ Carried(reach, next, ps)
        /\ (op \in BodyOps => next[last_node'] = hw["exec"] \cap waves) => Graphed(next)'
    BY <1>1, <1>4, <2>2, FlowGrows
  <2> QED
    BY <2>1, <2>3
<1>6. PICK next :
        /\ Spreads(reach, next, <<last_node>>) /\ Carried(reach, next, <<last_node>>)
        /\ (op \in BodyOps => next[last_node'] = hw["exec"] \cap waves) => Graphed(next)'
  BY <1>5
<1>7. next[last_node'] = Inside(fs, w, n)
  BY <1>4, <1>6, FollowSent
<1>8. Graphed(next)'
  <2>1. op \in BodyOps => Inside(fs, w, n) = hw["exec"] \cap waves
    BY <1>3, LevelLanes DEF n
  <2> QED
    BY <1>6, <1>7, <2>1
<1>9. ToFirst(next, last_node)' = Inside(fs, w, n) /\ ToSecond(next, last_node)' = {}
  <2>1. instruction'[last_node'] \notin {"s_br", "s_nbr"}
    BY <1>3 DEF Added, GoOps, BodyOps
  <2>2. \A l \in Inside(fs, w, n) : Satisfies(l, Condition_of(last_node)')
    BY <1>1, <2>1, AllGo DEF n
  <2>3. ToFirst(next, last_node)' = Inside(fs, w, n)
    BY <1>7, <2>2 DEF ToFirst
  <2> QED
    BY <1>7, <2>3 DEF ToSecond
<1>10. n = Len(fs) /\ Len(fs) \in Nat /\ n <= Len(fs) /\ n + 1 .. Len(fs) = {}
  BY <1>1 DEF n
<1>11. Flow(fs, w, next)'
  BY <1>1, <1>2, <1>3, <1>6, <1>8, <1>9, <1>10, FollowFlow
<1> QED
  BY <1>5, <1>11

\* What is believed when a conditional is about to be entered, turned or left.
LEMMA BelievedWaves ==
  ASSUME NEW fs, NEW w, Knows(fs, w), Step
  PROVE  /\ Entering(fs) => /\ Top.kind = "mask" => w = waves
                            /\ Top.kind = "branch" => w = Top.waves
         /\ Behind(fs) /\ frames # fs =>
              LET f == fs[Len(fs)]
              IN  /\ f.kind = "mask" => w = waves
                  /\ f.kind = "branch" =>
                       /\ w \subseteq f.waves
                       /\ waves = IF frames = Front(fs) THEN f.waves ELSE f.waves \ w
<1>1. Len(fs) \in Nat /\ fs \in Seq(Frame) /\ Nested(fs, ifs) /\ ifs \in 0 .. MaxIfs /\ Believed(fs, w)
  BY KnowsFacts
<1>2. frames = fs => ~Entering(fs)
  BY <1>1, Apart
<1>3. Len(Append(fs, Top)) = Len(fs) + 1 /\ (fs # <<>> => Len(Front(fs)) = Len(fs) - 1) /\ Len(WithElse(fs)) = Len(fs)
  BY <1>1, Apart, ElseLen
<1>4. ~(Entering(fs) /\ Behind(fs))
  <2>1. Entering(fs) => Len(frames) = Len(fs) + 1
    BY <1>3 DEF Entering
  <2>2. Behind(fs) => Len(frames) = Len(fs) \/ Len(frames) = Len(fs) - 1
    BY <1>3 DEF Behind
  <2> QED
    BY <1>1, <2>1, <2>2
<1>5. Entering(fs) => /\ Top.kind = "mask" => w = waves
                      /\ Top.kind = "branch" => w = Top.waves
  <2>1. "mask" # "branch"
    OBVIOUS
  <2> QED
    BY <1>1, <1>2, <1>4, <2>1 DEF Believed
<1>6. ASSUME Behind(fs), frames # fs
      PROVE  /\ fs[Len(fs)].kind = "mask" => w = waves
             /\ fs[Len(fs)].kind = "branch" =>
                  /\ w \subseteq fs[Len(fs)].waves
                  /\ waves = IF frames = Front(fs) THEN fs[Len(fs)].waves ELSE fs[Len(fs)].waves \ w
  BY <1>1, <1>4, <1>6 DEF Believed
<1> QED
  BY <1>5, <1>6

LEMMA EntersFlow ==
  ASSUME NEW fs, NEW w, Knows(fs, w), Step, EdgesAgree, ActiveInv, NEW reach, Flow(fs, w, reach),
         NEW gs, gs = frames, Lags(gs)', Enters(fs, gs), Chooses(w), NEW v, v = waves
  PROVE  ActiveInv' /\ \E next : Flow(gs, v, next)'
<1> DEFINE n == Len(fs)
<1>1. /\ TypeOK /\ Rooted /\ FramesInv /\ HwInv /\ n \in Nat /\ Waiting(fs) /\ fs \in Seq(Frame)
  BY KnowsFacts
<1>2. /\ gs = Append(fs, Top) /\ Still(fs, gs, n)
      /\ \E q : q = n + 1 /\ Pending(gs, q)' = last_node'
  BY DEF Enters
<1>3. PICK op \in {"change_mask", "s_br", "s_nbr"} : Added(op, <<last_node>>)
  BY DEF Enters
<1>4. Graphed(reach) /\ children[last_node] = <<>> /\ ToFirst(reach, last_node) = Inside(fs, w, n)
  BY DEF Flow
<1> HIDE DEF n
<1>5. ActiveInv' /\
      \E next :
        /\ Spreads(reach, next, <<last_node>>) /\ Carried(reach, next, <<last_node>>)
        /\ (op \in BodyOps => next[last_node'] = hw["exec"] \cap waves) => Graphed(next)'
  <2>1. PICK ps : ps = <<last_node>>
    OBVIOUS
  <2>2. Added(op, ps)
    BY <1>3, <2>1
  <2>3. ActiveInv' /\
      \E next :
        /\ Spreads(reach, next, ps) /\ Carried(reach, next, ps)
        /\ (op \in BodyOps => next[last_node'] = hw["exec"] \cap waves) => Graphed(next)'
    BY <1>1, <1>4, <2>2, FlowGrows
  <2> QED
    BY <2>1, <2>3
<1>6. PICK next :
        /\ Spreads(reach, next, <<last_node>>) /\ Carried(reach, next, <<last_node>>) /\ Graphed(next)'
  BY <1>5 DEF BodyOps
<1>7. next[last_node'] = Inside(fs, w, n)
  BY <1>4, <1>6, FollowSent
<1>8. PICK q \in Nat : q = n + 1 /\ Pending(gs, q)' = last_node'
  BY <1>1, <1>2
<1>9. /\ n \in Nat /\ n = Len(fs) /\ q = Len(gs) /\ q - 1 = n /\ n + 1 .. q = {q} /\ gs[q] = Top /\ q > 0
      /\ \A j \in 1 .. n : gs[j] = fs[j]
  BY <1>1, <1>2, <1>8 DEF n
<1>10. /\ Top.kind = "mask" => w = v
       /\ Top.kind = "branch" => w = Top.waves /\ v \subseteq w
       /\ Top.kind \in {"mask", "branch"}
  <2>1. Entering(fs)
    BY <1>2, <1>9, EmptySeq DEF Entering
  <2>2. Top.kind \in {"mask", "branch"}
    BY <1>1, <2>1, TopFacts, FrameType DEF Entering
  <2> QED
    BY <2>1, <2>2, BelievedWaves DEF Chooses
<1>11. \A k \in 0 .. n : Inside(gs, v, k) = Inside(fs, w, k)
  <2>1. \A l \in Lanes : Beyond(fs, w, n, l) <=> l \in w
    BY <1>9, InsideTop
  <2>2. \A l \in Lanes : Beyond(gs, v, n, l) <=> l \in v \/ (gs[q].kind = "branch" /\ l \in gs[q].waves)
    <3>1. \A l : Beyond(gs, v, q - 1, l) <=> l \in v \/ (gs[q].kind = "branch" /\ l \in gs[q].waves)
      BY <1>9, InsideTop
    <3> QED
      BY <1>9, <3>1
  <2>3. \A l \in Lanes : Beyond(fs, w, n, l) <=> Beyond(gs, v, n, l)
    BY <1>9, <1>10, <2>1, <2>2
  <2> QED
    BY <1>9, <2>3, InsideSame
<1>12. \A k \in 1 .. n : Outer(gs, v, k) = Outer(fs, w, k)
  <2>1. \A k \in 1 .. n : k \in 0 .. n /\ k - 1 \in 0 .. n
    BY <1>9
  <2> QED
    BY <1>11, <2>1 DEF Outer
<1>13. /\ Inside(fs, w, n) = {l \in Lanes : l \in w /\ Satisfies(l, Cond(fs, n))}
       /\ Inside(gs, v, q) = {l \in Lanes : l \in v /\ Satisfies(l, Cond(gs, q))}
  BY <1>9, InsideTop
<1>14. Cond(gs, n) = Cond(fs, n)
  BY <1>9, CondSame
<1>15. ToFirst(next, last_node)' = Inside(gs, v, q)
  <2>1. CASE Top.kind = "mask"
    <3>1. instruction'[last_node'] = "change_mask" /\ parent'[last_node'] = <<last_node>> /\ mask'[last_node] = mask[last_node]
      BY <2>1, <1>3 DEF Chooses, Added
    <3>2. mask'[last_node'] = Cond(gs, q)
      BY <1>9 DEF Lags, Settled, Here, Within
    <3>3. mask[last_node] = Cond(fs, n)
      BY DEF Knows, Lags, Settled, Here, Within, n
    <3>4. Condition_of(last_node)' = Cond(gs, q) \ Cond(fs, n)
      BY <3>1, <3>2, <3>3 DEF Condition_of
    <3>5. Cond(fs, n) \subseteq Cond(gs, q)
      BY <1>9, <1>14, <2>1, CondStep
    <3>6. \A l : Satisfies(l, Cond(gs, q)) <=> Satisfies(l, Cond(fs, n)) /\ Satisfies(l, Condition_of(last_node)')
      BY <3>4, <3>5 DEF Satisfies
    <3> QED
      BY <1>7, <1>10, <1>13, <2>1, <3>6 DEF ToFirst
  <2>2. CASE Top.kind = "branch"
    <3>1. \A l \in w : Satisfies(l, Condition_of(last_node)') <=> l \in waves
      BY <2>2 DEF Chooses
    <3>2. Cond(gs, q) = Cond(fs, n)
      BY <1>9, <1>14, <2>2, CondStep
    <3> QED
      BY <1>7, <1>10, <1>13, <2>2, <3>1, <3>2 DEF ToFirst
  <2> QED
    BY <1>10, <2>1, <2>2
<1>16. ToSecond(next, last_node)' = Outer(gs, v, q)
  <2>1. Inside(gs, v, q - 1) = Inside(fs, w, n)
    BY <1>9, <1>11
  <2> QED
    BY <1>7, <1>15, <2>1 DEF ToSecond, Outer
<1>17. Leaving(gs, v, next, q)'
  BY <1>8, <1>16 DEF Leaving
<1>18. (last_node \in Pendings(gs))'
  BY <1>8, <1>9 DEF Pendings
<1>19. Len(gs) \in Nat /\ n <= Len(gs) /\ \A k \in n + 1 .. Len(gs) : k = q
  BY <1>8, <1>9
<1>20. Flow(gs, v, next)'
  <2>1. ToFirst(next, last_node)' = Inside(gs, v, Len(gs))
    BY <1>9, <1>15
  <2>2. \A k \in n + 1 .. Len(gs) : Leaving(gs, v, next, k)'
    BY <1>17, <1>19
  <2>3. Still(fs, gs, n)
    BY <1>2
  <2> QED
    BY <1>1, <1>3, <1>6, <1>9, <1>12, <1>18, <1>19, <2>1, <2>2, <2>3, FollowFlow
<1> QED
  BY <1>5, <1>20

\* The waves that turn to the else of conditional f, or leave it, after those that came to w.
ElseWaves(f, w, v) ==
  /\ f.kind = "mask" => v = w
  /\ f.kind = "branch" => w \subseteq f.waves /\ v = f.waves \ w
EndWaves(f, w, v) ==
  /\ f.kind = "mask" => v = w
  /\ f.kind = "branch" => w \subseteq f.waves /\ v = f.waves

\* The else of a conditional has the lanes that its then-branch kept out.
LEMMA TurnsInside ==
  ASSUME NEW fs, NEW m \in 0 .. MaxIfs, Nested(fs, m), fs # <<>>, fs[Len(fs)].branch = "then", NEW w, NEW v,
         ElseWaves(fs[Len(fs)], w, v)
  PROVE  LET n == Len(fs)
             gs == WithElse(fs)
         IN  /\ \A k \in 0 .. n - 1 : Inside(gs, v, k) = Inside(fs, w, k)
             /\ Inside(gs, v, n) = Outer(fs, w, n)
             /\ Len(gs) = n /\ gs[n].branch = "else" /\ gs # fs /\ \A k \in 1 .. n - 1 : gs[k] = fs[k]
<1>0. PICK n, gs :
        /\ n \in Nat /\ n > 0 /\ n = Len(fs) /\ gs = WithElse(fs) /\ fs[n].branch = "then"
        /\ fs[n].kind = "mask" => v = w
        /\ fs[n].kind = "branch" => w \subseteq fs[n].waves /\ v = fs[n].waves \ w
  <2>1. Len(fs) \in Nat /\ Len(fs) > 0
    BY EmptySeq DEF Nested
  <2> QED
    BY <2>1 DEF ElseWaves
<1> DEFINE f == fs[n]
<1>1. fs \in Seq(Frame) /\ f \in Frame /\ n \in 1 .. n /\ fs # <<>> /\ n - 1 \in Nat
  BY <1>0 DEF Nested
<1>2. /\ Len(gs) = n /\ gs[n] = Elsed(f) /\ (\A k \in 1 .. n - 1 : gs[k] = fs[k])
      /\ Elsed(f) \in Frame /\ (f.kind = "branch" => f.label + 1 \in Labels)
  BY <1>0, <1>1, NestedElse
<1>3. /\ gs[n].branch = "else" /\ gs[n].kind = f.kind /\ gs[n].cmp = f.cmp
      /\ f.kind = "branch" => gs[n].waves = f.waves
  BY <1>0, <1>1, <1>2, ElsedType
<1>4. f.kind \in {"mask", "branch"} /\ f.cmp \in Comparisons
  BY <1>1, FrameType
<1> HIDE DEF f
<1>5. \A l : /\ Beyond(fs, w, n, l) <=> l \in w
             /\ Beyond(gs, v, n, l) <=> l \in v
             /\ Beyond(fs, w, n - 1, l) <=> l \in w \/ (f.kind = "branch" /\ l \in f.waves)
             /\ Beyond(gs, v, n - 1, l) <=> l \in v \/ (f.kind = "branch" /\ l \in f.waves)
  <2>1. \A l : /\ Beyond(fs, w, n, l) <=> l \in w
               /\ Beyond(fs, w, n - 1, l) <=> l \in w \/ (fs[n].kind = "branch" /\ l \in fs[n].waves)
    BY <1>0, InsideTop
  <2>2. \A l : /\ Beyond(gs, v, n, l) <=> l \in v
               /\ Beyond(gs, v, n - 1, l) <=> l \in v \/ (gs[n].kind = "branch" /\ l \in gs[n].waves)
    BY <1>0, <1>2, InsideTop
  <2> QED
    BY <1>3, <2>1, <2>2 DEF f
<1>6. \A l : Beyond(fs, w, n - 1, l) <=> Beyond(gs, v, n - 1, l)
  BY <1>0, <1>4, <1>5 DEF f
<1>7. \A k \in 0 .. n - 1 : Inside(gs, v, k) = Inside(fs, w, k)
  <2>1. PICK q \in Nat : q = n - 1
    BY <1>1
  <2>2. q <= Len(fs) /\ q <= Len(gs) /\ Len(fs) \in Nat /\ Len(gs) \in Nat
    BY <1>0, <1>2, <2>1
  <2>3. \A l \in Lanes : Beyond(fs, w, q, l) <=> Beyond(gs, v, q, l)
    BY <1>6, <2>1
  <2>4. \A j \in 1 .. q : gs[j] = fs[j]
    BY <1>2, <2>1
  <2>5. \A k \in 0 .. q : Inside(gs, v, k) = Inside(fs, w, k)
    BY <2>2, <2>3, <2>4, InsideSame
  <2> QED
    BY <2>1, <2>5
<1>8. Cond(gs, n - 1) = Cond(fs, n - 1)
  BY <1>2, CondSame
<1>9. Inside(gs, v, n) = Outer(fs, w, n)
  <2>1. /\ Inside(gs, v, n) = {l \in Lanes : l \in v /\ Satisfies(l, Cond(gs, n))}
        /\ Inside(fs, w, n) = {l \in Lanes : l \in w /\ Satisfies(l, Cond(fs, n))}
        /\ Inside(fs, w, n - 1) = {l \in Lanes : Beyond(fs, w, n - 1, l) /\ Satisfies(l, Cond(fs, n - 1))}
    BY <1>0, <1>2, InsideTop DEF Inside
  <2>2. CASE f.kind = "branch"
    <3>1. Cond(gs, n) = Cond(fs, n - 1) /\ Cond(fs, n) = Cond(fs, n - 1)
      BY <1>3, <1>8, <2>2, CondStep, <1>0 DEF f
    <3> QED
      BY <1>0, <1>5, <2>1, <2>2, <3>1 DEF Outer, f
  <2>3. CASE f.kind = "mask"
    <3>1. Cond(gs, n) = Cond(fs, n - 1) \cup {Literal(gs[n])} /\ Cond(fs, n) = Cond(fs, n - 1) \cup {Literal(fs[n])}
      BY <1>3, <1>8, <2>3, CondStep, <1>0 DEF f
    <3>2. \A l \in Lanes : Holds(l, Literal(gs[n])) <=> ~Holds(l, Literal(fs[n]))
      <4>1. \A l \in Lanes : Holds(l, Literal(gs[n])) <=> l \notin True(f.cmp)
        BY <1>2, <1>3, LiteralHolds
      <4>2. \A l \in Lanes : Holds(l, Literal(fs[n])) <=> l \in True(f.cmp)
        BY <1>0, <1>1, LiteralHolds DEF f
      <4> QED
        BY <4>1, <4>2
    <3>3. \A l \in Lanes : /\ Satisfies(l, Cond(gs, n)) <=> Satisfies(l, Cond(fs, n - 1)) /\ ~Holds(l, Literal(fs[n]))
                           /\ Satisfies(l, Cond(fs, n)) <=> Satisfies(l, Cond(fs, n - 1)) /\ Holds(l, Literal(fs[n]))
      BY <3>1, <3>2, SatisfiesMore
    <3> QED
      BY <1>0, <1>4, <1>5, <2>1, <2>3, <3>3 DEF Outer, f
  <2> QED
    BY <1>4, <2>2, <2>3
<1>10. gs # fs
  <2>1. "then" # "else"
    OBVIOUS
  <2> QED
    BY <1>0, <1>3, <2>1
<1> QED
  BY <1>0, <1>2, <1>3, <1>7, <1>9, <1>10

\* Once it is left, all of them are back.
LEMMA LeavesInside ==
  ASSUME NEW fs \in Seq(Frame), fs # <<>>, NEW w, NEW v, EndWaves(fs[Len(fs)], w, v)
  PROVE  LET n == Len(fs)
             gs == Front(fs)
         IN  /\ \A k \in 0 .. n - 1 : Inside(gs, v, k) = Inside(fs, w, k)
             /\ Len(gs) = n - 1 /\ gs # fs /\ \A k \in 1 .. n - 1 : gs[k] = fs[k]
<1>0. PICK n, gs :
        /\ n \in Nat /\ n > 0 /\ n = Len(fs) /\ gs = Front(fs)
        /\ fs[n].kind = "mask" => v = w
        /\ fs[n].kind = "branch" => w \subseteq fs[n].waves /\ v = fs[n].waves
  <2>1. Len(fs) \in Nat /\ Len(fs) > 0
    BY EmptySeq
  <2> QED
    BY <2>1 DEF EndWaves
<1>1. fs # <<>> /\ n - 1 \in Nat /\ fs[n].kind \in {"mask", "branch"}
  BY <1>0, FrameType
<1>2. Len(gs) = n - 1 /\ \A k \in 1 .. n - 1 : gs[k] = fs[k]
  BY <1>0, <1>1, FrontProperties
<1>3. \A l : Beyond(fs, w, n - 1, l) <=> l \in w \/ (fs[n].kind = "branch" /\ l \in fs[n].waves)
  BY <1>0, InsideTop
<1>4. \A l : Beyond(gs, v, n - 1, l) <=> l \in v
  BY <1>1, <1>2, InsideTop
<1>5. \A l : Beyond(fs, w, n - 1, l) <=> Beyond(gs, v, n - 1, l)
  BY <1>0, <1>1, <1>3, <1>4
<1>6. n - 1 <= Len(fs) /\ n - 1 <= Len(gs) /\ Len(fs) \in Nat /\ Len(gs) \in Nat /\ Len(gs) # Len(fs)
  BY <1>0, <1>1, <1>2
<1>7. \A k \in 0 .. n - 1 : Inside(gs, v, k) = Inside(fs, w, k)
  BY <1>1, <1>2, <1>5, <1>6, <1>0, InsideSame
<1> QED
  BY <1>0, <1>2, <1>6, <1>7

\* The conditionals around the innermost one are not touched by its else or its end.
LEMMA AroundLeaves ==
  ASSUME NEW fs, Waiting(fs), fs # <<>>, Len(fs) > 0, NEW w, NEW reach, Flow(fs, w, reach),
         Pending(fs, Len(fs)) # last_node, NEW gs, NEW v, Still(fs, gs, Len(fs) - 1),
         \A k \in 0 .. Len(fs) - 1 : Inside(gs, v, k) = Inside(fs, w, k),
         NEW ps, Range(ps) \subseteq {last_node, Pending(fs, Len(fs))}, NEW op, Added(op, ps),
         NEW next, Carried(reach, next, ps)
  PROVE  /\ last_node \notin Pendings(fs)
         /\ \A k \in 1 .. Len(fs) - 1 : Leaving(gs, v, next, k)'
         /\ Len(gs) \in Nat /\ Len(fs) - 1 <= Len(gs) =>
              \A m \in Nodes : \/ m \in {last_node, Pending(fs, Len(fs))}
                              \/ m \in Pendings(gs)' \/ Complete(next, m)'
<1>0. PICK n, p :
        /\ n \in Nat /\ n > 0 /\ n = Len(fs) /\ p = Pending(fs, n) /\ p # last_node /\ Still(fs, gs, n - 1)
        /\ \A k \in 0 .. n - 1 : Inside(gs, v, k) = Inside(fs, w, k)
        /\ Range(ps) \subseteq {last_node, p}
  BY DEF Waiting
<1>1. /\ last_node \in Nat /\ Nodes = 1 .. last_node /\ last_node' \notin Nodes
  BY DEF Added
<1>2. \A k \in 1 .. n : WaitsAt(fs, k) /\ Leaving(fs, w, reach, k)
  BY <1>0 DEF Waiting, Flow
<1>3. n \in 1 .. n /\ p \in Nodes /\ \A k \in 1 .. n - 1 : k \in 1 .. n /\ Pending(fs, k) < p
  <2>1. n \in 1 .. n
    BY <1>0
  <2> QED
    BY <1>0, <1>2, <2>1 DEF WaitsAt
<1>4. \A k \in 1 .. n : Pending(fs, k) # last_node
  <2> TAKE k \in 1 .. n
  <2>1. Pending(fs, k) = last_node => k = n
    BY <1>0, <1>2 DEF WaitsAt
  <2> QED
    BY <1>0, <2>1
<1>5. ASSUME NEW k \in 1 .. n - 1 PROVE Leaving(gs, v, next, k)'
  <2>1. gs[k] = fs[k] /\ Pending(fs, k) \in Nodes /\ Pending(gs, k)' = Pending(fs, k)
    BY <1>0, <1>5 DEF Still
  <2>2. Pending(fs, k) # last_node /\ Pending(fs, k) # p /\ Leaving(fs, w, reach, k)
    <3>1. Pending(fs, k) \in Nat /\ p \in Nat
      BY <1>1, <1>3, <2>1
    <3> QED
      BY <1>2, <1>3, <1>4, <1>5, <3>1
  <2>3. Outer(gs, v, k) = Outer(fs, w, k)
    <3>1. k \in 0 .. n - 1 /\ k - 1 \in 0 .. n - 1
      BY <1>0
    <3> QED
      BY <1>0, <3>1 DEF Outer
  <2> QED
    BY <1>0, <1>1, <2>1, <2>2, <2>3, LeavingStays
<1>6. ASSUME Len(gs) \in Nat, n - 1 <= Len(gs), NEW m \in Nodes, m # last_node, m # p
      PROVE  m \in Pendings(gs)' \/ Complete(next, m)'
  <2>1. CASE m \in Pendings(fs)
    <3>1. PICK k \in 1 .. n : m = Pending(fs, k)
      BY <1>0, <2>1 DEF Pendings
    <3>2. k \in 1 .. n - 1
      BY <1>0, <1>6, <3>1
    <3>3. m = Pending(gs, k)' /\ k \in 1 .. Len(gs)
      BY <1>0, <1>6, <3>1, <3>2 DEF Still
    <3> QED
      BY <3>3 DEF Pendings
  <2>2. CASE m \notin Pendings(fs)
    <3>1. Complete(reach, m)
      BY <1>0, <1>6, <2>2 DEF Flow
    <3>2. m \notin Range(ps)
      BY <1>0, <1>6
    <3> QED
      BY <3>1, <3>2 DEF Carried
  <2> QED
    BY <2>1, <2>2
<1> QED
  BY <1>0, <1>4, <1>5, <1>6 DEF Pendings

LEMMA TurnsFlow ==
  ASSUME NEW fs, NEW w, Knows(fs, w), Step, EdgesAgree, ActiveInv, NEW reach, Flow(fs, w, reach),
         NEW gs, gs = frames, Lags(gs)', TurnsAt(fs, gs), NEW v, v = waves
  PROVE  ActiveInv' /\ \E next : Flow(gs, v, next)'
<1>0. PICK n, p : n = Len(fs) /\ p = Pending(fs, n)
  OBVIOUS
<1>1. /\ TypeOK /\ Rooted /\ FramesInv /\ HwInv /\ n \in Nat /\ Waiting(fs) /\ fs \in Seq(Frame)
      /\ Nested(fs, ifs) /\ ifs \in 0 .. MaxIfs
  BY <1>0, KnowsFacts
<1>2. /\ fs # <<>> /\ fs[n].branch = "then" /\ gs = WithElse(fs) /\ Still(fs, gs, n - 1)
      /\ p \in Nodes /\ p # last_node /\ Pending(gs, n)' = last_node
  BY <1>0 DEF TurnsAt
<1>3. PICK op \in {"change_mask", "label"} : Added(op, <<p>>)
  BY <1>0 DEF TurnsAt
<1>4. /\ Graphed(reach) /\ children[last_node] = <<>> /\ ToFirst(reach, last_node) = Inside(fs, w, n)
  BY <1>0 DEF Flow
<1>5. n > 0 /\ n = Len(fs)
  BY <1>0, <1>1, <1>2, EmptySeq
<1>6. Leaving(fs, w, reach, n) /\ n \in 1 .. n
  BY <1>1, <1>5 DEF Flow
<1>7. /\ fs[n].kind = "mask" => v = w
      /\ fs[n].kind = "branch" => w \subseteq fs[n].waves /\ v = fs[n].waves \ w
  <2>1. Behind(fs)
    BY <1>2 DEF Behind
  <2>2. Len(Front(fs)) = n - 1 /\ Len(WithElse(fs)) = n /\ n - 1 # n
    BY <1>1, <1>2, <1>5, ElseLen, FrontProperties
  <2>3. frames # fs
    <3>1. n \in 1 .. n /\ fs[n] \in Frame
      BY <1>1, <1>5
    <3>2. WithElse(fs)[n] = Elsed(fs[n]) /\ (fs[n].kind = "branch" => fs[n].label + 1 \in Labels)
      BY <1>1, <1>2, <1>5, NestedElse
    <3>3. Elsed(fs[n]).branch = "else"
      BY <1>2, <3>1, <3>2, ElsedType
    <3>4. "then" # "else"
      OBVIOUS
    <3> QED
      BY <1>2, <3>2, <3>3, <3>4
  <2>4. frames # Front(fs)
    BY <1>2, <2>2
  <2> QED
    BY <1>5, <2>1, <2>3, <2>4, BelievedWaves
<1>8. /\ \A k \in 0 .. n - 1 : Inside(gs, v, k) = Inside(fs, w, k)
      /\ Inside(gs, v, n) = Outer(fs, w, n)
      /\ Len(gs) = n /\ gs[n].branch = "else" /\ \A k \in 1 .. n - 1 : gs[k] = fs[k]
  <2>1. PICK m \in 0 .. MaxIfs : Nested(fs, m)
    BY <1>1
  <2>2. fs # <<>> /\ fs[Len(fs)].branch = "then" /\ ElseWaves(fs[Len(fs)], w, v)
    BY <1>0, <1>2, <1>7 DEF ElseWaves
  <2>3. /\ \A k \in 0 .. Len(fs) - 1 : Inside(WithElse(fs), v, k) = Inside(fs, w, k)
        /\ Inside(WithElse(fs), v, Len(fs)) = Outer(fs, w, Len(fs))
        /\ Len(WithElse(fs)) = Len(fs) /\ WithElse(fs)[Len(fs)].branch = "else"
        /\ WithElse(fs) # fs /\ \A k \in 1 .. Len(fs) - 1 : WithElse(fs)[k] = fs[k]
    BY <2>1, <2>2, TurnsInside, ZenonT(40)
  <2> QED
    BY <1>0, <1>2, <2>3
<1>9. Range(<<p>>) = {p}
  BY DEF Range
<1>10. PICK ps : ps = <<p>>
  OBVIOUS
<1>11. Added(op, ps) /\ Range(ps) = {p}
  BY <1>3, <1>9, <1>10
<1>12. ActiveInv' /\
      \E next :
        /\ Spreads(reach, next, ps) /\ Carried(reach, next, ps)
        /\ (op \in BodyOps => next[last_node'] = hw["exec"] \cap waves) => Graphed(next)'
  BY <1>1, <1>4, <1>11, FlowGrows
<1>13. PICK next :
        /\ Spreads(reach, next, ps) /\ Carried(reach, next, ps) /\ Graphed(next)'
  BY <1>12 DEF BodyOps
<1>14. Sent(reach, p) = Outer(fs, w, n) /\ Len(children[p]) = 1
  BY <1>0, <1>2, <1>6 DEF Leaving
<1>15. next[last_node'] = Inside(gs, v, n)
  <2>1. next[last_node'] = UNION {Sent(reach, x) : x \in {p}}
    BY <1>11, <1>13 DEF Spreads
  <2> QED
    BY <1>8, <1>14, <2>1
<1>16. ToFirst(next, last_node)' = Inside(gs, v, n) /\ ToSecond(next, last_node)' = {}
  <2>1. instruction'[last_node'] \notin {"s_br", "s_nbr"}
    BY <1>3 DEF Added
  <2>2. \A l \in Inside(gs, v, n) : Satisfies(l, Condition_of(last_node)')
    BY <1>1, <1>8, <2>1, AllGo
  <2>3. ToFirst(next, last_node)' = Inside(gs, v, n)
    BY <1>15, <2>2 DEF ToFirst
  <2> QED
    BY <1>15, <2>3 DEF ToSecond
<1>18. /\ last_node \notin Pendings(fs)
       /\ \A k \in 1 .. n - 1 : Leaving(gs, v, next, k)'
       /\ \A m \in Nodes : m \in {last_node, p} \/ m \in Pendings(gs)' \/ Complete(next, m)'
  <2>1. /\ p = Pending(fs, n) /\ p # last_node /\ Range(ps) \subseteq {last_node, p} /\ Still(fs, gs, n - 1)
        /\ Len(gs) \in Nat /\ n - 1 <= Len(gs)
    BY <1>0, <1>1, <1>2, <1>8, <1>11
  <2>2. Waiting(fs) /\ n \in Nat /\ n > 0 /\ n = Len(fs) /\ fs # <<>>
    BY <1>0, <1>1, <1>2, <1>5
  <2>3. \A k \in 0 .. n - 1 : Inside(gs, v, k) = Inside(fs, w, k)
    BY <1>8
  <2>4. Added(op, ps) /\ Carried(reach, next, ps)
    BY <1>11, <1>13
  <2> QED
    BY <2>1, <2>2, <2>3, <2>4, AroundLeaves
<1>19. last_node \notin Range(ps) /\ last_node # last_node' /\ last_node \in Nodes /\ children'[last_node'] = <<>>
       /\ Nodes' = Nodes \cup {last_node'}
  BY <1>2, <1>11 DEF Added
<1>20. Complete(next, p)'
  <2>1. p \in Range(ps)
    BY <1>11
  <2> QED
    BY <1>13, <1>14, <2>1 DEF Carried
<1>21. Leaving(gs, v, next, n)'
  <2>2. PICK q \in Nodes : q = last_node
    BY <1>19
  <2>3. children'[q] = <<>> /\ Sent(next, q)' = Sent(reach, q) /\ ToSecond(next, q)' = ToSecond(reach, q)
    BY <1>4, <1>13, <1>19, <2>2 DEF Carried
  <2>4. Sent(reach, q) = Inside(fs, w, n) /\ ToSecond(reach, q) = {}
    BY <1>4, <1>18, <2>2 DEF Sent, Flow
  <2>5. Outer(gs, v, n) = Inside(fs, w, n)
    <3>1. Inside(fs, w, n) \subseteq Inside(fs, w, n - 1)
      BY <1>1, <1>5, <1>6, InsideShrinks
    <3>2. Inside(gs, v, n - 1) = Inside(fs, w, n - 1)
      BY <1>1, <1>5, <1>8
    <3> QED
      BY <1>8, <3>1, <3>2 DEF Outer
  <2>6. Pending(gs, n)' = q /\ q # last_node'
    BY <1>2, <1>19, <2>2
  <2>7. gs[n].branch # "then"
    BY <1>8
  <2> QED
    BY <2>3, <2>4, <2>5, <2>6, <2>7 DEF Leaving
<1>22. last_node \in Pendings(gs)'
  BY <1>2, <1>6, <1>8 DEF Pendings
<1>23. \A k \in 1 .. Len(gs) : Leaving(gs, v, next, k)'
  <2>1. \A k \in 1 .. Len(gs) : k \in 1 .. n - 1 \/ k = n
    BY <1>1, <1>8
  <2> QED
    BY <1>18, <1>21, <2>1
<1>24. \A m \in Nodes' : m = last_node' \/ m \in Pendings(gs)' \/ Complete(next, m)'
  BY <1>18, <1>19, <1>20, <1>22
<1>25. Flow(gs, v, next)'
  BY <1>8, <1>13, <1>16, <1>19, <1>23, <1>24 DEF Flow
<1> QED
  BY <1>12, <1>25

LEMMA LeavesFlow ==
  ASSUME NEW fs, NEW w, Knows(fs, w), Step, EdgesAgree, ActiveInv, NEW reach, Flow(fs, w, reach),
         NEW gs, gs = frames, Lags(gs)', LeavesAt(fs, gs), NEW v, v = waves
  PROVE  ActiveInv' /\ \E next : Flow(gs, v, next)'
<1>0. PICK n, p : n = Len(fs) /\ p = Pending(fs, n)
  OBVIOUS
<1>1. /\ TypeOK /\ Rooted /\ FramesInv /\ HwInv /\ n \in Nat /\ Waiting(fs) /\ fs \in Seq(Frame)
  BY <1>0, KnowsFacts
<1>2. fs # <<>> /\ gs = Front(fs) /\ Still(fs, gs, n - 1) /\ p \in Nodes /\ p # last_node
  BY <1>0 DEF LeavesAt
<1>3. PICK op \in {"change_mask", "label"} : Added(op, <<last_node, p>>)
  BY <1>0 DEF LeavesAt
<1>4. Graphed(reach) /\ children[last_node] = <<>> /\ ToFirst(reach, last_node) = Inside(fs, w, n)
  BY <1>0 DEF Flow
<1>5. n > 0 /\ n = Len(fs) /\ n \in 1 .. n
  BY <1>0, <1>1, <1>2, EmptySeq
<1>6. Leaving(fs, w, reach, n)
  BY <1>1, <1>5 DEF Flow
<1>7. /\ \A k \in 0 .. n - 1 : Inside(gs, v, k) = Inside(fs, w, k)
      /\ Len(gs) = n - 1 /\ \A k \in 1 .. n - 1 : gs[k] = fs[k]
  <2>1. Behind(fs)
    BY <1>2 DEF Behind
  <2>2. Len(Front(fs)) = n - 1
    BY <1>1, <1>2, <1>5, FrontProperties
  <2>3. frames # fs
    BY <1>1, <1>2, <1>5, <2>2
  <2>4. EndWaves(fs[Len(fs)], w, v)
    BY <1>2, <2>1, <2>3, BelievedWaves DEF EndWaves
  <2>5. /\ \A k \in 0 .. Len(fs) - 1 : Inside(Front(fs), v, k) = Inside(fs, w, k)
        /\ Len(Front(fs)) = Len(fs) - 1 /\ \A k \in 1 .. Len(fs) - 1 : Front(fs)[k] = fs[k]
    BY <1>1, <1>2, <2>4, LeavesInside
  <2> QED
    BY <1>0, <1>2, <2>5
<1>8. PICK ps : ps = <<last_node, p>>
  OBVIOUS
<1>9. Added(op, ps) /\ Range(ps) = {last_node, p}
  BY <1>3, <1>8 DEF Range
<1>10. ActiveInv' /\
      \E next :
        /\ Spreads(reach, next, ps) /\ Carried(reach, next, ps)
        /\ (op \in BodyOps => next[last_node'] = hw["exec"] \cap waves) => Graphed(next)'
  BY <1>1, <1>4, <1>9, FlowGrows
<1>11. PICK next :
        /\ Spreads(reach, next, ps) /\ Carried(reach, next, ps) /\ Graphed(next)'
  BY <1>10 DEF BodyOps
<1>12. /\ last_node \notin Pendings(fs)
       /\ \A k \in 1 .. n - 1 : Leaving(gs, v, next, k)'
       /\ \A m \in Nodes : m \in {last_node, p} \/ m \in Pendings(gs)' \/ Complete(next, m)'
  <2>1. /\ p = Pending(fs, n) /\ p # last_node /\ Range(ps) \subseteq {last_node, p} /\ Still(fs, gs, n - 1)
        /\ Len(gs) \in Nat /\ n - 1 <= Len(gs)
    BY <1>0, <1>1, <1>2, <1>5, <1>7, <1>9
  <2>2. Waiting(fs) /\ n \in Nat /\ n > 0 /\ n = Len(fs) /\ fs # <<>>
    BY <1>0, <1>1, <1>2, <1>5
  <2>3. \A k \in 0 .. n - 1 : Inside(gs, v, k) = Inside(fs, w, k)
    BY <1>7
  <2>4. Added(op, ps) /\ Carried(reach, next, ps)
    BY <1>9, <1>11
  <2> QED
    BY <2>1, <2>2, <2>3, <2>4, AroundLeaves
<1>13. last_node \in Nodes /\ children'[last_node'] = <<>> /\ Nodes' = Nodes \cup {last_node'}
  BY <1>9 DEF Added
<1>14. ToSecond(reach, last_node) = {}
  BY <1>12 DEF Flow
<1>15. \A m \in {last_node, p} : Complete(next, m)'
  <2>1. PICK q : q = last_node
    OBVIOUS
  <2>2. Complete(next, q)'
    BY <1>4, <1>9, <1>11, <1>14, <2>1 DEF Carried
  <2>3. Complete(next, p)'
    <3>1. p \in Range(ps) /\ \/ Len(children[p]) = 1
                             \/ children[p] = <<>> /\ ToSecond(reach, p) = {}
      BY <1>0, <1>2, <1>6, <1>9 DEF Leaving
    <3> QED
      BY <1>11, <3>1 DEF Carried
  <2> QED
    BY <2>1, <2>2, <2>3
<1>16. next[last_node'] = Inside(fs, w, n - 1)
  <2>1. next[last_node'] = UNION {Sent(reach, x) : x \in {last_node, p}}
    BY <1>9, <1>11 DEF Spreads
  <2>2. Sent(reach, last_node) = Inside(fs, w, n)
    BY <1>4 DEF Sent
  <2>3. Sent(reach, p) = Outer(fs, w, n)
    BY <1>0, <1>2, <1>6 DEF Leaving
  <2>4. Inside(fs, w, n) \subseteq Inside(fs, w, n - 1)
    BY <1>1, <1>5, InsideShrinks
  <2> QED
    BY <2>1, <2>2, <2>3, <2>4 DEF Outer
<1>17. Inside(gs, v, Len(gs)) = Inside(fs, w, n - 1) /\ Len(gs) \in Nat
  BY <1>1, <1>5, <1>7
<1>18. ToFirst(next, last_node)' = Inside(gs, v, Len(gs)) /\ ToSecond(next, last_node)' = {}
  <2>1. instruction'[last_node'] \notin {"s_br", "s_nbr"}
    BY <1>3 DEF Added
  <2>2. \A l \in Inside(gs, v, Len(gs)) : Satisfies(l, Condition_of(last_node)')
    BY <1>17, <2>1, AllGo
  <2>3. ToFirst(next, last_node)' = Inside(gs, v, Len(gs))
    BY <1>16, <1>17, <2>2 DEF ToFirst
  <2> QED
    BY <1>16, <1>17, <2>3 DEF ToSecond
<1>19. \A k \in 1 .. Len(gs) : Leaving(gs, v, next, k)'
  BY <1>7, <1>12
<1>20. \A m \in Nodes' : m = last_node' \/ m \in Pendings(gs)' \/ Complete(next, m)'
  BY <1>12, <1>13, <1>15
<1>21. Flow(gs, v, next)'
  BY <1>11, <1>13, <1>18, <1>19, <1>20 DEF Flow
<1> QED
  BY <1>10, <1>21

\* The lanes go on as the conditionals do.
LEMMA FlowContinues ==
  ASSUME NEW fs, NEW w, Knows(fs, w), Step, EdgesAgree, ActiveInv, NEW reach, Flow(fs, w, reach),
         NEW gs, NEW v, Lags(gs)', Moves(fs, gs, w, v)
  PROVE  ActiveInv' /\ \E next : Flow(gs, v, next)'
<1>1. CASE gs = fs /\ v = w /\ Goes(fs)
  BY <1>1, GoesFlow
<1>2. CASE gs = frames /\ v = waves /\ Enters(fs, gs) /\ Chooses(w)
  BY <1>2, EntersFlow
<1>3. CASE gs = frames /\ v = waves /\ TurnsAt(fs, gs)
  BY <1>3, TurnsFlow
<1>4. CASE gs = frames /\ v = waves /\ LeavesAt(fs, gs)
  BY <1>4, LeavesFlow
<1> QED
  BY <1>1, <1>2, <1>3, <1>4 DEF Moves

------------------------------------------------------------------------------
(***************************************************************************)
(* Every version that is given out is larger than those before.            *)
(***************************************************************************)
LEMMA VersionsType ==
  ASSUME TypeOK, NEW r \in ScalarSet
  PROVE  /\ r \in Regs /\ versions[r] \in Nat /\ \A n \in Nodes : Ver(n, r) \in Nat
         /\ \A n \in Nodes : Present(state[n], r) <=> Ver(n, r) > 0
<1>1. r \in Regs
  BY DEF Regs
<1>2. state \in [Nodes -> [Regs -> RegState]] /\ versions \in [Regs -> Nat]
  BY DEF TypeOK
<1>3. \A n \in Nodes : state[n][r] \in RegState
  BY <1>1, <1>2
<1>4. \A n \in Nodes : Ver(n, r) \in Nat
  BY <1>3 DEF RegState, Ver
<1> QED
  BY <1>1, <1>2, <1>4 DEF Present, Ver

\* The largest version of a merge is that of the counter, if it arrives at all.
LEMMA MaxNewest ==
  ASSUME TypeOK, NEW r \in ScalarSet, \A n \in Nodes : Ver(n, r) <= versions[r],
         NEW ps \in Seq(Nodes), NEW p \in Range(ps), Ver(p, r) = versions[r], prev_versions(r, ps) # {}
  PROVE  max_version(r, ps) = versions[r]
<1>1. r \in Regs /\ versions[r] \in Nat /\ \A n \in Nodes : Ver(n, r) \in Nat
  BY VersionsType
<1>2. Range(ps) \subseteq Nodes
  BY DEF Range
<1>3. /\ max_version(r, ps) \in prev_versions(r, ps) /\ max_version(r, ps) \in Nat
      /\ \A v \in prev_versions(r, ps) : v <= max_version(r, ps)
  BY <1>1, MaxVersion
<1>4. PICK q \in Range(ps) : max_version(r, ps) = Ver(q, r) /\ Ver(q, r) > 0
  BY <1>3 DEF prev_versions, Present, Ver
<1>5. max_version(r, ps) <= versions[r] /\ versions[r] > 0
  <2>1. q \in Nodes
    BY <1>2
  <2>2. Ver(q, r) <= versions[r] /\ Ver(q, r) \in Nat
    BY <1>1, <2>1
  <2> QED
    BY <1>1, <1>4, <2>2
<1>6. versions[r] \in prev_versions(r, ps)
  BY <1>5 DEF prev_versions, Present, Ver
<1> QED
  BY <1>1, <1>3, <1>5, <1>6

\* The new node has the version of a parent, or one that no other has.
Numbers(r, ps) ==
  \/ versions'[r] = versions[r] /\ \E p \in Range(ps) : Ver(last_node, r)' = Ver(p, r)
  \/ versions'[r] = versions[r] + 1 /\ Ver(last_node, r)' = versions[r] + 1

LEMMA VersionsExtend ==
  ASSUME TypeOK, NEW r \in ScalarSet, NEW op, NEW ps, Added(op, ps), Numbers(r, ps),
         \A n \in Nodes : Ver(n, r) <= versions[r], VersionsDiffer(r)
  PROVE  /\ (\A n \in Nodes : Ver(n, r) <= versions[r])' /\ VersionsDiffer(r)'
         /\ \A n \in Nodes : Ver(n, r)' = Ver(n, r)
<1>1. versions[r] \in Nat /\ \A n \in Nodes : Ver(n, r) \in Nat
  BY VersionsType
<1>2. /\ last_node \in Nat /\ Nodes = 1 .. last_node /\ Nodes' = 1 .. last_node + 1 /\ last_node' = last_node + 1
      /\ \A k \in Nodes : parent'[k] = parent[k] /\ state'[k] = state[k]
      /\ parent'[last_node'] = ps /\ ps \in Seq(Nodes)
  BY DEF Added
<1>3. \A n \in Nodes : Ver(n, r)' = Ver(n, r)
  BY <1>2 DEF Ver
<1>4. Nodes' = Nodes \cup {last_node'} /\ last_node' \notin Nodes /\ Range(ps) \subseteq Nodes
  BY <1>2 DEF Range
<1> DEFINE N == Ver(last_node, r)'
<1>5. N \in Nat /\ versions'[r] \in Nat /\ versions[r] <= versions'[r] /\ N <= versions'[r]
  <2>1. CASE versions'[r] = versions[r] /\ \E p \in Range(ps) : N = Ver(p, r)
    <3>1. PICK p \in Nodes : N = Ver(p, r)
      BY <1>4, <2>1
    <3>2. N \in Nat /\ N <= versions[r]
      BY <1>1, <3>1
    <3> QED
      BY <1>1, <2>1, <3>2
  <2>2. CASE versions'[r] = versions[r] + 1 /\ N = versions[r] + 1
    BY <1>1, <2>2
  <2> QED
    BY <2>1, <2>2 DEF Numbers
<1>6. (\A n \in Nodes : Ver(n, r) <= versions[r])'
  <2> SUFFICES ASSUME NEW n \in Nodes' PROVE Ver(n, r)' <= versions'[r]
    OBVIOUS
  <2>1. CASE n \in Nodes
    <3>1. Ver(n, r)' = Ver(n, r) /\ Ver(n, r) \in Nat /\ Ver(n, r) <= versions[r]
      BY <1>1, <1>3, <2>1
    <3> QED
      BY <1>1, <1>5, <3>1
  <2>2. CASE n = last_node'
    <3>1. Ver(n, r)' = N
      BY <2>2 DEF Ver
    <3> QED
      BY <1>5, <3>1
  <2> QED
    BY <1>4, <2>1, <2>2
<1>7. ASSUME NEW n \in Nodes, Defines(n, r)' PROVE Defines(n, r)
  <2>1. parent[n] \in Seq(Nodes)
    BY DEF TypeOK
  <2>2. Range(parent[n]) \subseteq Nodes
    BY <2>1 DEF Range
  <2>3. parent'[n] = parent[n] /\ state'[n] = state[n] /\ \A p \in Range(parent[n]) : state'[p] = state[p]
    BY <1>2, <2>2
  <2> QED
    BY <1>7, <2>3 DEF Defines, Present
<1>8. Defines(last_node, r)' => N = versions[r] + 1
  <2>1. ASSUME NEW p \in Range(ps), N = Ver(p, r), Defines(last_node, r)' PROVE FALSE
    <3>1. p \in Nodes
      BY <1>4
    <3>2. state'[p][r].ver # state'[last_node'][r].ver
      BY <1>2, <2>1 DEF Defines
    <3> QED
      BY <1>2, <2>1, <3>1, <3>2 DEF Ver
  <2> QED
    BY <2>1 DEF Numbers
<1>9. VersionsDiffer(r)'
  <2> SUFFICES ASSUME NEW m \in Nodes', NEW n \in Nodes', m < n, Defines(m, r)', Defines(n, r)'
               PROVE  Ver(m, r)' # Ver(n, r)'
    BY DEF VersionsDiffer, Ver
  <2>1. m \in Nodes
    BY <1>2
  <2>2. CASE n \in Nodes
    <3>1. Ver(m, r) # Ver(n, r)
      BY <1>7, <2>1, <2>2 DEF VersionsDiffer, Ver
    <3> QED
      BY <1>3, <2>1, <2>2, <3>1
  <2>3. CASE n = last_node'
    <3>1. Defines(last_node, r)' /\ Ver(n, r)' = N
      BY <2>3 DEF Defines, Present, Ver
    <3>2. Ver(m, r)' = Ver(m, r) /\ Ver(m, r) \in Nat /\ Ver(m, r) <= versions[r]
      BY <1>1, <1>3, <2>1
    <3> QED
      BY <1>1, <1>8, <3>1, <3>2
  <2> QED
    BY <1>4, <2>2, <2>3
<1> QED
  BY <1>3, <1>6, <1>9

LEMMA StaysKnownBefore ==
  ASSUME NEW r, NEW op, NEW ps, Added(op, ps), StaysKnown(r)'
  PROVE  StaysKnown(r)
<1>1. Nodes \subseteq Nodes' /\ \A k \in Nodes : state'[k] = state[k]
  BY DEF Added
<1>2. ASSUME NEW m \in Nodes, NEW n \in Nodes, m < n, Present(state[m], r) PROVE Present(state[n], r)
  <2>1. m \in Nodes' /\ n \in Nodes' /\ state'[m] = state[m] /\ state'[n] = state[n]
    BY <1>1
  <2> QED
    BY <1>2, <2>1 DEF StaysKnown
<1> QED
  BY <1>2 DEF StaysKnown

\* A node that carries on what another node has.
LEMMA CarriesNumbers ==
  ASSUME NEW r \in ScalarSet, NEW p, Carries(p)
  PROVE  /\ Numbers(r, <<p>>)
         /\ \/ versions'[r] = versions[r] /\ Ver(last_node, r)' = Ver(p, r)
            \/ versions'[r] = Ver(last_node, r)'
<1>1. p \in Range(<<p>>)
  BY DEF Range
<1> QED
  BY <1>1 DEF Carries, Numbers

\* It follows the newest node.
LEMMA FollowVersions ==
  ASSUME TypeOK, NEW r \in ScalarSet, NEW op, Added(op, <<last_node>>), Carries(last_node),
         NEW fs, Versioned(fs, r), NEW gs, NEW n \in Nat, n = Len(fs), Still(fs, gs, n),
         \/ gs = fs
         \/ Len(gs) = n + 1 /\ \E q : q = n + 1 /\ Pending(gs, q)' = last_node'
  PROVE  Versioned(gs, r)'
<1>1. (\A m \in Nodes : Ver(m, r) <= versions[r]) /\ VersionsDiffer(r) /\ Newest(fs, r)
  BY DEF Versioned
<1>2. /\ Numbers(r, <<last_node>>)
      /\ \/ versions'[r] = versions[r] /\ Ver(last_node, r)' = Ver(last_node, r)
         \/ versions'[r] = Ver(last_node, r)'
  BY CarriesNumbers
<1>3. /\ (\A m \in Nodes : Ver(m, r) <= versions[r])' /\ VersionsDiffer(r)'
      /\ \A m \in Nodes : Ver(m, r)' = Ver(m, r)
  <2>1. PICK ps : ps = <<last_node>>
    OBVIOUS
  <2>2. Added(op, ps) /\ Numbers(r, ps)
    BY <1>2, <2>1
  <2> QED
    BY <1>1, <2>2, VersionsExtend
<1>4. \A k \in 1 .. n : Ver(Pending(gs, k), r)' = Ver(Pending(fs, k), r)
  <2> TAKE k \in 1 .. n
  <2>1. PICK p \in Nodes : p = Pending(fs, k) /\ Pending(gs, k)' = p
    BY DEF Still
  <2>2. Ver(p, r)' = Ver(p, r)
    BY <1>3
  <2> QED
    BY <2>1, <2>2 DEF Ver
<1>5. Newest(gs, r)'
  <2>1. CASE versions'[r] = Ver(last_node, r)'
    BY <2>1 DEF Newest
  <2>2. CASE versions'[r] = versions[r] /\ Ver(last_node, r)' = Ver(last_node, r) /\ versions[r] # Ver(last_node, r)
    <3>1. PICK k \in 1 .. n :
            /\ Ver(Pending(fs, k), r) = versions[r]
            /\ \A j \in k + 1 .. n : Ver(Pending(fs, j), r) = Ver(last_node, r)
      BY <1>1, <2>2 DEF Newest
    <3>2. k \in 1 .. Len(gs)
      OBVIOUS
    <3>3. ASSUME NEW j \in k + 1 .. Len(gs) PROVE Ver(Pending(gs, j), r)' = Ver(last_node, r)'
      <4>1. CASE j \in 1 .. n
        <5>1. j \in k + 1 .. n
          BY <4>1
        <5> QED
          BY <1>4, <2>2, <3>1, <4>1, <5>1
      <4>2. CASE j \notin 1 .. n
        <5>1. gs # fs /\ j = n + 1
          BY <4>2
        <5>2. Pending(gs, j)' = last_node'
          BY <5>1
        <5> QED
          BY <5>2 DEF Ver
      <4> QED
        BY <4>1, <4>2
    <3>4. Ver(Pending(gs, k), r)' = versions'[r]
      BY <1>4, <2>2, <3>1
    <3> QED
      BY <3>2, <3>3, <3>4 DEF Newest
  <2> QED
    BY <1>2, <2>1, <2>2
<1> QED
  BY <1>3, <1>5 DEF Versioned

LEMMA TurnsVersions ==
  ASSUME TypeOK, NEW r \in ScalarSet, NEW fs, Len(fs) \in Nat, Len(fs) > 0, Versioned(fs, r),
         NEW gs, Len(gs) = Len(fs), TurnsAt(fs, gs)
  PROVE  Versioned(gs, r)'
<1>0. PICK n, p : n = Len(fs) /\ p = Pending(fs, n)
  OBVIOUS
<1>1. (\A m \in Nodes : Ver(m, r) <= versions[r]) /\ VersionsDiffer(r) /\ Newest(fs, r)
  BY DEF Versioned
<1>2. /\ Still(fs, gs, n - 1) /\ Carries(p) /\ p \in Nodes /\ Pending(gs, n)' = last_node
      /\ \E op : Added(op, <<p>>)
  BY <1>0 DEF TurnsAt
<1>3. /\ Numbers(r, <<p>>)
      /\ \/ versions'[r] = versions[r] /\ Ver(last_node, r)' = Ver(p, r)
         \/ versions'[r] = Ver(last_node, r)'
  BY <1>2, CarriesNumbers
<1>4. /\ (\A m \in Nodes : Ver(m, r) <= versions[r])' /\ VersionsDiffer(r)'
      /\ \A m \in Nodes : Ver(m, r)' = Ver(m, r)
  <2>1. PICK ps : ps = <<p>>
    OBVIOUS
  <2>2. Numbers(r, ps) /\ \E op : Added(op, ps)
    BY <1>2, <1>3, <2>1
  <2> QED
    BY <1>1, <2>2, VersionsExtend
<1>5. \A k \in 1 .. n - 1 : Ver(Pending(gs, k), r)' = Ver(Pending(fs, k), r)
  <2> TAKE k \in 1 .. n - 1
  <2>1. PICK x \in Nodes : x = Pending(fs, k) /\ Pending(gs, k)' = x
    BY <1>2 DEF Still
  <2>2. Ver(x, r)' = Ver(x, r)
    BY <1>4
  <2> QED
    BY <2>1, <2>2 DEF Ver
<1>6. Ver(Pending(gs, n), r)' = Ver(last_node, r)
  <2>1. PICK x \in Nodes : x = last_node /\ Pending(gs, n)' = x
    BY <1>2, NewNode DEF TypeOK, Nodes, last_node
  <2>2. Ver(x, r)' = Ver(x, r)
    BY <1>4
  <2> QED
    BY <2>1, <2>2 DEF Ver
<1>7. n \in Nat /\ n > 0 /\ n \in 1 .. n /\ Len(gs) = n /\ n + 1 .. n = {}
  BY <1>0
<1>8. Newest(gs, r)'
  <2>1. CASE versions'[r] = Ver(last_node, r)'
    BY <2>1 DEF Newest
  <2>2. CASE versions'[r] = versions[r] /\ Ver(last_node, r)' = Ver(p, r)
    <3>1. CASE versions[r] = Ver(last_node, r)
      <4>1. Ver(Pending(gs, n), r)' = versions'[r]
        BY <1>6, <2>2, <3>1
      <4>2. n \in 1 .. Len(gs) /\ \A j \in n + 1 .. Len(gs) : Ver(Pending(gs, j), r)' = Ver(last_node, r)'
        BY <1>7
      <4> QED
        BY <4>1, <4>2 DEF Newest
    <3>2. CASE versions[r] # Ver(last_node, r)
      <4>1. PICK k \in 1 .. n :
              /\ Ver(Pending(fs, k), r) = versions[r]
              /\ \A j \in k + 1 .. n : Ver(Pending(fs, j), r) = Ver(last_node, r)
        BY <1>0, <1>1, <3>2 DEF Newest
      <4>2. CASE k = n
        BY <1>0, <2>2, <4>1, <4>2 DEF Newest
      <4>3. CASE k # n
        <5>1. k \in 1 .. n - 1 /\ n \in k + 1 .. n /\ k \in 1 .. Len(gs)
          BY <1>7, <4>3
        <5>2. Ver(p, r) = Ver(last_node, r)
          BY <1>0, <4>1, <5>1
        <5>3. ASSUME NEW j \in k + 1 .. Len(gs) PROVE Ver(Pending(gs, j), r)' = Ver(last_node, r)'
          <6>1. CASE j = n
            BY <1>6, <2>2, <5>2, <6>1
          <6>2. CASE j # n
            <7>1. j \in 1 .. n - 1 /\ j \in k + 1 .. n
              BY <1>7, <5>3, <6>2
            <7> QED
              BY <1>5, <2>2, <4>1, <5>2, <7>1
          <6> QED
            BY <6>1, <6>2
        <5>4. Ver(Pending(gs, k), r)' = versions'[r]
          BY <1>5, <2>2, <4>1, <5>1
        <5> QED
          BY <5>1, <5>3, <5>4 DEF Newest
      <4> QED
        BY <4>2, <4>3
    <3> QED
      BY <3>1, <3>2
  <2> QED
    BY <1>3, <2>1, <2>2
<1> QED
  BY <1>4, <1>8 DEF Versioned

\* What a merge does to register r.
LEMMA MergesVersion ==
  ASSUME TypeOK, NEW r \in ScalarSet, NEW ps, NEW x, Merges(x, ps)
  PROVE  LET M == Merged(state[x], ps)
         IN  /\ r \in M => /\ versions'[r] = max_version(r, ps) + 1
                           /\ Ver(last_node, r)' = max_version(r, ps) + 1
             /\ r \notin M => versions'[r] = versions[r] /\ Ver(last_node, r)' = Ver(x, r)
<1>1. r \in Regs
  BY DEF Regs
<1>2. state'[last_node'] = MergedState(state[x], ps)
  BY DEF Merges
<1>3. state'[last_node'][r].ver = IF r \in Merged(state[x], ps) THEN max_version(r, ps) + 1 ELSE state[x][r].ver
  BY <1>1, <1>2 DEF MergedState
<1>4. versions'[r] = IF r \in Merged(state[x], ps) THEN max_version(r, ps) + 1 ELSE versions[r]
  BY <1>1 DEF Merges
<1> QED
  BY <1>3, <1>4 DEF Ver

LEMMA LeavesVersions ==
  ASSUME TypeOK, NEW r \in ScalarSet, NEW fs, Len(fs) \in Nat, Len(fs) > 0, Versioned(fs, r),
         NEW gs, Len(gs) = Len(fs) - 1, LeavesAt(fs, gs), StaysKnown(r)'
  PROVE  Versioned(gs, r)'
<1>0. PICK n, p : n = Len(fs) /\ p = Pending(fs, n)
  OBVIOUS
<1>1. (\A m \in Nodes : Ver(m, r) <= versions[r]) /\ VersionsDiffer(r) /\ Newest(fs, r)
  BY DEF Versioned
<1>2. Still(fs, gs, n - 1) /\ p \in Nodes /\ p # last_node
  BY <1>0 DEF LeavesAt
<1>3. PICK x, ps :
        /\ x \in {last_node, p} /\ ps = <<last_node, p>> /\ Merges(x, ps) /\ \E op : Added(op, ps)
  BY <1>0 DEF LeavesAt
<1>4. /\ Range(ps) = {last_node, p} /\ ps \in Seq(Nodes)
      /\ last_node \in Nodes /\ p < last_node /\ Nodes = 1 .. last_node /\ last_node \in Nat /\ last_node < last_node'
      /\ last_node \in Nodes' /\ p \in Nodes' /\ last_node' \in Nodes'
      /\ state'[p] = state[p] /\ state'[last_node] = state[last_node]
  <2>1. Range(ps) = {last_node, p}
    BY <1>3 DEF Range
  <2> QED
    BY <1>2, <1>3, <2>1 DEF Added
<1>5. /\ versions[r] \in Nat /\ Ver(last_node, r) \in Nat /\ Ver(p, r) \in Nat
      /\ Present(state[last_node], r) <=> Ver(last_node, r) > 0
      /\ Present(state[p], r) <=> Ver(p, r) > 0
  BY <1>2, <1>4, VersionsType
<1>6. n \in Nat /\ n > 0 /\ n \in 1 .. n /\ Len(gs) = n - 1
  BY <1>0
<1>7. \/ versions[r] = Ver(last_node, r)
      \/ versions[r] = Ver(p, r)
      \/ /\ Ver(p, r) = Ver(last_node, r)
         /\ \E k \in 1 .. n - 1 :
              /\ Ver(Pending(fs, k), r) = versions[r]
              /\ \A j \in k + 1 .. n : Ver(Pending(fs, j), r) = Ver(last_node, r)
  <2>1. CASE versions[r] # Ver(last_node, r)
    <3>1. PICK k \in 1 .. n :
            /\ Ver(Pending(fs, k), r) = versions[r]
            /\ \A j \in k + 1 .. n : Ver(Pending(fs, j), r) = Ver(last_node, r)
      BY <1>0, <1>1, <2>1 DEF Newest
    <3>2. CASE k = n
      BY <1>0, <3>1, <3>2
    <3>3. CASE k # n
      <4>1. k \in 1 .. n - 1 /\ n \in k + 1 .. n
        BY <1>6, <3>3
      <4> QED
        BY <1>0, <3>1, <4>1
    <3> QED
      BY <3>2, <3>3
  <2> QED
    BY <2>1
<1>8. CASE r \in Merged(state[x], ps)
  <2>1. PICK v \in prev_versions(r, ps), u \in prev_versions(r, ps) : v # u
    BY <1>8 DEF Merged
  <2>2. Ver(last_node, r) # Ver(p, r)
    BY <1>4, <2>1 DEF prev_versions, Ver
  <2>3. PICK q \in Range(ps) : Ver(q, r) = versions[r]
    BY <1>4, <1>7, <2>2
  <2>4. max_version(r, ps) = versions[r]
    BY <1>1, <1>4, <2>1, <2>3, MaxNewest
  <2>5. versions'[r] = versions[r] + 1 /\ Ver(last_node, r)' = versions[r] + 1
    BY <1>3, <1>8, <2>4, MergesVersion
  <2>6. Numbers(r, ps)
    BY <2>5 DEF Numbers
  <2>7. (\A m \in Nodes : Ver(m, r) <= versions[r])' /\ VersionsDiffer(r)'
    BY <1>1, <1>3, <2>6, VersionsExtend
  <2>8. Newest(gs, r)'
    BY <2>5 DEF Newest
  <2> QED
    BY <2>7, <2>8 DEF Versioned
<1>9. CASE r \notin Merged(state[x], ps)
  <2>1. versions'[r] = versions[r] /\ Ver(last_node, r)' = Ver(x, r)
    BY <1>3, <1>9, MergesVersion
  <2>2. Numbers(r, ps)
    BY <1>3, <1>4, <2>1 DEF Numbers
  <2>3. /\ (\A m \in Nodes : Ver(m, r) <= versions[r])' /\ VersionsDiffer(r)'
        /\ \A m \in Nodes : Ver(m, r)' = Ver(m, r)
    BY <1>1, <1>3, <2>2, VersionsExtend
  <2>4. /\ Ver(p, r) > 0 => Ver(last_node, r) > 0
        /\ Ver(last_node, r) > 0 => Ver(x, r) > 0
    <3>1. Present(state[p], r) => Present(state[last_node], r)
      BY <1>4 DEF StaysKnown
    <3>2. Present(state[last_node], r) => Ver(last_node, r)' > 0
      <4>1. Present(state[last_node], r) => Present(state'[last_node'], r)
        BY <1>4 DEF StaysKnown
      <4> QED
        BY <4>1 DEF Present, Ver
    <3> QED
      BY <1>5, <2>1, <3>1, <3>2
  <2>5. Ver(last_node, r) > 0 /\ Ver(p, r) > 0 => Ver(last_node, r) = Ver(p, r)
    <3>1. ASSUME Ver(last_node, r) > 0, Ver(p, r) > 0 PROVE Ver(last_node, r) = Ver(p, r)
      <4>1. Ver(last_node, r) \in prev_versions(r, ps) /\ Ver(p, r) \in prev_versions(r, ps)
        BY <1>4, <3>1 DEF prev_versions, Ver, Present
      <4>2. Ver(x, r) > 0
        BY <2>4, <3>1
      <4>3. Present(state[x], r)
        BY <4>2 DEF Present, Ver
      <4> QED
        BY <1>9, <4>1, <4>3 DEF Merged
    <3> QED
      BY <3>1
  <2>6. Ver(x, r) = Ver(last_node, r)
    <3>1. x = last_node \/ x = p
      BY <1>3
    <3>2. CASE x = p
      BY <1>5, <2>4, <2>5, <3>2
    <3> QED
      BY <3>1, <3>2
  <2>7. Newest(gs, r)'
    <3>1. CASE versions[r] = Ver(last_node, r)
      BY <2>1, <2>6, <3>1 DEF Newest
    <3>2. CASE versions[r] = Ver(p, r) /\ versions[r] # Ver(last_node, r)
      <4>1. Ver(last_node, r) <= versions[r]
        BY <1>1, <1>4
      <4> QED
        BY <1>5, <2>4, <2>5, <3>2, <4>1
    <3>3. CASE \E k \in 1 .. n - 1 :
                 /\ Ver(Pending(fs, k), r) = versions[r]
                 /\ \A j \in k + 1 .. n : Ver(Pending(fs, j), r) = Ver(last_node, r)
      <4>1. PICK k \in 1 .. n - 1 :
              /\ Ver(Pending(fs, k), r) = versions[r]
              /\ \A j \in k + 1 .. n : Ver(Pending(fs, j), r) = Ver(last_node, r)
        BY <3>3
      <4>2. \A j \in 1 .. n - 1 : Ver(Pending(gs, j), r)' = Ver(Pending(fs, j), r)
        <5> TAKE j \in 1 .. n - 1
        <5>1. PICK y \in Nodes : y = Pending(fs, j) /\ Pending(gs, j)' = y
          BY <1>2 DEF Still
        <5>2. Ver(y, r)' = Ver(y, r)
          BY <2>3
        <5> QED
          BY <5>1, <5>2 DEF Ver
      <4>3. \A j \in k + 1 .. n - 1 : j \in 1 .. n - 1 /\ j \in k + 1 .. n
        BY <1>6
      <4>4. \A j \in k + 1 .. Len(gs) : Ver(Pending(gs, j), r)' = Ver(last_node, r)'
        BY <1>6, <2>1, <2>6, <4>1, <4>2, <4>3
      <4>5. Ver(Pending(gs, k), r)' = versions'[r] /\ k \in 1 .. Len(gs)
        BY <1>6, <2>1, <4>1, <4>2
      <4> QED
        BY <4>4, <4>5 DEF Newest
    <3> QED
      BY <1>7, <3>1, <3>2, <3>3
  <2> QED
    BY <2>3, <2>7 DEF Versioned
<1> QED
  BY <1>8, <1>9

\* The versions go on as the conditionals do.
LEMMA VersionsContinue ==
  ASSUME NEW fs, NEW w, Knows(fs, w), Step, NEW gs, NEW v, Lags(gs)', Moves(fs, gs, w, v),
         NEW r \in ScalarSet, StaysKnown(r)', StaysKnown(r) => Versioned(fs, r)
  PROVE  Versioned(gs, r)'
<1>1. TypeOK /\ Len(fs) \in Nat /\ fs \in Seq(Frame)
  BY KnowsFacts
<1>2. StaysKnown(r)
  <2>1. \E op, ps : Added(op, ps)
    BY DEF Moves, Goes, Enters, TurnsAt, LeavesAt
  <2> QED
    BY <2>1, StaysKnownBefore
<1>3. Versioned(fs, r)
  BY <1>2
<1>4. CASE gs = fs /\ Goes(fs)
  <2>1. Still(fs, fs, Len(fs)) /\ Carries(last_node) /\ \E op : Added(op, <<last_node>>)
    BY <1>4 DEF Goes
  <2>2. PICK n \in Nat : n = Len(fs)
    BY <1>1
  <2>3. Still(fs, gs, n)
    BY <1>4, <2>1, <2>2
  <2> QED
    BY <1>1, <1>3, <1>4, <2>1, <2>2, <2>3, FollowVersions
<1>5. CASE Enters(fs, gs)
  <2>1. PICK n \in Nat : n = Len(fs)
    BY <1>1
  <2>2. /\ Still(fs, gs, n) /\ Carries(last_node) /\ (\E op : Added(op, <<last_node>>))
        /\ gs = Append(fs, Top) /\ \E q : q = n + 1 /\ Pending(gs, q)' = last_node'
    BY <1>5, <2>1 DEF Enters
  <2>3. Len(gs) = n + 1
    BY <1>1, <2>1, <2>2
  <2> QED
    BY <1>1, <1>3, <2>1, <2>2, <2>3, FollowVersions
<1>6. CASE TurnsAt(fs, gs)
  <2>1. fs # <<>> /\ gs = WithElse(fs)
    BY <1>6 DEF TurnsAt
  <2>2. Len(fs) > 0 /\ Len(gs) = Len(fs)
    BY <1>1, <2>1, EmptySeq, ElseLen
  <2> QED
    BY <1>1, <1>3, <1>6, <2>2, TurnsVersions
<1>7. CASE LeavesAt(fs, gs)
  <2>1. fs # <<>> /\ gs = Front(fs)
    BY <1>7 DEF LeavesAt
  <2>2. Len(fs) > 0 /\ Len(gs) = Len(fs) - 1
    BY <1>1, <2>1, EmptySeq, FrontProperties
  <2> QED
    BY <1>1, <1>3, <1>7, <2>2, LeavesVersions
<1> QED
  BY <1>4, <1>5, <1>6, <1>7 DEF Moves
------------------------------------------------------------------------------
(***************************************************************************)
(* The end of the program.                                                 *)
(***************************************************************************)
\* The masks that it closes are the open conditionals.
LEMMA ClosedRange ==
  ASSUME NEW fs, NEW m, Nested(fs, m), Settled(fs), \A k \in 1 .. Len(fs) : fs[k].kind = "mask", Kept({}) = 1
  PROVE  Range(ClosedParents({})) = Pendings(fs)
<1>1. PICK n \in Nat, c \in Nat : n = Len(fs) /\ c = Masks(fs, n) /\ Len(masked_blocks) = c + 1
  BY EntriesOf, SavesOf
<1>2. ClosedParents({}) = [i \in 1 .. c |-> ClosedParent(masked_blocks[c + 1 - i + 1])]
  BY <1>1 DEF ClosedParents
<1>3. Range(ClosedParents({})) = {ClosedParent(masked_blocks[c + 1 - i + 1]) : i \in 1 .. c}
  BY <1>2 DEF Range
<1>4. ASSUME NEW i \in 1 .. c
      PROVE  ClosedParent(masked_blocks[c + 1 - i + 1]) \in Pendings(fs)
  <2>1. PICK b \in 1 .. c : b = c + 1 - i
    BY <1>1
  <2>2. PICK k \in 1 .. n : Masks(fs, k) = b
    BY <1>1, <2>1, MaskOf
  <2>3. Pending(fs, k) = ClosedParent(masked_blocks[b + 1])
    BY <1>1, <2>2 DEF Pending
  <2> QED
    BY <1>1, <2>1, <2>2, <2>3 DEF Pendings
<1>5. ASSUME NEW k \in 1 .. n
      PROVE  \E i \in 1 .. c : Pending(fs, k) = ClosedParent(masked_blocks[c + 1 - i + 1])
  <2>1. PICK j \in Nat : j = k - 1
    BY <1>1
  <2>2. Masks(fs, j + 1) = Masks(fs, j) + 1 /\ Masks(fs, j) \in Nat
    BY <1>1, <1>5, <2>1, MasksCount
  <2>3. k = j + 1 /\ k \in 0 .. n
    BY <1>1, <2>1
  <2>4. PICK b \in Nat : b = Masks(fs, k) /\ b > 0 /\ b <= c
    BY <1>1, <2>2, <2>3, MasksRange
  <2>5. PICK i \in 1 .. c : b = c + 1 - i
    <3>1. c + 1 - b \in 1 .. c /\ b = c + 1 - (c + 1 - b)
      BY <1>1, <2>4
    <3> QED
      BY <3>1
  <2>6. Pending(fs, k) = ClosedParent(masked_blocks[b + 1])
    BY <1>1, <2>4 DEF Pending
  <2> QED
    BY <2>5, <2>6
<1> QED
  BY <1>1, <1>3, <1>4, <1>5 DEF Pendings

\* A list, before which x is put unless it begins with it.
LEMMA PutBefore ==
  ASSUME NEW S, NEW x \in S, NEW s \in Seq(S)
  PROVE  LET t == IF s # <<>> /\ s[1] \in Range(<<x>>) THEN <<x>> \o Tail(s) ELSE <<x>> \o s
         IN  t # <<>> /\ Range(t) = {x} \cup Range(s)
<1>1. Range(<<x>>) = {x}
  BY DEF Range
<1>2. ASSUME NEW t \in Seq(S)
      PROVE  (<<x>> \o t) # <<>> /\ Range(<<x>> \o t) = {x} \cup Range(t)
  <2>0. <<x>> \o t \in Seq(S) /\ Len(t) \in Nat
    OBVIOUS
  <2>1. PICK u, n : u = <<x>> \o t /\ n = Len(t) /\ n \in Nat
    BY <2>0
  <2>2. u \in Seq(S) /\ Len(u) = n + 1 /\ u[1] = x /\ \A i \in 1 .. n : u[i + 1] = t[i]
    BY <2>1
  <2>3. DOMAIN u = 1 .. n + 1 /\ DOMAIN t = 1 .. n
    BY <2>1, <2>2
  <2>4. ASSUME NEW i \in 1 .. n + 1 PROVE u[i] \in {x} \cup Range(t)
    <3>1. CASE i = 1
      BY <2>2, <3>1
    <3>2. CASE i # 1
      <4>1. PICK j \in 1 .. n : i = j + 1
        <5>1. i - 1 \in 1 .. n /\ i = (i - 1) + 1
          BY <2>1, <3>2
        <5> QED
          BY <5>1
      <4> QED
        BY <2>2, <2>3, <4>1 DEF Range
    <3> QED
      BY <3>1, <3>2
  <2>5. x \in Range(u) /\ \A i \in 1 .. n : t[i] \in Range(u)
    <3>1. 1 \in DOMAIN u /\ \A i \in 1 .. n : i + 1 \in DOMAIN u
      BY <2>1, <2>3
    <3> QED
      BY <2>2, <3>1 DEF Range
  <2>6. Range(u) = {x} \cup Range(t)
    BY <2>3, <2>4, <2>5 DEF Range
  <2>7. u # <<>>
    BY <2>1, <2>2, EmptySeq
  <2> QED
    BY <2>1, <2>6, <2>7
<1>3. CASE s # <<>> /\ s[1] = x
  <2>1. Tail(s) \in Seq(S) /\ Len(s) \in Nat \ {0}
    BY <1>3, EmptySeq
  <2>2. Range(s) = {x} \cup Range(Tail(s))
    <3>1. PICK n \in Nat : n + 1 = Len(s)
      <4>1. Len(s) - 1 \in Nat /\ (Len(s) - 1) + 1 = Len(s)
        BY <2>1
      <4> QED
        BY <4>1
    <3>2. PICK t \in Seq(S) : t = Tail(s) /\ Len(t) = n /\ \A i \in 1 .. n : t[i] = s[i + 1]
      <4>1. Len(Tail(s)) = Len(s) - 1 /\ \A i \in 1 .. Len(Tail(s)) : Tail(s)[i] = s[i + 1]
        BY <1>3, HeadTailProperties
      <4>2. Len(Tail(s)) = n
        BY <3>1, <4>1
      <4> QED
        BY <2>1, <4>1, <4>2
    <3>3. DOMAIN s = 1 .. n + 1 /\ DOMAIN t = 1 .. n
      BY <3>1, <3>2
    <3>4. Range(s) = {s[i] : i \in 1 .. n + 1} /\ Range(t) = {s[i + 1] : i \in 1 .. n}
      BY <3>2, <3>3 DEF Range
    <3>5. \A i \in 1 .. n + 1 : i = 1 \/ \E j \in 1 .. n : i = j + 1
      <4>1. \A i \in 1 .. n + 1 : i # 1 => i - 1 \in 1 .. n /\ i = (i - 1) + 1
        BY <3>1
      <4> QED
        BY <4>1
    <3>6. 1 \in 1 .. n + 1 /\ \A j \in 1 .. n : j + 1 \in 1 .. n + 1
      BY <3>1
    <3> QED
      <4>1. {s[i] : i \in 1 .. n + 1} \subseteq {x} \cup {s[i + 1] : i \in 1 .. n}
        BY <1>3, <3>5
      <4>2. {x} \cup {s[i + 1] : i \in 1 .. n} \subseteq {s[i] : i \in 1 .. n + 1}
        BY <1>3, <3>6
      <4>3. Range(Tail(s)) = Range(t)
        BY <3>2
      <4> QED
        BY <3>4, <4>1, <4>2, <4>3
  <2> QED
    BY <1>1, <1>2, <1>3, <2>1, <2>2
<1>4. CASE ~(s # <<>> /\ s[1] = x)
  BY <1>1, <1>2, <1>4
<1> QED
  BY <1>3, <1>4

\* s_endpgm gets all of them as parents, beside the newest node.
LEMMA EndAdds ==
  ASSUME NEW fs, NEW w, Knows(fs, w), Step, todo = <<EndIR>>, StackInv
  PROVE  \E ps :
           /\ Added("s_endpgm", ps) /\ ps # <<>> /\ Range(ps) = {last_node} \cup Pendings(fs)
           /\ \/ state'[last_node'] = state[last_node] /\ versions' = versions
              \/ Merges(last_node, ps)
<1>1. /\ TypeInv /\ TypeOK /\ RestType /\ Nested(fs, ifs) /\ Settled(fs) /\ Phased(fs) /\ Build(Head(todo))
  BY KnowsFacts, TypeParts
<1>2. EndPgm
  <2>1. Build(EndIR)
    BY <1>1
  <2> QED
    BY <2>1 DEF Build, EndIR, IR
<1>3. parents = <<last_node>> /\ last_node \in Nodes
  <2>1. \A l : EndIR.op # LabelIR(l).op
    BY DEF EndIR, LabelIR, IR
  <2> QED
    BY <1>1, <2>1, StillGoing, ParentsType
<1>4. Range(ClosedParents({})) = Pendings(fs)
  BY <1>1, ClosesAll, ClosedRange DEF Phased
<1>5. PICK new \in Seq(Nodes) : new = ClosedParents({})
  BY ClosedDescend
<1>6. PICK ps : ps = ParentsOfClosed(parents, {})
  OBVIOUS
<1>7. ps \in Seq(Nodes) /\ Injective(ps)
  BY <1>1, <1>6, StepParents, ClosedOnce
<1>8. ps # <<>> /\ Range(ps) = {last_node} \cup Pendings(fs)
  <2>1. ps = IF new # <<>> /\ new[1] \in Range(<<last_node>>) THEN <<last_node>> \o Tail(new)
                                                               ELSE <<last_node>> \o new
    BY <1>3, <1>5, <1>6 DEF ParentsOfClosed
  <2> QED
    BY <1>3, <1>4, <1>5, <2>1, PutBefore
<1>9. EmitNode("s_endpgm", ps, state[last_node], versions, {})
  BY <1>2, <1>6 DEF EndPgm, CloseAll
<1>10. "s_endpgm" \in Opcodes /\ {} \in Condition
  BY DEF Opcodes, Condition
<1>11. PICK st : st = state[last_node]
  OBVIOUS
<1>12. /\ Added("s_endpgm", ps)
       /\ Len(ps) <= 1 => state'[last_node'] = st /\ versions' = versions
       /\ Len(ps) > 1 => state'[last_node'] = MergedState(st, ps) /\ update_reg_version(st, ps, versions)
  BY <1>1, <1>7, <1>9, <1>10, <1>11, EmitAdds
<1>13. Len(ps) > 1 => Merges(last_node, ps)
  BY <1>11, <1>12 DEF Merges, update_reg_version
<1>14. Len(ps) <= 1 \/ Len(ps) > 1
  BY <1>7
<1> QED
  BY <1>8, <1>11, <1>12, <1>13, <1>14

\* A last merge gives out versions like those before.
LEMMA EndVersions ==
  ASSUME NEW fs, NEW w, Knows(fs, w), Step, todo = <<EndIR>>, StackInv,
         NEW r \in ScalarSet, StaysKnown(r)', StaysKnown(r) => Versioned(fs, r)
  PROVE  VersionsDiffer(r)'
<1>1. TypeOK /\ Len(fs) \in Nat
  BY KnowsFacts
<1>2. PICK ps :
        /\ Added("s_endpgm", ps) /\ ps # <<>> /\ Range(ps) = {last_node} \cup Pendings(fs)
        /\ \/ state'[last_node'] = state[last_node] /\ versions' = versions
           \/ Merges(last_node, ps)
  BY EndAdds
<1>3. (\A m \in Nodes : Ver(m, r) <= versions[r]) /\ VersionsDiffer(r) /\ Newest(fs, r)
  BY <1>2, StaysKnownBefore DEF Versioned
<1>4. Numbers(r, ps)
  <2>1. CASE state'[last_node'] = state[last_node] /\ versions' = versions
    BY <1>2, <2>1 DEF Numbers, Ver
  <2>2. CASE Merges(last_node, ps) /\ r \notin Merged(state[last_node], ps)
    <3>1. PICK x : x = last_node
      OBVIOUS
    <3>2. versions'[r] = versions[r] /\ Ver(last_node, r)' = Ver(x, r)
      BY <1>1, <2>2, <3>1, MergesVersion
    <3> QED
      BY <1>2, <3>1, <3>2 DEF Numbers
  <2>3. CASE Merges(last_node, ps) /\ r \in Merged(state[last_node], ps)
    <3>1. PICK x : x = last_node
      OBVIOUS
    <3>2. /\ versions'[r] = max_version(r, ps) + 1
          /\ Ver(last_node, r)' = max_version(r, ps) + 1
      BY <1>1, <2>3, <3>1, MergesVersion
    <3>3. PICK q \in Range(ps) : Ver(q, r) = versions[r]
      BY <1>2, <1>3 DEF Newest, Pendings
    <3>4. ps \in Seq(Nodes)
      BY <1>2 DEF Added
    <3>5. prev_versions(r, ps) # {}
      BY <2>3, MergedArrives
    <3>6. max_version(r, ps) = versions[r]
      BY <1>1, <1>3, <3>3, <3>4, <3>5, MaxNewest
    <3> QED
      BY <3>2, <3>6 DEF Numbers
  <2> QED
    BY <1>2, <2>1, <2>2, <2>3
<1> QED
  BY <1>1, <1>2, <1>3, <1>4, VersionsExtend

\* In the finished graph the lanes are sent on from every node that a node but the last hangs off.
Routed(reach) ==
  /\ Graphed(reach)
  /\ \A n \in Nodes \ {last_node} : \A p \in Range(parent[n]) : Complete(reach, p)
LEMMA EndFlow ==
  ASSUME NEW fs, NEW w, Knows(fs, w), Step, todo = <<EndIR>>, StackInv, EdgesAgree, ActiveInv,
         NEW reach, Flow(fs, w, reach)
  PROVE  ActiveInv' /\ Rooted' /\ \E next : Routed(next)'
<1>1. /\ TypeOK /\ Rooted /\ FramesInv /\ HwInv /\ Waiting(fs)
  BY KnowsFacts
<1>2. PICK ps : Added("s_endpgm", ps) /\ ps # <<>> /\ Range(ps) = {last_node} \cup Pendings(fs)
  BY EndAdds
<1>3. Graphed(reach)
  BY DEF Flow
<1>4. "s_endpgm" \notin BodyOps
  BY DEF BodyOps
<1>5. ActiveInv' /\ \E next : Carried(reach, next, ps) /\ Graphed(next)'
  <2>1. PICK op : op = "s_endpgm"
    OBVIOUS
  <2>2. Added(op, ps) /\ op \notin BodyOps
    BY <1>2, <1>4, <2>1
  <2>3. /\ ActiveInv'
        /\ \E next :
              /\ Spreads(reach, next, ps) /\ Carried(reach, next, ps)
              /\ (op \in BodyOps => next[last_node'] = hw["exec"] \cap waves) => Graphed(next)'
    BY <1>1, <1>3, <2>2, FlowGrows
  <2> QED
    BY <2>2, <2>3
<1>6. PICK next : Carried(reach, next, ps) /\ Graphed(next)'
  BY <1>5
<1>7. /\ last_node \in Nat /\ last_node' = last_node + 1 /\ Nodes = 1 .. last_node /\ Nodes' = 1 .. last_node + 1
      /\ \A n \in Nodes : parent'[n] = parent[n]
  BY <1>2 DEF Added
<1>8. ASSUME NEW n \in Nodes, NEW p \in Range(parent[n])
      PROVE  Complete(next, p)'
  <2>1. p \in Nodes
    <3>1. parent[n] \in Seq(Nodes)
      BY <1>1 DEF TypeOK
    <3> QED
      BY <3>1 DEF Range
  <2>2. children[p] # <<>>
    <3>1. n \in Range(children[p])
      BY <2>1 DEF EdgesAgree
    <3> QED
      BY <3>1 DEF Range
  <2>3. p # last_node
    BY <2>2 DEF Flow
  <2>4. CASE p \in Pendings(fs)
    <3>1. PICK k \in 1 .. Len(fs) : p = Pending(fs, k)
      BY <2>4 DEF Pendings
    <3>2. Leaving(fs, w, reach, k)
      BY DEF Flow
    <3>3. Len(children[p]) = 1
      BY <2>2, <2>3, <3>1, <3>2 DEF Leaving
    <3> QED
      BY <1>2, <1>6, <2>4, <3>3 DEF Carried
  <2>5. CASE p \notin Pendings(fs)
    <3>1. Complete(reach, p)
      BY <2>1, <2>3, <2>5 DEF Flow
    <3> QED
      BY <1>2, <1>6, <2>1, <2>3, <2>5, <3>1 DEF Carried
  <2> QED
    BY <2>4, <2>5
<1>9. \A n \in Nodes' \ {last_node'} : n \in Nodes
  BY <1>7
<1>10. Routed(next)'
  BY <1>6, <1>7, <1>8, <1>9 DEF Routed
<1> QED
  BY <1>1, <1>2, <1>5, <1>10, RootedNext

\* Of the lanes at a node, those that it sends to a child take the path to it.
LEMMA TakenAlong ==
  ASSUME TypeOK, NEW reach, NEW p \in Nodes, Complete(reach, p), NEW n \in Range(children[p]), NEW l \in Lanes
  PROVE  l \in Along(reach, p, n) <=> l \in reach[p] /\ Taken(l, p) = n
<1>1. PICK c \in Seq(Nodes) : c = children[p]
  BY DEF TypeOK
<1>2. c # <<>>
  BY <1>1 DEF Range
<1>3. CASE Len(c) = 1 /\ ToSecond(reach, p) = {}
  <2>1. c[1] = n
    <3>1. PICK i \in 1 .. Len(c) : c[i] = n
      BY <1>1 DEF Range
    <3> QED
      BY <1>3, <3>1
  <2>2. Taken(l, p) = n
    BY <1>1, <1>2, <1>3, <2>1 DEF Taken
  <2>3. Along(reach, p, n) = ToFirst(reach, p)
    BY <1>1, <1>2, <2>1 DEF Along
  <2>4. l \in ToFirst(reach, p) <=> l \in reach[p]
    BY <1>3 DEF ToFirst, ToSecond
  <2> QED
    BY <2>2, <2>3, <2>4
<1>4. CASE Len(c) = 2 /\ c[1] # c[2]
  <2>1. n = c[1] \/ n = c[2]
    <3>1. PICK i \in 1 .. Len(c) : c[i] = n
      BY <1>1 DEF Range
    <3> QED
      BY <1>4, <3>1
  <2>2. Taken(l, p) = IF Satisfies(l, Condition_of(p)) THEN c[1] ELSE c[2]
    BY <1>1, <1>2, <1>4 DEF Taken
  <2>3. Along(reach, p, n) = IF n = c[1] THEN ToFirst(reach, p) ELSE ToSecond(reach, p)
    BY <1>1, <1>2 DEF Along
  <2> QED
    BY <1>4, <2>1, <2>2, <2>3 DEF ToFirst, ToSecond
<1> QED
  BY <1>1, <1>3, <1>4 DEF Complete

\* The path of a lane goes through the nodes that it reaches, and the last one.
LEMMA RoutedPath ==
  ASSUME TypeOK, EdgesAgree, Rooted, NEW reach, Routed(reach), NEW l \in Lanes, NEW n \in Nodes, n # last_node
  PROVE  n \in Path(l) <=> l \in reach[n]
<1>1. /\ last_node \in Nat /\ Nodes = 1 .. last_node /\ parent \in [Nodes -> Seq(Nodes)]
      /\ reach[1] = Lanes /\ \A m \in Nodes : m # 1 => Reached(reach, m)
  <2>1. last_node \in Nat /\ Nodes = 1 .. last_node
    BY DEF TypeOK, Nodes, last_node
  <2> QED
    BY <2>1 DEF TypeOK, Routed, Graphed
<1>2. \A m \in Nodes : \A p \in Range(parent[m]) : p \in Nodes /\ p < m
  <2> TAKE m \in Nodes
  <2> TAKE p \in Range(parent[m])
  <2>1. PICK i \in DOMAIN parent[m] : p = parent[m][i]
    BY DEF Range
  <2>2. p \in 1 .. m - 1
    BY <2>1 DEF Rooted
  <2> QED
    BY <1>1, <2>2
<1> DEFINE Arrives(m) == \E p \in Range(parent[m]) : l \in reach[p] /\ Taken(l, p) = m
<1>3. \A m \in Nodes \ {last_node} : l \in reach[m] <=> m = 1 \/ Arrives(m)
  <2> TAKE m \in Nodes \ {last_node}
  <2>1. CASE m = 1
    BY <1>1, <2>1
  <2>2. CASE m # 1
    <3>1. reach[m] = UNION {Along(reach, p, m) : p \in Range(parent[m])}
      BY <1>1, <2>2 DEF Reached
    <3>2. ASSUME NEW p \in Range(parent[m])
          PROVE  l \in Along(reach, p, m) <=> l \in reach[p] /\ Taken(l, p) = m
      <4>1. Complete(reach, p) /\ p \in Nodes
        BY <1>2 DEF Routed
      <4>2. m \in Range(children[p])
        BY <4>1 DEF EdgesAgree
      <4> QED
        BY <4>1, <4>2, TakenAlong
    <3>3. l \in reach[m] <=> \E p \in Range(parent[m]) : l \in Along(reach, p, m)
      BY <3>1
    <3> QED
      BY <2>2, <3>2, <3>3
  <2> QED
    BY <2>1, <2>2
<1> DEFINE Good(f) == f = [m \in Nodes |-> m = 1 \/ \E p \in Range(parent[m]) : f[p] /\ Taken(l, p) = m]
           on == CHOOSE f : Good(f)
<1>4. \E f : Good(f)
  <2> DEFINE known == [m \in Nodes |-> IF m = last_node THEN m = 1 \/ Arrives(m) ELSE l \in reach[m]]
  <2>1. \A m \in Nodes : \A p \in Range(parent[m]) : known[p] = (l \in reach[p])
    <3> SUFFICES ASSUME NEW m \in Nodes, NEW p \in Range(parent[m]) PROVE known[p] = (l \in reach[p])
      OBVIOUS
    <3>1. p \in Nodes /\ p # last_node
      BY <1>1, <1>2
    <3> QED
      BY <3>1
  <2>2. \A m \in Nodes :
          known[m] = (m = 1 \/ \E p \in Range(parent[m]) : known[p] /\ Taken(l, p) = m)
    <3> TAKE m \in Nodes
    <3>1. Arrives(m) <=> \E p \in Range(parent[m]) : known[p] /\ Taken(l, p) = m
      BY <2>1
    <3>2. CASE m = last_node
      BY <3>1, <3>2
    <3>3. CASE m # last_node
      <4>1. known[m] = (l \in reach[m])
        BY <3>3
      <4> QED
        <5>1. m \in Nodes \ {last_node}
          BY <3>3
        <5>2. (l \in reach[m]) <=> (m = 1 \/ \E p \in Range(parent[m]) : known[p] /\ Taken(l, p) = m)
          BY <1>3, <3>1, <5>1
        <5> HIDE DEF known
        <5> QED
          BY <4>1, <5>2
    <3> QED
      BY <3>2, <3>3
  <2>3. PICK f : f = known
    OBVIOUS
  <2>4. f = [m \in Nodes |-> f[m]]
    BY <2>3
  <2>5. \A m \in Nodes : f[m] = (m = 1 \/ \E p \in Range(parent[m]) : f[p] /\ Taken(l, p) = m)
    BY <2>2, <2>3
  <2>6. [m \in Nodes |-> f[m]]
        = [m \in Nodes |-> m = 1 \/ \E p \in Range(parent[m]) : f[p] /\ Taken(l, p) = m]
    <3> DEFINE On(m) == m = 1 \/ \E p \in Range(parent[m]) : f[p] /\ Taken(l, p) = m
    <3>1. \A m \in Nodes : f[m] = On(m)
      BY <2>5
    <3> HIDE DEF On
    <3>2. [m \in Nodes |-> f[m]] = [m \in Nodes |-> On(m)]
      BY <3>1
    <3> QED
      BY <3>2 DEF On
  <2>7. Good(f)
    BY <2>4, <2>6
  <2> HIDE DEF Good
  <2> QED
    BY <2>7
<1>5. Good(on)
  BY <1>4
<1>6. Path(l) = {m \in Nodes : on[m]}
  BY DEF Path
<1> HIDE DEF on
<1>7. \A m \in Nodes : on[m] = (m = 1 \/ \E p \in Range(parent[m]) : on[p] /\ Taken(l, p) = m)
  BY <1>5
<1> DEFINE Wrong == {m \in Nodes \ {last_node} : ~(on[m] <=> l \in reach[m])}
<1>8. Wrong = {}
  <2>1. SUFFICES ASSUME Wrong # {} PROVE FALSE
    OBVIOUS
  <2>2. Wrong \in SUBSET Nat
    BY <1>1
  <2>3. PICK m \in Wrong : \A x \in Wrong : m <= x
    BY <2>1, <2>2, NatMin
  <2>4. m \in Nodes \ {last_node} /\ m \in Nat
    BY <1>1, <2>3
  <2>5. ASSUME NEW p \in Range(parent[m])
        PROVE  on[p] <=> l \in reach[p]
    <3>1. p \in Nodes /\ p < m /\ p \in Nat /\ m <= last_node
      BY <1>1, <1>2, <2>4
    <3>2. p # last_node
      BY <1>1, <2>4, <3>1
    <3>3. p \notin Wrong
      BY <2>3, <2>4, <3>1
    <3> QED
      BY <3>1, <3>2, <3>3
  <2>6. on[m] <=> l \in reach[m]
    <3>1. (l \in reach[m]) <=> (m = 1 \/ Arrives(m))
      BY <1>3, <2>4
    <3>2. on[m] <=> (m = 1 \/ \E p \in Range(parent[m]) : on[p] /\ Taken(l, p) = m)
      BY <1>7, <2>4
    <3> QED
      BY <2>5, <3>1, <3>2
  <2> QED
    BY <2>3, <2>6
<1> QED
  BY <1>6, <1>8

LEMMA RoutedAgree ==
  ASSUME TypeOK, EdgesAgree, Rooted, Ended, NEW reach, Routed(reach)
  PROVE  PathsAgree
<1>1. ASSUME NEW n \in Effects
      PROVE  n \in Nodes /\ n # last_node /\ reach[n] = active[n]
  BY DEF Effects, Ended, Routed, Graphed
<1>2. ASSUME NEW l \in Lanes
      PROVE  Path(l) \cap Effects = {n \in Effects : l \in active[n]}
  BY <1>1, RoutedPath
<1> QED
  BY <1>2 DEF PathsAgree
------------------------------------------------------------------------------
(***************************************************************************)
(* The machine instructions, which leave the graph alone.                  *)
(***************************************************************************)
LEMMA GraphStays ==
  ASSUME UNCHANGED vars, active' = active
  PROVE  /\ last_node' = last_node /\ Nodes' = Nodes /\ Going' = Going /\ Ended' = Ended
         /\ from_node' = from_node /\ state' = state /\ instruction' = instruction
         /\ \A fs, k : Pending(fs, k)' = Pending(fs, k)
         /\ \A fs : Waiting(fs) => Waiting(fs)'
         /\ Rooted => Rooted'
         /\ ActiveInv => ActiveInv'
<1>1. /\ instruction' = instruction /\ parent' = parent /\ from_node' = from_node
      /\ masked_blocks' = masked_blocks /\ state' = state
  BY DEF vars, graph, jumps
<1>2. last_node' = last_node /\ Nodes' = Nodes
  BY <1>1 DEF last_node, Nodes
<1>3. Going' = Going /\ Ended' = Ended
  BY <1>1, <1>2 DEF Going, Ended
<1>4. \A fs, k : Pending(fs, k)' = Pending(fs, k)
  BY <1>1 DEF Pending, ClosedParent
<1>5. ASSUME NEW fs, NEW k, WaitsAt(fs, k)
      PROVE  WaitsAt(fs, k)'
  BY <1>1, <1>2, <1>3, <1>4, <1>5 DEF WaitsAt
<1>6. Rooted => Rooted'
  BY <1>1, <1>2 DEF Rooted
<1>7. ActiveInv => ActiveInv'
  BY <1>2 DEF ActiveInv
<1> QED
  BY <1>1, <1>2, <1>3, <1>4, <1>5, <1>6, <1>7 DEF Waiting

LEMMA LanesStay ==
  ASSUME UNCHANGED vars, active' = active, NEW reach
  PROVE  /\ \A fs, w : Flow(fs, w, reach) => Flow(fs, w, reach)'
         /\ Routed(reach) => Routed(reach)'
<1>1. /\ instruction' = instruction /\ parent' = parent /\ children' = children
      /\ mask' = mask /\ state' = state
  BY DEF vars, graph
<1>2. /\ last_node' = last_node /\ Nodes' = Nodes
      /\ \A fs, k : Pending(fs, k)' = Pending(fs, k)
  BY GraphStays
<1>3. \A n : Condition_of(n)' = Condition_of(n)
  BY <1>1 DEF Condition_of
<1>4. \A n : ToFirst(reach, n)' = ToFirst(reach, n)
  BY <1>3 DEF ToFirst
<1>5. \A n : ToSecond(reach, n)' = ToSecond(reach, n)
  BY <1>4 DEF ToSecond
<1>6. \A n : Sent(reach, n)' = Sent(reach, n)
  BY <1>1, <1>4, <1>5 DEF Sent
<1>7. \A p, n : Along(reach, p, n)' = Along(reach, p, n)
  BY <1>1, <1>4, <1>5 DEF Along
<1>8. \A n : Reached(reach, n) => Reached(reach, n)'
  BY <1>1, <1>7 DEF Reached
<1>9. \A n : Complete(reach, n) => Complete(reach, n)'
  BY <1>1, <1>5 DEF Complete
<1>10. Effects' = Effects
  BY <1>1, <1>2 DEF Effects
<1>11. Graphed(reach) => Graphed(reach)'
  BY <1>2, <1>8, <1>10 DEF Graphed
<1>12. \A fs, w, k : Leaving(fs, w, reach, k) => Leaving(fs, w, reach, k)'
  BY <1>1, <1>2, <1>5, <1>6 DEF Leaving
<1>13. \A fs : Pendings(fs)' = Pendings(fs)
  BY <1>2 DEF Pendings
<1>14. ASSUME NEW fs, NEW w, Flow(fs, w, reach)
       PROVE  Flow(fs, w, reach)'
  BY <1>1, <1>2, <1>4, <1>5, <1>9, <1>11, <1>12, <1>13, <1>14 DEF Flow
<1>15. Routed(reach) => Routed(reach)'
  BY <1>1, <1>2, <1>9, <1>11 DEF Routed
<1> QED
  BY <1>14, <1>15

LEMMA VersionsStay ==
  ASSUME UNCHANGED vars, active' = active, NEW r
  PROVE  /\ StaysKnown(r)' <=> StaysKnown(r)
         /\ VersionsDiffer(r) => VersionsDiffer(r)'
         /\ \A fs : Versioned(fs, r) => Versioned(fs, r)'
<1>1. parent' = parent /\ state' = state /\ versions' = versions
  BY DEF vars, graph, naming
<1>2. /\ last_node' = last_node /\ Nodes' = Nodes
      /\ \A fs, k : Pending(fs, k)' = Pending(fs, k)
  BY GraphStays
<1>3. StaysKnown(r)' <=> StaysKnown(r)
  BY <1>1, <1>2 DEF StaysKnown, Present
<1>4. VersionsDiffer(r) => VersionsDiffer(r)'
  BY <1>1, <1>2 DEF VersionsDiffer, Defines, Present
<1>5. \A n : Ver(n, r)' = Ver(n, r)
  BY <1>1 DEF Ver
<1>6. \A fs, k : Ver(Pending(fs, k), r)' = Ver(Pending(fs, k), r)
  BY <1>1, <1>2 DEF Ver
<1>7. \A fs : Newest(fs, r) => Newest(fs, r)'
  BY <1>1, <1>2, <1>5, <1>6 DEF Newest
<1> QED
  BY <1>1, <1>2, <1>3, <1>4, <1>5, <1>7 DEF Versioned

\* Once the pass has caught up it knows where the machine is.
LEMMA ReadyKnows ==
  ASSUME MasksInv, Ready, NEW fs, NEW w, Lags(fs), Believed(fs, w)
  PROVE  fs = frames /\ w = waves
<1>1. todo = <<>>
  BY DEF Ready
<1>2. ~Opening(fs) /\ ~Switching(fs) /\ ~Closing(fs)
  BY <1>1 DEF Opening, Masking, Branching, Switching, Turning, Jumping, Closing, Restoring, Labelling
<1>3. frames = fs /\ Nested(fs, ifs)
  BY <1>2 DEF Lags, Level
<1>4. fs \in Seq(Frame) /\ \A k \in 1 .. Len(fs) : fs[k].kind = "branch" => fs[k].label \in Nat
  BY <1>3, SavesOf, LabelsType
<1>5. PICK n \in Nat : n = Len(fs)
  BY <1>4
<1>6. ~Entering(fs)
  <2>1. \A x : Len(Append(fs, x)) = n + 1
    BY <1>4, <1>5
  <2> QED
    BY <1>3, <1>5, <2>1 DEF Entering
<1>7. ASSUME Behind(fs), fs[n].kind = "branch" PROVE FALSE
  <2>1. n > 0 /\ Len(Front(fs)) = n - 1
    BY <1>4, <1>5, <1>7, FrontProperties DEF Behind
  <2>2. fs = WithElse(fs)
    BY <1>3, <1>5, <1>7, <2>1 DEF Behind
  <2>3. n \in DOMAIN fs /\ n \in 1 .. n
    BY <1>4, <1>5, <2>1
  <2>4. WithElse(fs)[n] = Elsed(fs[n])
    BY <1>5, <2>3 DEF WithElse
  <2>5. fs[n] \in Frame
    BY <1>4, <1>5, <2>3
  <2>6. Elsed(fs[n]).label = fs[n].label + 1
    BY <1>7, <2>5 DEF Elsed, Frame
  <2> QED
    BY <1>4, <1>5, <1>7, <2>2, <2>3, <2>4, <2>6
<1> QED
  BY <1>3, <1>5, <1>6, <1>7 DEF Believed

\* The last machine instruction is s_endpgm.
LEMMA EndIssued ==
  ASSUME Ready, [KernelNext]_kvars, todo' = <<EndIR>>
  PROVE  s_endpgm
<1>1. todo = <<>> /\ ~Step
  BY DEF Ready, Step
<1>2. \A i, s : todo' # <<CmpIR(i), SaveIR(s), NarrowIR, UseMask>>
  OBVIOUS
<1>3. \A a, b : todo' # <<a, b>>
  OBVIOUS
<1>4. todo' # todo /\ \A x : todo' = <<x>> => x.op = "endpgm"
  BY <1>1 DEF EndIR, IR
<1>5. \A i : ~If(i)
  BY <1>2, Lowered DEF If, Issue
<1>6. ~Else /\ ~EndIf
  <2>1. \A s : Issue(s_andn2_b64("exec", s, "exec")) => todo' = <<ElseIR(s), UseMask>>
    BY Lowered DEF Issue
  <2>2. \A s : Issue(s_mov_b64("exec", s)) => todo' = <<IR("mov", "exec", s, s), UseMask>>
    BY Lowered DEF Issue
  <2>3. \A s : Issue(s_or_b64("exec", "exec", s)) => todo' = <<IR("or", "exec", "exec", s), UseMask>>
    BY Lowered DEF Issue
  <2> QED
    BY <1>3, <2>1, <2>2, <2>3 DEF Else, EndIf
<1>7. \A i : ~UniformIf(i)
  <2> TAKE i
  <2>1. \A l : Issue(s_cmp(i) \o s_cbranch_scc0(l)) => todo' = <<FlagIR(i), IR("bra_n", l, l, l)>>
    BY Lowered DEF Issue
  <2>2. \A l : Issue(s_cmp(i) \o s_cbranch_scc1(l)) => todo' = <<FlagIR(i), IR("bra", l, l, l)>>
    BY Lowered DEF Issue
  <2> QED
    BY <1>3, <2>1, <2>2 DEF UniformIf
<1>8. ~UniformElse
  BY <1>3, Lowered DEF UniformElse, Issue
<1>9. ~UniformEndIf
  <2>1. UniformEndIf => todo' = <<LabelIR(Top.label)>>
    BY Lowered DEF UniformEndIf, Issue
  <2>2. \A l : LabelIR(l).op # "endpgm"
    BY DEF LabelIR, IR
  <2> QED
    BY <1>4, <2>1, <2>2
<1>10. (\A v : ~Compute(v)) /\ ~Store
  <2>1. \A v : IR("arith", v, v, v).op # "endpgm" /\ IR("store", v, v, v).op # "endpgm"
    BY DEF IR
  <2>2. \A ir : Body(ir) => todo' = <<ir>>
    BY DEF Body, Issue
  <2> QED
    BY <1>4, <2>1, <2>2 DEF Compute, Store
<1>11. todo' = todo \/ KernelNext
  BY DEF kvars, hardware
<1> QED
  BY <1>1, <1>4, <1>5, <1>6, <1>7, <1>8, <1>9, <1>10, <1>11 DEF KernelNext

\* What a machine instruction has to be lowered to.
Announced(fs) ==
  /\ Entering(fs)' /\ Top'.kind = "branch" =>
       Top'.label \in Labels /\ Top'.label + 1 \in Labels /\ Top'.label > 2 * ifs
  /\ Behind(fs)' /\ Len(todo') = 1 => Pending(fs, Len(fs)) # last_node
  /\ todo' = <<EndIR>> => \A k \in 1 .. Len(fs) : fs[k].kind = "mask"
  /\ \E w : w = waves /\ Believed(fs, w)'
\* What all of them find.
Awaits(fs) ==
  /\ fs = frames /\ Ready /\ TypeOK /\ FramesInv /\ HwInv /\ FramesInv' /\ Nested(fs, ifs) /\ Waiting(fs)
  /\ fs \in Seq(Frame) /\ Len(fs) \in Nat
LEMMA OpeningAnnounced ==
  ASSUME NEW fs, Awaits(fs), NEW i \in Comparisons,
         \/ If(i) /\ todo' = <<CmpIR(i), SaveIR(MaskFrame(i).save), NarrowIR, UseMask>>
         \/ UniformIf(i)
  PROVE  Announced(fs)
<1>1. PICK f, n :
        /\ n = Len(fs) /\ n \in Nat /\ f \in Frame /\ frames' = Append(fs, f) /\ f.cmp = i
        /\ \/ If(i) /\ f.kind = "mask" /\ todo' = <<CmpIR(i), SaveIR(MaskFrame(i).save), NarrowIR, UseMask>>
           \/ UniformIf(i) /\ f.kind = "branch" /\ f.label = 2 * ifs + 1 /\ f.waves = waves
  <2>1. CASE If(i) /\ todo' = <<CmpIR(i), SaveIR(MaskFrame(i).save), NarrowIR, UseMask>>
    <3>1. PICK f : f = MaskFrame(i)
      OBVIOUS
    <3>2. f \in Frame /\ frames' = Append(fs, f)
      BY <2>1, <3>1, IfOpens DEF Awaits, Opens
    <3>3. f.cmp = i /\ f.kind = "mask"
      BY <3>1 DEF MaskFrame
    <3> QED
      BY <2>1, <3>2, <3>3 DEF Awaits
  <2>2. CASE UniformIf(i)
    <3>1. PICK f : f = BranchFrame(i)
      OBVIOUS
    <3>2. f \in Frame /\ frames' = Append(fs, f)
      BY <2>2, <3>1, UniformIfOpens DEF Awaits, Opens
    <3>3. f.cmp = i /\ f.kind = "branch" /\ f.label = 2 * ifs + 1 /\ f.waves = waves
      BY <3>1 DEF BranchFrame
    <3> QED
      BY <2>2, <3>2, <3>3 DEF Awaits
  <2> QED
    BY <2>1, <2>2
<1>2. Len(frames') = n + 1 /\ frames'[n + 1] = f /\ Top' = f /\ frames' # <<>>
  BY <1>1 DEF Awaits, Top
<1>3. Entering(fs)'
  BY <1>1, <1>2 DEF Entering
<1>4. ~Behind(fs)'
  <2>1. fs # <<>> => Len(WithElse(fs)) = n /\ Len(Front(fs)) = n - 1
    BY <1>1, ElseLen, FrontProperties DEF Awaits
  <2> QED
    BY <1>1, <1>2, <2>1 DEF Behind
<1>5. CASE If(i) /\ f.kind = "mask" /\ todo' = <<CmpIR(i), SaveIR(MaskFrame(i).save), NarrowIR, UseMask>>
  <2>1. waves' = waves
    BY <1>5 DEF If
  <2>2. todo' # <<EndIR>>
    BY <1>5
  <2>3. PICK w : w = waves
    OBVIOUS
  <2>4. Believed(fs, w)'
    BY <1>2, <1>3, <1>5, <2>1, <2>3 DEF Believed
  <2> QED
    BY <1>2, <1>4, <1>5, <2>2, <2>3, <2>4 DEF Announced
<1>6. CASE UniformIf(i) /\ f.kind = "branch" /\ f.label = 2 * ifs + 1 /\ f.waves = waves
  <2>1. PICK w, l : w = waves /\ l = f.label
    OBVIOUS
  <2>2. \/ todo' = <<FlagIR(i), IR("bra_n", l, l, l)>> /\ waves' = w \cap True(i)
        \/ todo' = <<FlagIR(i), IR("bra", l, l, l)>> /\ waves' = w \ True(i)
    <3>1. Issue(s_cmp(i) \o s_cbranch_scc0(l)) => todo' = <<FlagIR(i), IR("bra_n", l, l, l)>>
      BY Lowered DEF Issue
    <3>2. Issue(s_cmp(i) \o s_cbranch_scc1(l)) => todo' = <<FlagIR(i), IR("bra", l, l, l)>>
      BY Lowered DEF Issue
    <3> QED
      BY <1>6, <2>1, <3>1, <3>2 DEF UniformIf
  <2>3. Believed(fs, w)'
    <3>1. Entering(fs)' /\ Top'.kind = "branch" /\ w = Top'.waves /\ Top'.cmp = i /\ Top'.label = l
      BY <1>1, <1>2, <1>3, <1>6, <2>1
    <3>2. \E b \in {<<IR("bra_n", l, l, l), w \cap True(i)>>, <<IR("bra", l, l, l), w \ True(i)>>} :
            waves' = b[2] /\ todo' = <<FlagIR(i), b[1]>>
      BY <2>2
    <3>3. True(i)' = True(i)
      BY DEF True
    <3> QED
      BY <3>1, <3>2, <3>3 DEF Believed
  <2>4. todo' # <<EndIR>>
    BY <2>2
  <2>5. Top'.label \in Labels /\ Top'.label + 1 \in Labels /\ Top'.label > 2 * ifs
    <3>1. f.label \in Labels /\ ifs < MaxIfs /\ ifs \in Nat /\ MaxIfs \in Nat
      BY <1>1, <1>6, LabelsType DEF UniformIf, Open, Awaits, FramesInv
    <3>2. Labels = 1 .. 2 * MaxIfs
      BY <3>1, LabelsType
    <3>3. f.label + 1 \in Labels /\ f.label > 2 * ifs
      BY <1>6, <3>1, <3>2
    <3> QED
      BY <1>2, <3>1, <3>3
  <2> QED
    BY <1>4, <2>1, <2>3, <2>4, <2>5 DEF Announced
<1> QED
  BY <1>1, <1>5, <1>6

LEMMA ClosingAnnounced ==
  ASSUME NEW fs, Awaits(fs), last_node' = last_node,
         \/ Else /\ todo' = <<ElseIR(Top.save), UseMask>>
         \/ \E ir \in RestoreIRs(Top.save) : EndIf /\ todo' = <<ir, UseMask>>
         \/ UniformElse /\ todo' = <<JumpIR(Top.label + 1), LabelIR(Top.label)>>
         \/ UniformEndIf /\ todo' = <<LabelIR(Top.label)>>
  PROVE  Announced(fs)
<1>1. fs # <<>> /\ (frames' = WithElse(fs) \/ frames' = Front(fs))
  BY ElseTurns, EndIfCloses DEF Awaits, Turns, Closes
<1>2. PICK n \in Nat : n = Len(fs) /\ n > 0 /\ fs[n] = Top /\ n \in 1 .. n
  BY <1>1, FrontProperties DEF Awaits, Top
<1>3. Len(WithElse(fs)) = n /\ Len(Front(fs)) = n - 1 /\ \A x : Len(Append(fs, x)) = n + 1
  BY <1>1, <1>2, ElseLen, FrontProperties DEF Awaits
<1>4. ~Entering(fs)' /\ Behind(fs)'
  BY <1>1, <1>2, <1>3 DEF Entering, Behind
<1>5. todo' # <<EndIR>>
  <2>1. \A l : LabelIR(l).op # EndIR.op
    BY DEF LabelIR, EndIR, IR
  <2> QED
    BY <2>1
<1>6. Len(todo') = 1 => Pending(fs, n) # last_node
  <2>1. SUFFICES ASSUME Len(todo') = 1 PROVE Pending(fs, n) # last_node
    OBVIOUS
  <2>2. UniformEndIf
    BY <2>1
  <2>3. WaitsAt(fs, n)
    BY <1>2 DEF Awaits, Waiting
  <2>4. fs[n].kind = "branch" /\ instruction[last_node] \notin {"s_br", "s_nbr"}
    BY <1>2, <2>2 DEF UniformEndIf, InBranchOf, HasBody
  <2> QED
    BY <2>3, <2>4 DEF WaitsAt
<1>7. PICK w : w = waves
  OBVIOUS
<1>8. Believed(fs, w)'
  <2>1. CASE fs[n].kind = "mask"
    <3>1. waves' = waves
      <4>1. ~UniformElse /\ ~UniformEndIf
        BY <1>2, <2>1 DEF UniformElse, UniformEndIf, InBranchOf
      <4> QED
        BY <4>1 DEF Else, EndIf
    <3> QED
      BY <1>2, <1>4, <1>7, <2>1, <3>1 DEF Believed
  <2>2. CASE fs[n].kind # "mask"
    <3>1. UniformElse \/ UniformEndIf
      BY <1>2, <2>2 DEF Else, EndIf, InBranchOf
    <3>2. fs[n].kind = "branch"
      BY <1>2, <3>1 DEF UniformElse, UniformEndIf, InBranchOf
    <3>3. w \subseteq fs[n].waves
      BY <1>2, <1>7, <3>2 DEF Awaits, HwInv, WavesNested
    <3>4. waves' = IF frames' = Front(fs) THEN fs[n].waves ELSE fs[n].waves \ w
      <4>1. CASE UniformEndIf
        <5>1. frames' = Front(fs)
          BY <4>1 DEF UniformEndIf, Awaits
        <5> QED
          BY <1>2, <4>1, <5>1 DEF UniformEndIf
      <4>2. CASE UniformElse
        <5>1. frames' = WithElse(fs)
          BY <4>2, ElseTurns DEF Awaits, Turns
        <5>2. frames' # Front(fs)
          BY <1>2, <1>3, <5>1
        <5> QED
          BY <1>2, <1>7, <4>2, <5>2 DEF UniformElse
      <4> QED
        BY <3>1, <4>1, <4>2
    <3> QED
      BY <1>2, <1>4, <3>2, <3>3, <3>4 DEF Believed
  <2> QED
    BY <2>1, <2>2
<1> QED
  BY <1>2, <1>4, <1>5, <1>6, <1>7, <1>8 DEF Announced

LEMMA BodyAnnounced ==
  ASSUME NEW fs, Awaits(fs), [KernelNext]_kvars, NEW ir \in BodyIRs, todo' = <<ir>>,
         UNCHANGED <<frames, ifs, hw, waves>>
  PROVE  Announced(fs)
<1>1. PICK n, w : n = Len(fs) /\ n \in Nat /\ w = waves /\ frames' = fs /\ waves' = w
  BY DEF Awaits
<1>2. ~Entering(fs)'
  <2>1. \A x : Len(Append(fs, x)) = n + 1
    BY <1>1 DEF Awaits
  <2> QED
    BY <1>1, <2>1 DEF Entering
<1>3. Behind(fs)' => Pending(fs, n) # last_node
  <2>1. SUFFICES ASSUME Behind(fs)' PROVE Pending(fs, n) # last_node
    OBVIOUS
  <2>2. n > 0 /\ Len(Front(fs)) = n - 1 /\ fs[n] \in Frame
    BY <1>1, <2>1, FrontProperties DEF Behind, Awaits
  <2>3. fs = WithElse(fs)
    BY <1>1, <2>1, <2>2 DEF Behind
  <2>4. n \in DOMAIN fs /\ n \in 1 .. n
    BY <1>1, <2>2 DEF Awaits
  <2>5. WithElse(fs)[n] = Elsed(fs[n])
    BY <1>1, <2>4 DEF WithElse
  <2>6. Elsed(fs[n]).branch = "else"
    BY <2>2 DEF Elsed, Frame
  <2>7. fs[n].branch = "else" /\ WaitsAt(fs, n)
    BY <1>1, <2>3, <2>4, <2>5, <2>6 DEF Awaits, Waiting
  <2> QED
    BY <2>7 DEF WaitsAt
<1>4. todo' = <<EndIR>> => \A k \in 1 .. n : fs[k].kind = "mask"
  <2>1. DOMAIN fs = 1 .. n
    BY <1>1 DEF Awaits
  <2> QED
    BY <1>1, <2>1, EndIssued DEF Awaits, s_endpgm
<1>5. Believed(fs, w)'
  BY <1>1 DEF Believed
<1> QED
  BY <1>1, <1>2, <1>3, <1>4, <1>5 DEF Announced

\* Whatever the machine instruction, the pass knows what it will be at.
LEMMA IssuesTracked ==
  ASSUME MasksInv, Ready, Issues, UNCHANGED vars, active' = active, [KernelNext]_kvars,
         NEW fs, fs = frames, Tracked(fs)
  PROVE  Tracked(fs)' /\ \E w : w = waves /\ Believed(fs, w)'
<1>1. /\ TypeOK /\ FramesInv /\ HwInv /\ FramesInv'
  BY FramesKept DEF MasksInv, TypeInv
<1>2. Nested(fs, ifs) /\ fs \in Seq(Frame) /\ Len(fs) \in Nat
  BY <1>1, SavesOf DEF FramesInv
<1>3. Waiting(fs) /\ Phased(fs) /\ LabelsAhead /\ Rooted
  BY DEF Tracked
<1>4. Awaits(fs)
  BY <1>1, <1>2, <1>3 DEF Awaits
<1>5. /\ last_node' = last_node /\ Going' = Going /\ from_node' = from_node
      /\ Waiting(fs)' /\ Rooted' /\ \A k : Pending(fs, k)' = Pending(fs, k)
  BY <1>3, GraphStays
<1>6. Announced(fs)
  <2>1. CASE \E i \in Comparisons : If(i) /\ todo' = <<CmpIR(i), SaveIR(MaskFrame(i).save), NarrowIR, UseMask>>
    BY <1>4, <2>1, OpeningAnnounced
  <2>2. CASE \E i \in Comparisons, ir \in BranchIRs(2 * ifs + 1) : UniformIf(i) /\ todo' = <<FlagIR(i), ir>>
    BY <1>4, <2>2, OpeningAnnounced
  <2>3. CASE \/ Else /\ todo' = <<ElseIR(Top.save), UseMask>>
             \/ \E ir \in RestoreIRs(Top.save) : EndIf /\ todo' = <<ir, UseMask>>
             \/ UniformElse /\ todo' = <<JumpIR(Top.label + 1), LabelIR(Top.label)>>
             \/ UniformEndIf /\ todo' = <<LabelIR(Top.label)>>
    BY <1>4, <1>5, <2>3, ClosingAnnounced
  <2>4. CASE \E ir \in BodyIRs : todo' = <<ir>> /\ UNCHANGED <<frames, ifs, hw, waves>>
    BY <1>4, <2>4, BodyAnnounced
  <2> QED
    BY <2>1, <2>2, <2>3, <2>4 DEF Issues
<1>7. ifs \in Nat /\ (ifs' = ifs \/ ifs' = ifs + 1) /\ Labels \subseteq Nat
  <2>1. ifs' = ifs \/ ifs' = ifs + 1
    BY DEF Issues, If, UniformIf, Open, Else, EndIf, UniformElse, UniformEndIf
  <2> QED
    BY <1>1, <2>1, LabelsType DEF FramesInv
<1>8. LabelsAhead'
  <2>1. \A l \in Labels : l > 2 * ifs' => l > 2 * ifs
    <3>1. \A j, k, l \in Nat : (j = k \/ j = k + 1) /\ l > 2 * j => l > 2 * k
      OBVIOUS
    <3> QED
      BY <1>7, <3>1
  <2> QED
    BY <1>3, <1>5, <2>1 DEF LabelsAhead
<1>9. Going
  BY <1>3 DEF Phased, Ready
<1>10. Entering(fs)' /\ Top'.kind = "branch" =>
         from_node'[Top'.label] = <<>> /\ from_node'[Top'.label + 1] = <<>>
  <2>1. SUFFICES ASSUME Entering(fs)', Top'.kind = "branch"
                 PROVE  from_node'[Top'.label] = <<>> /\ from_node'[Top'.label + 1] = <<>>
    OBVIOUS
  <2>2. Top'.label \in Labels /\ Top'.label + 1 \in Labels /\ Top'.label > 2 * ifs
    BY <1>6, <2>1 DEF Announced
  <2>3. PICK l : l = Top'.label
    OBVIOUS
  <2>4. l \in Labels /\ l + 1 \in Labels /\ l > 2 * ifs /\ l + 1 > 2 * ifs
    <3>1. l \in Labels /\ l + 1 \in Labels /\ l > 2 * ifs /\ l \in Nat
      BY <1>7, <2>2, <2>3
    <3> QED
      BY <1>7, <3>1
  <2> QED
    BY <1>3, <1>5, <2>3, <2>4 DEF LabelsAhead
<1>11. Phased(fs)'
  BY <1>5, <1>6, <1>9, <1>10 DEF Phased, Announced
<1> QED
  BY <1>5, <1>6, <1>8, <1>11 DEF Tracked, Announced
------------------------------------------------------------------------------
(***************************************************************************)
(* The invariant.                                                          *)
(***************************************************************************)
Underway(fs, w, reach) ==
  /\ Lags(fs) /\ Tracked(fs) /\ Believed(fs, w) /\ Flow(fs, w, reach)
  /\ \A r \in ScalarSet : StaysKnown(r) => Versioned(fs, r)
Finished ==
  /\ Ended /\ todo = <<>> /\ Rooted /\ \E reach : Routed(reach)
  /\ \A r \in ScalarSet : StaysKnown(r) => VersionsDiffer(r)
PathsInv == ActiveInv /\ (Finished \/ (~Ended /\ \E fs, w, reach : Underway(fs, w, reach)))
\* An instruction but the last goes into the graph.
LEMMA StepUnderway ==
  ASSUME MasksInv, EdgesAgree, ActiveInv, Step, todo # <<EndIR>>, NEW fs, NEW w, NEW reach, Underway(fs, w, reach)
  PROVE  PathsInv'
<1>1. Knows(fs, w) /\ Flow(fs, w, reach)
  BY DEF Knows, Underway
<1>2. PICK gs, v : Lags(gs)' /\ Tracked(gs)' /\ Believed(gs, v)' /\ Moves(fs, gs, w, v)
  BY <1>1, StepContinues DEF Continues
<1>3. ActiveInv' /\ \E next : Flow(gs, v, next)'
  BY <1>1, <1>2, FlowContinues
<1>4. PICK next : Flow(gs, v, next)'
  BY <1>3
<1>5. ASSUME NEW r \in ScalarSet, StaysKnown(r)'
      PROVE  Versioned(gs, r)'
  <2>1. StaysKnown(r) => Versioned(fs, r)
    BY DEF Underway
  <2> QED
    BY <1>1, <1>2, <1>5, <2>1, VersionsContinue
<1>6. ~Ended'
  <2>1. \E op, ps : Added(op, ps) /\ op # "s_endpgm"
    BY <1>2 DEF Moves, Goes, Enters, TurnsAt, LeavesAt, GoOps, BodyOps
  <2> QED
    BY <2>1 DEF Added, Ended
<1>7. Underway(gs, v, next)'
  BY <1>2, <1>4, <1>5 DEF Underway
<1> QED
  BY <1>3, <1>6, <1>7 DEF PathsInv

\* The last one.
LEMMA StepFinishes ==
  ASSUME MasksInv, EdgesAgree, StackInv, ActiveInv, Step, todo = <<EndIR>>,
         NEW fs, NEW w, NEW reach, Underway(fs, w, reach)
  PROVE  PathsInv'
<1>1. Knows(fs, w) /\ Flow(fs, w, reach)
  BY DEF Knows, Underway
<1>2. ActiveInv' /\ Rooted' /\ \E next : Routed(next)'
  BY <1>1, EndFlow
<1>3. ASSUME NEW r \in ScalarSet, StaysKnown(r)'
      PROVE  VersionsDiffer(r)'
  <2>1. StaysKnown(r) => Versioned(fs, r)
    BY DEF Underway
  <2> QED
    BY <1>1, <1>3, <2>1, EndVersions
<1>4. Ended' /\ todo' = <<>>
  <2>1. \E ps : Added("s_endpgm", ps)
    BY <1>1, EndAdds
  <2>2. todo' = Tail(todo)
    BY DEF Step
  <2> QED
    BY <2>1, <2>2 DEF Added, Ended
<1> QED
  BY <1>2, <1>3, <1>4 DEF PathsInv, Finished

\* A machine instruction, or nothing.
LEMMA IssuesUnderway ==
  ASSUME MasksInv, ActiveInv, Ready, Issues, UNCHANGED vars, active' = active, [KernelNext]_kvars,
         NEW fs, NEW w, NEW reach, Underway(fs, w, reach)
  PROVE  PathsInv'
<1>1. fs = frames /\ w = waves
  BY ReadyKnows DEF Underway
<1>2. Tracked(fs)' /\ Believed(fs, w)'
  BY <1>1, IssuesTracked DEF Underway
<1>3. Lags(fs)'
  BY <1>1, IssuesLag
<1>4. Flow(fs, w, reach)' /\ ActiveInv' /\ Ended' = Ended
  BY LanesStay, GraphStays DEF Underway
<1>5. ASSUME NEW r \in ScalarSet, StaysKnown(r)'
      PROVE  Versioned(fs, r)'
  BY <1>5, VersionsStay DEF Underway
<1>6. Underway(fs, w, reach)'
  BY <1>2, <1>3, <1>4, <1>5 DEF Underway
<1> QED
  BY <1>4, <1>6 DEF PathsInv, Ready

LEMMA PathsStutter ==
  ASSUME PathsInv, UNCHANGED kvars
  PROVE  PathsInv'
<1>1. /\ UNCHANGED vars /\ active' = active /\ todo' = todo /\ frames' = frames /\ waves' = waves
      /\ ifs' = ifs /\ Top' = Top
  BY DEF kvars, hardware, Top
<1>2. /\ Ended' = Ended /\ ActiveInv' /\ last_node' = last_node /\ Going' = Going
      /\ from_node' = from_node /\ state' = state /\ (Rooted => Rooted')
      /\ (\A fs, k : Pending(fs, k)' = Pending(fs, k)) /\ (\A fs : Waiting(fs) => Waiting(fs)')
  BY <1>1, GraphStays DEF PathsInv
<1>3. CASE Finished
  <2>1. \E reach : Routed(reach)'
    BY <1>1, <1>3, LanesStay DEF Finished
  <2>2. \A r \in ScalarSet : StaysKnown(r)' => VersionsDiffer(r)'
    BY <1>1, <1>3, VersionsStay DEF Finished
  <2> QED
    BY <1>1, <1>2, <1>3, <2>1, <2>2 DEF PathsInv, Finished
<1>4. CASE ~Ended /\ \E fs, w, reach : Underway(fs, w, reach)
  <2>1. PICK fs, w, reach : Underway(fs, w, reach)
    BY <1>4
  <2>2. Lags(fs)' /\ Flow(fs, w, reach)'
    BY <1>1, <2>1, StutterLags, LanesStay DEF Underway
  <2>3. (Entering(fs)' <=> Entering(fs)) /\ (Behind(fs)' <=> Behind(fs))
    BY <1>1 DEF Entering, Behind
  <2>4. Phased(fs)' /\ LabelsAhead'
    BY <1>1, <1>2, <2>1, <2>3 DEF Underway, Tracked, Phased, LabelsAhead
  <2>5. Tracked(fs)'
    BY <1>2, <2>1, <2>4 DEF Underway, Tracked
  <2>6. Believed(fs, w)'
    BY <1>1, <1>2, <2>1, <2>3 DEF Underway, Believed, True
  <2>7. \A r \in ScalarSet : StaysKnown(r)' => Versioned(fs, r)'
    BY <1>1, <2>1, VersionsStay DEF Underway
  <2>8. Underway(fs, w, reach)'
    BY <2>2, <2>5, <2>6, <2>7 DEF Underway
  <2> QED
    BY <1>2, <1>4, <2>8 DEF PathsInv
<1> QED
  BY <1>3, <1>4 DEF PathsInv

LEMMA PathsKept == MasksInv /\ StackInv /\ EdgesAgree /\ PathsInv /\ [KernelNext]_kvars => PathsInv'
<1> SUFFICES ASSUME MasksInv, StackInv, EdgesAgree, PathsInv, [KernelNext]_kvars PROVE PathsInv'
  OBVIOUS
<1>1. CASE Step
  <2>1. ActiveInv /\ \E fs, w, reach : Underway(fs, w, reach)
    BY <1>1 DEF PathsInv, Finished, Step
  <2> QED
    BY <1>1, <2>1, StepUnderway, StepFinishes
<1>2. CASE Ready /\ Issues /\ UNCHANGED vars /\ ~Step /\ ~UNCHANGED kvars
  <2>1. active' = active
    BY <1>2 DEF KernelNext, If, Else, EndIf, UniformIf, UniformElse, UniformEndIf, Compute, Store,
                s_endpgm, Body, Issue
  <2>2. ActiveInv /\ \E fs, w, reach : Underway(fs, w, reach)
    BY <1>2 DEF PathsInv, Finished, Ready
  <2> QED
    BY <1>2, <2>1, <2>2, IssuesUnderway
<1>3. CASE UNCHANGED kvars
  BY <1>3, PathsStutter
<1> QED
  BY <1>1, <1>2, <1>3, StepsIssue

LEMMA PathsInit == KernelInit /\ TypeInv => PathsInv
<1> SUFFICES ASSUME KernelInit, TypeInv PROVE PathsInv
  OBVIOUS
<1>1. Init /\ todo = <<>> /\ frames = <<>> /\ waves = Lanes /\ active = <<Lanes>>
  BY DEF KernelInit
<1>2. /\ last_node = 1 /\ Nodes = {1} /\ instruction[1] = "root" /\ parent[1] = <<>> /\ children[1] = <<>>
      /\ state[1] = InitialState /\ versions = [r \in Regs |-> InitialState[r].ver]
      /\ from_node = [l \in Labels |-> <<>>] /\ running
  BY <1>1 DEF Init, last_node, Nodes, running
<1>3. ~Ended /\ Ready /\ Going
  BY <1>1, <1>2 DEF Ended, Ready, Going
<1>4. PICK fs, w : fs = <<>> /\ w = Lanes
  OBVIOUS
<1>5. Len(fs) = 0 /\ 1 .. Len(fs) = {} /\ fs = frames
  BY <1>1, <1>4
<1>6. Lags(fs)
  BY <1>3, <1>5, MasksInit, ReadyLevel DEF Lags
<1>7. Tracked(fs)
  <2>1. Waiting(fs)
    BY <1>5 DEF Waiting
  <2>2. Phased(fs)
    BY <1>1, <1>3, <1>4, <1>5 DEF Phased, Entering, Behind
  <2>3. LabelsAhead
    BY <1>2 DEF LabelsAhead
  <2>4. Rooted
    BY <1>2 DEF Rooted
  <2> QED
    BY <2>1, <2>2, <2>3, <2>4 DEF Tracked
<1>8. Believed(fs, w)
  BY <1>1, <1>4, <1>5 DEF Believed
<1>9. PICK reach : reach = [n \in {1} |-> Lanes]
  OBVIOUS
<1>10. Flow(fs, w, reach)
  <2>1. Condition_of(1) = {}
    BY <1>2 DEF Condition_of
  <2>2. ToFirst(reach, 1) = Lanes /\ ToSecond(reach, 1) = {}
    BY <1>9, <2>1 DEF ToFirst, ToSecond, Satisfies
  <2>3. Inside(fs, w, 0) = Lanes
    <3>1. PICK n \in Nat : n = 0
      OBVIOUS
    <3>2. Inside(fs, w, n) = {l \in Lanes : l \in w /\ Satisfies(l, Cond(fs, n))}
      BY <1>5, <3>1, InsideTop
    <3>3. Cond(fs, 0) = {}
      BY DEF Cond
    <3> QED
      BY <1>4, <3>1, <3>2, <3>3 DEF Satisfies
  <2>4. Graphed(reach)
    BY <1>2, <1>9 DEF Graphed, Effects
  <2> QED
    BY <1>2, <1>5, <2>2, <2>3, <2>4 DEF Flow
<1>11. ASSUME NEW r \in ScalarSet
       PROVE  Versioned(fs, r)
  <2>1. Ver(1, r) = versions[r] /\ versions[r] \in Nat
    <3>1. r \in Regs
      BY KernelRegs
    <3> QED
      BY <1>2, <3>1 DEF Ver, InitialState
  <2>2. VersionsDiffer(r)
    BY <1>2 DEF VersionsDiffer
  <2> QED
    BY <1>2, <2>1, <2>2 DEF Versioned, Newest
<1>12. ActiveInv
  <2>1. Len(active) = 1 /\ active \in Seq(SUBSET Lanes)
    BY <1>1
  <2> QED
    BY <1>2, <2>1 DEF ActiveInv
<1> QED
  BY <1>3, <1>6, <1>7, <1>8, <1>10, <1>11, <1>12 DEF PathsInv, Underway

\* For every kernel the lanes go through the graph as they do through the program.
THEOREM PathsCorrect == KernelSpec => []PathsInv
<1>1. KernelInit /\ TypeInv => PathsInv
  BY PathsInit
<1>2. MasksInv /\ StackInv /\ EdgesAgree /\ PathsInv /\ [KernelNext]_kvars => PathsInv'
  BY PathsKept
<1> QED
  BY <1>1, <1>2, MasksCorrect, KernelIsInstructionList, TypeCorrect, StackCorrect, EdgesAgreeCorrect,
     PTL DEF KernelSpec

------------------------------------------------------------------------------
(***************************************************************************)
(* What follows for kernels of any size.                                   *)
(***************************************************************************)
\* In the finished graph every lane runs through exactly the computations and stores that the
\* hardware executes for it: the parents that cfg.py gives to the changes of the mask, to labels and
\* to s_endpgm, and the order of a node's children, print the program that the machine runs.
THEOREM PathsAgreeCorrect == KernelSpec => []PathsAgree
<1>1. TypeInv /\ EdgesAgree /\ PathsInv => PathsAgree
  <2>1. CASE ~Ended
    BY <2>1 DEF PathsAgree
  <2>2. CASE TypeInv /\ EdgesAgree /\ Rooted /\ Ended /\ \E reach : Routed(reach)
    BY <2>2, RoutedAgree DEF TypeInv
  <2> QED
    BY <2>1, <2>2 DEF PathsInv, Finished
<1> QED
  BY <1>1, PathsCorrect, KernelIsInstructionList, TypeCorrect, EdgesAgreeCorrect, PTL

\* Every definition and every merge of a register that stays known gives it a version of its own:
\* find_max_and_prev_versions and make_version never give out a version twice.
THEOREM VersionsUniqueCorrect == KernelSpec => []VersionsUnique
<1>1. PathsInv => VersionsUnique
  BY DEF PathsInv, Finished, VersionsUnique
<1> QED
  BY <1>1, PathsCorrect, PTL
==============================================================================
