------------------------- MODULE PtxPredicatesProofs -------------------------
(***************************************************************************)
(* For every kernel of every length, however its predicates and branches   *)
(* lie: the masked regions that the predicate pass makes are straight, and *)
(* the masked program takes the steps of the predicated one, the safety    *)
(* half of MasksImplementPredicates.                                       *)
(***************************************************************************)
EXTENDS PtxPredicates, SequenceTheorems, TLAPS

\* What the pass makes: instructions of the kernel, and the masks around them.
Made == [op : {"do", "setp", "bra", "label", "change_mask", "unmask"},
         predicate : Guards, negated : BOOLEAN, name : Guards \cup Labels, n : Nat]

Straight(s) ==
  \A j, k \in DOMAIN s :
    (j < k /\ s[j].op = "change_mask" /\ is_control_flow(s[k])) =>
      \E m \in j .. k : s[m].op = "unmask"

Closed(s) ==
  \A j \in DOMAIN s : s[j].op = "change_mask" => \E m \in j .. Len(s) : s[m].op = "unmask"

\* A mask is open exactly as long as `open' says; without that the next label
\* could be put inside.
PassInv ==
  /\ next \in Nat \ {0}
  /\ code \in Seq(Kinds)
  /\ instructions \in Seq(Made)
  /\ open \in Guards
  /\ Straight(instructions)
  /\ open = None => Closed(instructions)

------------------------------------------------------------------------------
(***************************************************************************)
(* Adding one instruction.                                                 *)
(***************************************************************************)
\* What is neither a branch nor a label can follow anything.
LEMMA AppendStraight ==
  ASSUME NEW s \in Seq(Made), NEW e \in Made, Straight(s), ~is_control_flow(e)
  PROVE  Append(s, e) \in Seq(Made) /\ Straight(Append(s, e))
<1> DEFINE t == Append(s, e)
<1>1. t \in Seq(Made) /\ Len(t) = Len(s) + 1 /\ t[Len(t)] = e /\ \A i \in 1 .. Len(s) : t[i] = s[i]
  BY AppendProperties
<1>2. ASSUME NEW j \in DOMAIN t, NEW k \in DOMAIN t,
             j < k, t[j].op = "change_mask", is_control_flow(t[k])
      PROVE  \E m \in j .. k : t[m].op = "unmask"
  <2>1. Len(s) \in Nat /\ DOMAIN s = 1 .. Len(s) /\ DOMAIN t = 1 .. Len(t)
    BY <1>1, LenProperties
  <2>2. k # Len(t)
    BY <1>1, <1>2
  <2>3. j \in DOMAIN s /\ k \in DOMAIN s /\ t[j] = s[j] /\ t[k] = s[k]
    BY <1>1, <1>2, <2>1, <2>2
  <2>4. PICK m \in j .. k : s[m].op = "unmask"
    BY <1>2, <2>3 DEF Straight
  <2>5. m \in 1 .. Len(s)
    BY <2>1, <2>3
  <2> QED
    BY <1>1, <2>4, <2>5
<1> QED
  BY <1>1, <1>2 DEF Straight

\* An Unmask closes everything.
LEMMA AppendUnmask ==
  ASSUME NEW s \in Seq(Made), Straight(s)
  PROVE  Append(s, Unmask) \in Seq(Made) /\ Straight(Append(s, Unmask)) /\ Closed(Append(s, Unmask))
<1>1. Unmask \in Made /\ Unmask.op = "unmask" /\ ~is_control_flow(Unmask)
  BY DEF Unmask, Made, Guards, is_control_flow
<1>2. Append(s, Unmask) \in Seq(Made) /\ Straight(Append(s, Unmask))
  BY <1>1, AppendStraight
<1>3. Append(s, Unmask)[Len(Append(s, Unmask))].op = "unmask"
  BY <1>1, AppendProperties
<1>4. Closed(Append(s, Unmask))
  BY <1>2, <1>3, LenProperties DEF Closed
<1> QED
  BY <1>2, <1>4

\* Behind closed masks there is room for everything but a mask.
LEMMA AppendClosed ==
  ASSUME NEW s \in Seq(Made), NEW e \in Made, Straight(s), Closed(s), e.op # "change_mask"
  PROVE  Append(s, e) \in Seq(Made) /\ Straight(Append(s, e)) /\ Closed(Append(s, e))
<1> DEFINE t == Append(s, e)
<1>1. t \in Seq(Made) /\ Len(t) = Len(s) + 1 /\ t[Len(t)] = e /\ \A i \in 1 .. Len(s) : t[i] = s[i]
  BY AppendProperties
<1>2. Len(s) \in Nat /\ DOMAIN s = 1 .. Len(s) /\ DOMAIN t = 1 .. Len(t)
  BY <1>1, LenProperties
<1>3. ASSUME NEW j \in DOMAIN t, t[j].op = "change_mask"
      PROVE  \E m \in j .. Len(s) : t[m].op = "unmask"
  <2>1. j \in DOMAIN s /\ t[j] = s[j]
    BY <1>1, <1>2, <1>3
  <2>2. PICK m \in j .. Len(s) : s[m].op = "unmask"
    BY <1>3, <2>1 DEF Closed
  <2> QED
    BY <1>1, <1>2, <2>1, <2>2
<1>4. Closed(t)
  BY <1>1, <1>2, <1>3 DEF Closed
<1>5. ASSUME NEW j \in DOMAIN t, NEW k \in DOMAIN t,
             j < k, t[j].op = "change_mask", is_control_flow(t[k])
      PROVE  \E m \in j .. k : t[m].op = "unmask"
  <2>1. CASE k = Len(t)
    BY <1>1, <1>2, <1>3, <1>5, <2>1
  <2>2. CASE k # Len(t)
    <3>1. j \in DOMAIN s /\ k \in DOMAIN s /\ t[j] = s[j] /\ t[k] = s[k]
      BY <1>1, <1>2, <1>5, <2>2
    <3>2. PICK m \in j .. k : s[m].op = "unmask"
      BY <1>5, <3>1 DEF Straight
    <3> QED
      BY <1>1, <1>2, <3>1, <3>2
  <2> QED
    BY <2>1, <2>2
<1> QED
  BY <1>1, <1>4, <1>5 DEF Straight

------------------------------------------------------------------------------
(***************************************************************************)
(* The steps of the pass.                                                  *)
(***************************************************************************)
LEMMA KindFields ==
  ASSUME NEW i \in Kinds
  PROVE  /\ i.op \in {"do", "setp", "bra", "label"} /\ i.predicate \in Guards
         /\ i.negated \in BOOLEAN /\ i.name \in Guards \cup Labels
BY DEF Kinds, Guards

LEMMA KindsMade ==
  ASSUME NEW i \in Kinds, NEW n \in Nat
  PROVE  /\ Masked(i, n) \in Made /\ Plain(i, n) \in Made
         /\ Masked(i, n).op = i.op /\ Plain(i, n).op = i.op
         /\ i.op # "change_mask" /\ i.predicate \in Guards
<1>1. i.op \in {"do", "setp", "bra", "label"} /\ i.predicate \in Guards /\ i.negated \in BOOLEAN
      /\ i.name \in Guards \cup Labels
  BY KindFields
<1>2. None \in Guards
  BY DEF Guards
<1>3. Masked(i, n) \in Made /\ Masked(i, n).op = i.op
  BY <1>1, <1>2 DEF Masked, Made
<1>4. Plain(i, n) \in Made /\ Plain(i, n).op = i.op
  <2> DEFINE m == Masked(i, n)
  <2>1. m \in Made /\ m.op = i.op /\ Plain(i, n) = [m EXCEPT !.predicate = i.predicate, !.negated = i.negated]
    BY <1>3 DEF Plain
  <2> HIDE DEF m
  <2> QED
    BY <1>1, <2>1 DEF Made
<1> QED
  BY <1>1, <1>3, <1>4

\* What is open is closed.
LEMMA ClosingCloses ==
  ASSUME NEW s \in Seq(Made), Straight(s), open = None => Closed(s)
  PROVE  s \o Closing \in Seq(Made) /\ Straight(s \o Closing) /\ Closed(s \o Closing)
<1>1. CASE open = None
  <2>1. s \o Closing = s
    BY <1>1, ConcatEmptySeq DEF Closing
  <2> QED
    BY <1>1, <2>1
<1>2. CASE open # None
  <2>1. s \o Closing = Append(s, Unmask)
    BY <1>2, AppendIsConcat DEF Closing
  <2> QED
    BY <2>1, AppendUnmask
<1> QED
  BY <1>1, <1>2

LEMMA PassOverStep ==
  ASSUME PassInv, PassOver
  PROVE  PassInv'
<1> DEFINE s == instructions \o Closing
           e == Plain(code[next], next)
<1>1. code[next] \in Kinds
  BY DEF PassInv, PassOver, Reading
<1>2. e \in Made /\ e.op # "change_mask"
  BY <1>1, KindsMade DEF PassInv
<1>3. s \in Seq(Made) /\ Straight(s) /\ Closed(s)
  BY ClosingCloses DEF PassInv
<1>4. instructions' = Append(s, e)
  BY <1>2, <1>3, AppendIsConcat DEF PassOver, CloseBefore
<1>5. instructions' \in Seq(Made) /\ Straight(instructions') /\ Closed(instructions')
  BY <1>2, <1>3, <1>4, AppendClosed
<1>6. next' \in Nat \ {0} /\ code' = code /\ open' = None /\ None \in Guards
  BY DEF PassInv, PassOver, Advance, Guards
<1> QED
  BY <1>5, <1>6 DEF PassInv, Straight, Closed

LEMMA CoverStep ==
  ASSUME PassInv, Cover
  PROVE  PassInv'
<1> DEFINE p == code[next].predicate
           s == instructions \o Opening(p)
           e == Masked(code[next], next)
<1>1. code[next] \in Kinds
  BY DEF PassInv, Cover, Reading
<1>2. e \in Made /\ p \in Guards /\ p # None /\ ~is_control_flow(e)
  BY <1>1, KindsMade DEF PassInv, Cover, Unguarded, is_control_flow
<1>3. s \in Seq(Made) /\ Straight(s)
  <2>1. CASE open = p
    BY <2>1, ConcatEmptySeq DEF Opening, PassInv
  <2>2. CASE open # p
    <3> DEFINE c == instructions \o Closing
    <3>1. c \in Seq(Made) /\ Straight(c)
      BY ClosingCloses DEF PassInv
    <3>2. ChangeMask(p) \in Made /\ ~is_control_flow(ChangeMask(p))
      BY <1>2 DEF ChangeMask, Made, Guards, is_control_flow
    <3>3. Closing \in Seq(Made)
      <4>1. Unmask \in Made
        BY DEF Unmask, Made, Guards
      <4> QED
        BY <4>1, EmptySeq DEF Closing
    <3>4. s = Append(c, ChangeMask(p))
      BY <2>2, <3>1, <3>2, <3>3 DEF Opening, PassInv
    <3> QED
      BY <3>1, <3>2, <3>4, AppendStraight
  <2> QED
    BY <2>1, <2>2
<1>4. instructions' = Append(s, e)
  BY <1>2, <1>3, AppendIsConcat DEF Cover
<1>5. instructions' \in Seq(Made) /\ Straight(instructions')
  BY <1>2, <1>3, <1>4, AppendStraight
<1>6. next' \in Nat \ {0} /\ code' = code /\ open' = p
  BY DEF PassInv, Cover, Advance
<1> QED
  BY <1>2, <1>5, <1>6 DEF PassInv, Straight

LEMMA FinishStep ==
  ASSUME PassInv, Finish
  PROVE  PassInv'
<1>1. instructions' \in Seq(Made) /\ Straight(instructions') /\ Closed(instructions')
  BY ClosingCloses DEF PassInv, Finish
<1>2. next' = next /\ code' = code /\ open' = None /\ None \in Guards
  BY DEF Finish, Guards
<1> QED
  BY <1>1, <1>2 DEF PassInv, Straight, Closed

\* In the program that the predicate pass leaves, no branch and no label lies
\* between a ChangeMask and its Unmask, whatever the kernel: a mask is entered
\* at its start and left at its end (predicates.py PTXPredicatesPass).
THEOREM MasksStraight == Spec => []MaskedRunsAreStraight
<1>1. Init => PassInv
  <2> SUFFICES ASSUME Init PROVE PassInv
    OBVIOUS
  <2>1. code \in Seq(Kinds)
    BY MaxCodeAssumption DEF Init
  <2>2. instructions = <<>> /\ next = 1 /\ open = None /\ <<>> \in Seq(Made) /\ DOMAIN <<>> = {}
    BY EmptySeq DEF Init
  <2> QED
    BY <2>1, <2>2 DEF PassInv, Straight, Closed, Guards
<1>2. PassInv /\ [Next]_vars => PassInv'
  <2> SUFFICES ASSUME PassInv, [Next]_vars PROVE PassInv'
    OBVIOUS
  <2>1. CASE PassOver
    BY <2>1, PassOverStep
  <2>2. CASE Cover
    BY <2>2, CoverStep
  <2>3. CASE CoverNegated \/ Run \/ UNCHANGED vars
    <3>1. UNCHANGED <<code, next, instructions, open>>
      BY <2>3 DEF CoverNegated, Run, vars, pass
    <3> QED
      BY <3>1 DEF PassInv, Straight, Closed
  <2>4. CASE Finish
    BY <2>4, FinishStep
  <2> QED
    BY <2>1, <2>2, <2>3, <2>4 DEF Next, Pass
<1>3. PassInv => MaskedRunsAreStraight
  BY DEF PassInv, Straight, MaskedRunsAreStraight
<1> QED
  BY <1>1, <1>2, <1>3, PTL DEF Spec
------------------------------------------------------------------------------
(***************************************************************************)
(* A prefix s of the masked program that stands for the first N            *)
(* instructions of the kernel; masks[k] is the predicate whose mask is     *)
(* open before the instruction k, and g the one open at the end.           *)
(***************************************************************************)
Mask == {"change_mask", "unmask"}

After(g, i) == IF i.op = "change_mask" THEN i.name ELSE IF i.op = "unmask" THEN None ELSE g

\* An instruction stands for that of the kernel, under its guard or its mask.
Mirrors(i, g) ==
  LET c == code[i.n]
  IN  /\ i.op = c.op /\ i.name = c.name
      /\ g = None => i.predicate = c.predicate /\ i.negated = c.negated
      /\ g # None => i.predicate = None /\ c.predicate = g /\ c.negated = FALSE /\ ~is_control_flow(c)

MasksOf(s, masks, g) ==
  /\ masks \in [1 .. Len(s) + 1 -> Guards]
  /\ masks[1] = None /\ masks[Len(s) + 1] = g
  /\ \A k \in 1 .. Len(s) : masks[k + 1] = After(masks[k], s[k])

Entry(i, g, N) ==
  /\ i.op \in Mask => i.n = 0
  /\ i.op = "change_mask" => i.name \in Registers
  /\ i.op \notin Mask => i.n \in 1 .. N /\ Mirrors(i, g)

Entries(s, masks, N) == \A k \in 1 .. Len(s) : Entry(s[k], masks[k], N)

Covered(s, N) ==
  /\ \A j, k \in 1 .. Len(s) : (j < k /\ s[j].n > 0 /\ s[k].n > 0) => s[j].n < s[k].n
  /\ \A n \in 1 .. N : \E k \in 1 .. Len(s) : s[k].n = n

\* An instruction that sets the predicate of its mask is the last under it.
Own(i, g) == g # None /\ i.op = "setp" /\ i.name = g
OwnLast(s, masks) == \A k \in 1 .. Len(s) : (Own(s[k], masks[k]) /\ k < Len(s)) => s[k + 1].op = "unmask"

\* Under an open mask the last instruction is the newest, or opened the mask.
Recent(s, g, N) ==
  g # None => Len(s) > 0 /\ (s[Len(s)].op = "change_mask" \/ s[Len(s)].n = N)

Layout(s, masks, g, N) ==
  /\ s \in Seq(Made) /\ N \in Nat /\ N <= Len(code)
  /\ MasksOf(s, masks, g) /\ Entries(s, masks, N) /\ Covered(s, N)
  /\ OwnLast(s, masks) /\ Recent(s, g, N)

------------------------------------------------------------------------------
(***************************************************************************)
(* Adding an instruction.                                                  *)
(***************************************************************************)
Extended(s, masks, h) == [k \in 1 .. Len(s) + 2 |-> IF k = Len(s) + 2 THEN h ELSE masks[k]]

LEMMA Extends ==
  ASSUME NEW s \in Seq(Made), NEW masks, NEW g \in Guards, NEW N \in Nat, NEW M \in Nat, NEW e \in Made,
         Layout(s, masks, g, N), M \in {N, N + 1}, M <= Len(code),
         After(g, e) \in Guards,
         Entry(e, g, M),
         e.op \in Mask => M = N,
         e.op \notin Mask => M = N + 1 /\ e.n = M,
         g # None /\ e.op # "unmask" => ~Own(s[Len(s)], masks[Len(s)])
  PROVE  Layout(Append(s, e), Extended(s, masks, After(g, e)), After(g, e), M)
<1> DEFINE t == Append(s, e)
           L == Len(s)
           h == After(g, e)
           new == Extended(s, masks, h)
<1>1. L \in Nat /\ t \in Seq(Made) /\ Len(t) = L + 1 /\ t[L + 1] = e /\ \A k \in 1 .. L : t[k] = s[k]
  BY AppendProperties, LenProperties
<1>2. /\ masks \in [1 .. L + 1 -> Guards] /\ masks[1] = None /\ masks[L + 1] = g
      /\ \A k \in 1 .. L : masks[k + 1] = After(masks[k], s[k])
  BY DEF Layout, MasksOf
<1>3. /\ new \in [1 .. L + 2 -> Guards] /\ new[L + 2] = h
      /\ \A k \in 1 .. L + 1 : new[k] = masks[k]
  <2>1. \A k \in 1 .. L + 2 : (IF k = L + 2 THEN h ELSE masks[k]) \in Guards
    BY <1>1, <1>2
  <2> HIDE DEF h
  <2> QED
    BY <1>1, <1>2, <2>1 DEF Extended
<1> HIDE DEF new, t
<1>4. MasksOf(t, new, h)
  <2>1. ASSUME NEW k \in 1 .. L + 1 PROVE new[k + 1] = After(new[k], t[k])
    <3>1. CASE k = L + 1
      <4>1. new[k + 1] = h /\ new[k] = g /\ t[k] = e
        BY <1>1, <1>2, <1>3, <3>1
      <4> QED
        BY <4>1
    <3>2. CASE k # L + 1
      <4>1. k \in 1 .. L /\ k + 1 \in 1 .. L + 1
        BY <1>1, <3>2
      <4>2. new[k + 1] = masks[k + 1] /\ new[k] = masks[k] /\ t[k] = s[k]
        BY <1>1, <1>3, <4>1
      <4> QED
        BY <1>2, <4>1, <4>2
    <3> QED
      BY <3>1, <3>2
  <2> HIDE DEF h
  <2> QED
    BY <1>1, <1>2, <1>3, <2>1 DEF MasksOf
<1>5. Entries(t, new, M)
  <2>1. ASSUME NEW k \in 1 .. L + 1 PROVE Entry(t[k], new[k], M)
    <3>1. CASE k = L + 1
      BY <1>1, <1>2, <1>3, <3>1
    <3>2. CASE k # L + 1
      <4>1. k \in 1 .. L /\ t[k] = s[k] /\ new[k] = masks[k]
        BY <1>1, <1>3, <3>2
      <4>2. Entry(s[k], masks[k], N)
        BY <4>1 DEF Layout, Entries
      <4>3. 1 .. N \subseteq 1 .. M
        OBVIOUS
      <4> QED
        BY <4>1, <4>2, <4>3 DEF Entry
    <3> QED
      BY <3>1, <3>2
  <2> QED
    BY <1>1, <2>1 DEF Entries
<1>6. Covered(t, M)
  <2>1. \A k \in 1 .. L : s[k].n \in Nat /\ s[k].n <= N
    BY DEF Layout, Entries, Entry, Made
  <2>2. ASSUME NEW j \in 1 .. L + 1, NEW k \in 1 .. L + 1, j < k, t[j].n > 0, t[k].n > 0
        PROVE  t[j].n < t[k].n
    <3>1. j \in 1 .. L /\ t[j] = s[j]
      BY <1>1, <2>2
    <3>2. CASE k = L + 1
      <4>1. t[k] = e /\ e.n > 0
        BY <1>1, <2>2, <3>2
      <4>2. e.n = N + 1
        BY <4>1 DEF Entry
      <4> QED
        BY <2>1, <3>1, <4>1, <4>2
    <3>3. CASE k # L + 1
      <4>1. k \in 1 .. L /\ t[k] = s[k]
        BY <1>1, <3>3
      <4> QED
        BY <2>2, <3>1, <4>1 DEF Layout, Covered
    <3> QED
      BY <3>2, <3>3
  <2>3. ASSUME NEW n \in 1 .. M PROVE \E k \in 1 .. L + 1 : t[k].n = n
    <3>1. CASE n \in 1 .. N
      <4>1. PICK k \in 1 .. L : s[k].n = n
        BY <3>1 DEF Layout, Covered
      <4> QED
        BY <1>1, <4>1
    <3>2. CASE n \notin 1 .. N
      <4>1. n = M /\ e.op \notin Mask
        BY <3>2
      <4> QED
        BY <1>1, <4>1
    <3> QED
      BY <3>1, <3>2
  <2> QED
    BY <1>1, <2>2, <2>3 DEF Covered
<1>7. OwnLast(t, new)
  <2>1. ASSUME NEW k \in 1 .. L + 1, Own(t[k], new[k]), k < L + 1 PROVE t[k + 1].op = "unmask"
    <3>1. k \in 1 .. L /\ t[k] = s[k] /\ new[k] = masks[k]
      BY <1>1, <1>3, <2>1
    <3>2. CASE k = L
      <4>1. masks[L] = g /\ g # None
        <5>1. masks[L + 1] = After(masks[L], s[L]) /\ s[L].op = "setp" /\ masks[L] # None
          BY <1>2, <2>1, <3>1, <3>2 DEF Own
        <5> QED
          BY <1>2, <5>1 DEF After
      <4>2. e.op = "unmask"
        BY <2>1, <3>1, <3>2, <4>1
      <4> QED
        BY <1>1, <3>2, <4>2
    <3>3. CASE k # L
      <4>1. k < L /\ k + 1 \in 1 .. L
        BY <1>1, <3>1, <3>3
      <4>2. s[k + 1].op = "unmask"
        BY <2>1, <3>1, <4>1 DEF Layout, OwnLast
      <4> QED
        BY <1>1, <4>1, <4>2
    <3> QED
      BY <3>2, <3>3
  <2> QED
    BY <1>1, <2>1 DEF OwnLast
<1>8. Recent(t, h, M)
  BY <1>1 DEF Recent, After, Mask
<1> QED
  BY <1>1, <1>4, <1>5, <1>6, <1>7, <1>8 DEF Layout, t, new

\* What is added under a predicate is not added behind an instruction that set it.
LEMMA AddUnmask ==
  ASSUME NEW s, NEW masks, NEW g \in Guards, NEW N, Layout(s, masks, g, N)
  PROVE  \E new : Layout(Append(s, Unmask), new, None, N)
<1>1. s \in Seq(Made) /\ N \in Nat /\ N <= Len(code)
  BY DEF Layout
<1>2. Unmask \in Made /\ Unmask.op = "unmask" /\ Unmask.n = 0 /\ None \in Guards
  BY DEF Unmask, Made, Guards
<1>3. After(g, Unmask) = None /\ Entry(Unmask, g, N) /\ Unmask.op \in Mask
  BY <1>2 DEF After, Entry, Mask
<1>4. Layout(Append(s, Unmask), Extended(s, masks, After(g, Unmask)), After(g, Unmask), N)
  BY <1>1, <1>2, <1>3, Extends
<1> QED
  BY <1>3, <1>4

LEMMA AddMask ==
  ASSUME NEW s, NEW masks, NEW N, NEW r \in Registers, Layout(s, masks, None, N)
  PROVE  /\ \E new : Layout(Append(s, ChangeMask(r)), new, r, N)
         /\ Append(s, ChangeMask(r))[Len(Append(s, ChangeMask(r)))].op = "change_mask"
<1> DEFINE e == ChangeMask(r)
<1>1. s \in Seq(Made) /\ N \in Nat /\ N <= Len(code)
  BY DEF Layout
<1>2. None \in Guards /\ r \in Guards
  BY DEF Guards
<1>3. e \in Made /\ e.op = "change_mask" /\ e.n = 0 /\ e.name = r
  BY <1>2 DEF ChangeMask, Made
<1> HIDE DEF e
<1>4. After(None, e) = r /\ Entry(e, None, N) /\ e.op \in Mask
  BY <1>3 DEF After, Entry, Mask
<1>5. Layout(Append(s, e), Extended(s, masks, After(None, e)), After(None, e), N)
  BY <1>1, <1>2, <1>3, <1>4, Extends
<1>6. Append(s, e)[Len(Append(s, e))] = e
  BY <1>1, <1>3, AppendProperties
<1> QED
  BY <1>3, <1>4, <1>5, <1>6 DEF e

LEMMA AddSource ==
  ASSUME NEW s, NEW masks, NEW g \in Guards, NEW N, NEW e \in Made, Layout(s, masks, g, N),
         N < Len(code), e.op \notin Mask, e.n = N + 1, Mirrors(e, g),
         g # None => ~Own(s[Len(s)], masks[Len(s)])
  PROVE  \E new : Layout(Append(s, e), new, g, N + 1)
<1>1. s \in Seq(Made) /\ N \in Nat
  BY DEF Layout
<1>3. After(g, e) = g
  BY DEF After, Mask
<1>4. Entry(e, g, N + 1)
  BY <1>1 DEF Entry, Mask
<1>5. N + 1 \in Nat /\ e.n \in Nat
  BY <1>1
<1> QED
  BY <1>1, <1>3, <1>4, <1>5, Extends

LEMMA ClosingLayout ==
  ASSUME NEW s, NEW masks, NEW N, open \in Guards, Layout(s, masks, open, N)
  PROVE  \E new : Layout(s \o Closing, new, None, N)
<1>1. s \in Seq(Made)
  BY DEF Layout
<1>2. CASE open = None
  BY <1>1, <1>2, ConcatEmptySeq DEF Closing
<1>3. CASE open # None
  <2>1. s \o Closing = Append(s, Unmask)
    <3>1. Unmask \in Made
      BY DEF Unmask, Made, Guards
    <3> QED
      BY <1>1, <1>3, <3>1, AppendIsConcat DEF Closing
  <2> QED
    BY <2>1, AddUnmask
<1> QED
  BY <1>2, <1>3

------------------------------------------------------------------------------
(***************************************************************************)
(* The invariant.  While the masked program runs, the mask is the value of *)
(* the predicate it was opened for, unless it is about to be closed.       *)
(***************************************************************************)
Holds(g) == g = None \/ value[g] = TRUE

Running(masks) ==
  IF outcome # "done" THEN pc = 1 /\ mask = TRUE /\ log = <<>>
  ELSE /\ next = Len(code) + 1 /\ open = None
       /\ pc \in 1 .. Len(instructions) + 1
       /\ \/ mask <=> Holds(masks[pc])
          \/ pc \in 1 .. Len(instructions) /\ instructions[pc].op = "unmask"

StepsInv ==
  /\ code \in Seq(Kinds) /\ WellFormed(code)
  /\ next \in 1 .. Len(code) + 1
  /\ open \in Guards
  /\ value \in [Registers -> BOOLEAN] /\ mask \in BOOLEAN
  /\ \E masks : Layout(instructions, masks, open, next - 1) /\ Running(masks)

LEMMA InitSteps ==
  ASSUME Init
  PROVE  StepsInv
<1>1. code \in Seq(Kinds) /\ WellFormed(code)
  BY MaxCodeAssumption DEF Init
<1>2. next = 1 /\ open = None /\ instructions = <<>> /\ None \in Guards /\ 1 - 1 = 0
  BY DEF Init, Guards
<1>3. Len(code) \in Nat
  BY <1>1, LenProperties
<1>4. value \in [Registers -> BOOLEAN] /\ mask = TRUE /\ outcome = "running" /\ pc = 1 /\ log = <<>>
  BY DEF Init
<1>5. Layout(<<>>, [k \in 1 .. 1 |-> None], None, 0)
  <2>1. <<>> \in Seq(Made) /\ Len(<<>>) = 0
    BY EmptySeq
  <2> QED
    BY <1>2, <1>3, <2>1 DEF Layout, MasksOf, Entries, Covered, OwnLast, Recent
<1> QED
  BY <1>1, <1>2, <1>3, <1>4, <1>5 DEF StepsInv, Running

LEMMA PassOverSteps ==
  ASSUME StepsInv, PassOver
  PROVE  StepsInv'
<1> DEFINE s == instructions \o Closing
           e == Plain(code[next], next)
<1>1. PICK masks : Layout(instructions, masks, open, next - 1) /\ Running(masks)
  BY DEF StepsInv
<1>2. code \in Seq(Kinds) /\ Len(code) \in Nat /\ next \in 1 .. Len(code) /\ code[next] \in Kinds
  BY LenProperties DEF StepsInv, PassOver, Reading
<1>3. PICK closed : Layout(s, closed, None, next - 1)
  BY <1>1, ClosingLayout DEF StepsInv
<1>4. e \in Made /\ e.op \notin Mask
  <2>1. e \in Made /\ e.op = code[next].op
    BY <1>2, KindsMade
  <2>2. code[next].op \notin Mask
    BY <1>2, KindFields DEF Mask
  <2> QED
    BY <2>1, <2>2
<1>5. e.n = next /\ Mirrors(e, None)
  <2>1. e = [Masked(code[next], next) EXCEPT !.predicate = code[next].predicate, !.negated = code[next].negated]
    BY DEF Plain
  <2>2. e.n = next /\ e.op = code[next].op /\ e.name = code[next].name
        /\ e.predicate = code[next].predicate /\ e.negated = code[next].negated
    BY <2>1 DEF Masked
  <2> QED
    BY <2>2 DEF Mirrors
<1> HIDE DEF e
<1>6. PICK new : Layout(Append(s, e), new, None, next)
  <2>1. next - 1 < Len(code) /\ e.n = (next - 1) + 1 /\ (next - 1) + 1 = next /\ None \in Guards
    BY <1>2, <1>5 DEF Guards
  <2> QED
    BY <1>3, <1>4, <1>5, <2>1, AddSource
<1>7. instructions' = Append(s, e)
  <2>1. s \in Seq(Made)
    BY <1>3 DEF Layout
  <2> QED
    BY <1>4, <2>1, AppendIsConcat DEF PassOver, CloseBefore, e
<1>8. next' = next + 1 /\ next' - 1 = next /\ open' = None /\ None \in Guards
      /\ UNCHANGED <<code, pc, value, mask, log, outcome>> /\ outcome = "running"
  BY <1>2 DEF PassOver, Advance, Reading, run, Guards
<1>9. Layout(instructions, new, open, next - 1)'
  BY <1>6, <1>7, <1>8 DEF Layout, MasksOf, Entries, Entry, Mirrors, Covered, OwnLast, Recent
<1>10. Running(new)'
  BY <1>1, <1>8 DEF Running
<1>11. WellFormed(code)'
  BY <1>8 DEF StepsInv, WellFormed, SetsOwnGuard, Count
<1> QED
  BY <1>2, <1>8, <1>9, <1>10, <1>11 DEF StepsInv

LEMMA CoverSteps ==
  ASSUME StepsInv, Cover
  PROVE  StepsInv'
<1> DEFINE p == code[next].predicate
           s == instructions \o Opening(p)
           e == Masked(code[next], next)
<1>1. PICK masks : Layout(instructions, masks, open, next - 1) /\ Running(masks)
  BY DEF StepsInv
<1>2. code \in Seq(Kinds) /\ Len(code) \in Nat /\ next \in 1 .. Len(code) /\ code[next] \in Kinds
  BY LenProperties DEF StepsInv, Cover, Reading
<1>3. p \in Registers /\ p \in Guards /\ p # None
  BY <1>2, KindFields DEF Cover, Unguarded, Guards
<1>4. e \in Made /\ e.op \notin Mask
  <2>1. e \in Made /\ e.op = code[next].op
    BY <1>2, KindsMade
  <2>2. code[next].op \notin Mask
    BY <1>2, KindFields DEF Mask
  <2> QED
    BY <2>1, <2>2
<1>5. e.n = next /\ Mirrors(e, p)
  BY <1>2, <1>3, KindFields DEF Mirrors, Masked, Cover, Unguarded
<1>6. \E before : Layout(s, before, p, next - 1) /\ ~Own(s[Len(s)], before[Len(s)])
  <2>1. CASE open = p
    <3>1. s = instructions
      BY <1>1, <2>1, ConcatEmptySeq DEF Opening, Layout
    <3>2. ~Own(s[Len(s)], masks[Len(s)])
      <4> DEFINE k == Len(s)
      <4>1. SUFFICES ASSUME Own(s[k], masks[k]) PROVE FALSE
        OBVIOUS
      <4>2. k \in Nat /\ k > 0 /\ (s[k].op = "change_mask" \/ s[k].n = next - 1)
        BY <1>1, <1>3, <2>1, <3>1, LenProperties DEF Layout, Recent
      <4>3. s[k].op = "setp" /\ s[k].op \notin Mask /\ s[k].n = next - 1
        BY <4>1, <4>2 DEF Own, Mask
      <4>4. masks[k] = p
        BY <1>1, <2>1, <3>1, <4>2, <4>3 DEF Layout, MasksOf, After
      <4>5. next - 1 \in 1 .. next - 1 /\ Mirrors(s[k], p)
        BY <1>1, <3>1, <4>2, <4>3, <4>4 DEF Layout, Entries, Entry
      <4>6. code[next - 1].op = "setp" /\ code[next - 1].name = p /\ code[next - 1].predicate = p
        BY <1>3, <4>1, <4>3, <4>4, <4>5 DEF Mirrors, Own
      <4>7. next - 1 \in 1 .. Len(code) /\ next - 1 < Len(code) /\ (next - 1) + 1 = next
        BY <1>2, <4>5
      <4>8. SetsOwnGuard(code, next - 1)
        BY <4>6, <4>7 DEF SetsOwnGuard, Cover
      <4> QED
        BY <1>2, <4>7, <4>8, LenProperties DEF StepsInv, WellFormed
    <3> QED
      BY <1>1, <2>1, <3>1, <3>2
  <2>2. CASE open # p
    <3> DEFINE c == instructions \o Closing
    <3>1. PICK closed : Layout(c, closed, None, next - 1)
      BY <1>1, ClosingLayout DEF StepsInv
    <3>2. s = Append(c, ChangeMask(p))
      <4>1. Unmask \in Made /\ ChangeMask(p) \in Made
        BY <1>3 DEF Unmask, ChangeMask, Made, Guards
      <4>2. Closing \in Seq(Made) /\ instructions \in Seq(Made)
        BY <1>1, <4>1, EmptySeq DEF Closing, Layout
      <4> QED
        BY <2>2, <4>1, <4>2 DEF Opening
    <3>3. PICK before : Layout(s, before, p, next - 1)
      BY <1>3, <3>1, <3>2, AddMask
    <3>4. s[Len(s)].op = "change_mask"
      <4>1. Append(c, ChangeMask(p))[Len(Append(c, ChangeMask(p)))].op = "change_mask"
        BY <1>3, <3>1, AddMask
      <4> QED
        BY <3>2, <4>1
    <3> QED
      BY <3>3, <3>4 DEF Own
  <2> QED
    BY <2>1, <2>2
<1> HIDE DEF e
<1>7. PICK before : Layout(s, before, p, next - 1) /\ ~Own(s[Len(s)], before[Len(s)])
  BY <1>6
<1>8. PICK new : Layout(Append(s, e), new, p, next)
  <2>1. next - 1 < Len(code) /\ e.n = (next - 1) + 1 /\ (next - 1) + 1 = next
    BY <1>2, <1>5
  <2> QED
    BY <1>3, <1>4, <1>5, <1>7, <2>1, AddSource
<1>9. instructions' = Append(s, e)
  <2>1. s \in Seq(Made)
    BY <1>7 DEF Layout
  <2> QED
    BY <1>4, <2>1, AppendIsConcat DEF Cover, e
<1>10. next' = next + 1 /\ next' - 1 = next /\ open' = p
       /\ UNCHANGED <<code, pc, value, mask, log, outcome>> /\ outcome = "running"
  BY <1>2 DEF Cover, Advance, Reading, run
<1>11. Layout(instructions, new, open, next - 1)'
  BY <1>8, <1>9, <1>10 DEF Layout, MasksOf, Entries, Entry, Mirrors, Covered, OwnLast, Recent
<1>12. Running(new)'
  BY <1>1, <1>10 DEF Running
<1>13. WellFormed(code)'
  BY <1>10 DEF StepsInv, WellFormed, SetsOwnGuard, Count
<1> QED
  BY <1>2, <1>3, <1>10, <1>11, <1>12, <1>13 DEF StepsInv

LEMMA FinishSteps ==
  ASSUME StepsInv, Finish
  PROVE  StepsInv'
<1>1. PICK masks : Layout(instructions, masks, open, next - 1) /\ Running(masks)
  BY DEF StepsInv
<1>2. next = Len(code) + 1 /\ next' = next /\ open' = None /\ None \in Guards /\ outcome' = "done"
      /\ outcome = "running" /\ UNCHANGED <<code, pc, value, mask, log>>
  BY LenProperties DEF StepsInv, Finish, run, Guards
<1>3. PICK closed : Layout(instructions \o Closing, closed, None, next - 1)
  BY <1>1, ClosingLayout DEF StepsInv
<1>4. instructions' = instructions \o Closing
  BY DEF Finish
<1>5. Layout(instructions, closed, open, next - 1)'
  BY <1>2, <1>3, <1>4 DEF Layout, MasksOf, Entries, Entry, Mirrors, Covered, OwnLast, Recent
<1>6. Running(closed)'
  <2>1. pc' = 1 /\ mask' = TRUE
    BY <1>1, <1>2 DEF Running
  <2>2. closed[1] = None /\ Len(instructions') \in Nat
    BY <1>3, <1>4, LenProperties DEF Layout, MasksOf
  <2>3. 1 \in 1 .. Len(instructions') + 1
    BY <2>2
  <2> QED
    BY <1>2, <2>1, <2>2, <2>3 DEF Running, Holds
<1>7. WellFormed(code)'
  BY <1>2 DEF StepsInv, WellFormed, SetsOwnGuard, Count
<1> QED
  BY <1>2, <1>5, <1>6, <1>7 DEF StepsInv

\* What a step of the masked program leaves alone.
LEMMA LayoutStays ==
  ASSUME NEW masks, Layout(instructions, masks, open, next - 1), UNCHANGED <<code, next, instructions, open>>
  PROVE  Layout(instructions, masks, open, next - 1)'
BY DEF Layout, MasksOf, Entries, Entry, Mirrors, Covered, OwnLast, Recent

\* Facts about the instruction that is executed.
LEMMA AtCurrent ==
  ASSUME NEW masks, StepsInv, Layout(instructions, masks, open, next - 1), Running(masks), Executing
  PROVE  /\ Len(instructions) \in Nat /\ pc \in 1 .. Len(instructions) /\ pc + 1 \in 1 .. Len(instructions) + 1
         /\ next - 1 = Len(code) /\ Len(code) \in Nat /\ open = None /\ outcome = "done"
         /\ masks[pc] \in Guards /\ masks[pc + 1] = After(masks[pc], Current)
         /\ Entry(Current, masks[pc], Len(code)) /\ Current \in Made
         /\ Current.op # "unmask" => (mask <=> Holds(masks[pc]))
<1>1. outcome = "done" /\ next = Len(code) + 1 /\ open = None /\ pc <= Len(instructions)
      /\ pc \in 1 .. Len(instructions) + 1
  BY DEF Executing, Running
<1>2. Len(code) \in Nat /\ Len(instructions) \in Nat /\ instructions \in Seq(Made)
  BY LenProperties DEF StepsInv, Layout
<1>3. pc \in 1 .. Len(instructions) /\ next - 1 = Len(code)
  BY <1>1, <1>2
<1>4. Current \in Made /\ Entry(Current, masks[pc], Len(code)) /\ masks[pc] \in Guards
      /\ masks[pc + 1] = After(masks[pc], Current)
  BY <1>2, <1>3 DEF Layout, MasksOf, Entries, Current
<1>5. Current.op # "unmask" => (mask <=> Holds(masks[pc]))
  BY <1>1, <1>3 DEF Running, Current
<1> QED
  BY <1>1, <1>2, <1>3, <1>4, <1>5

LEMMA SwitchSteps ==
  ASSUME StepsInv, Switch, UNCHANGED pass
  PROVE  StepsInv'
<1>1. PICK masks : Layout(instructions, masks, open, next - 1) /\ Running(masks)
  BY DEF StepsInv
<1>2. UNCHANGED <<code, next, instructions, open, outcome>> /\ UNCHANGED <<value, log>> /\ pc' = pc + 1
      /\ Current.op \in Mask
  BY DEF Switch, pass, Mask
<1>3. mask' = (Current.op = "change_mask" => value[Current.name])
  BY DEF Switch
<1>4. Layout(instructions, masks, open, next - 1)'
  BY <1>1, <1>2, LayoutStays
<1>5. mask' \in BOOLEAN /\ (mask' <=> Holds(masks[pc + 1]))
  <2>1. masks[pc + 1] = After(masks[pc], Current) /\ Entry(Current, masks[pc], Len(code))
    BY <1>1, AtCurrent DEF Switch
  <2>2. CASE Current.op = "change_mask"
    <3>1. masks[pc + 1] = Current.name /\ Current.name \in Registers
      BY <2>1, <2>2 DEF After, Entry
    <3>2. Current.name # None
      BY <3>1 DEF Registers, None
    <3>3. value[Current.name] \in BOOLEAN
      BY <3>1 DEF StepsInv
    <3> QED
      BY <1>3, <2>2, <3>1, <3>2, <3>3, Zenon DEF Holds
  <2>3. CASE Current.op = "unmask"
    <3>1. masks[pc + 1] = None
      BY <2>1, <2>3 DEF After
    <3>2. mask' = TRUE
      BY <1>3, <2>3
    <3> QED
      BY <3>1, <3>2 DEF Holds
  <2> QED
    BY <1>2, <2>2, <2>3 DEF Mask
<1>6. Running(masks)'
  <2>1. outcome' = "done" /\ open' = None /\ next' = Len(code') + 1 /\ pc' \in 1 .. Len(instructions') + 1
    BY <1>1, <1>2, AtCurrent DEF Switch, Running
  <2>2. Holds(masks[pc])' <=> Holds(masks[pc + 1])
    BY <1>2 DEF Holds
  <2> QED
    BY <1>2, <1>5, <2>1 DEF Running, Holds
<1>7. WellFormed(code)'
  BY <1>2 DEF StepsInv, WellFormed, SetsOwnGuard, Count
<1> QED
  BY <1>2, <1>4, <1>5, <1>6, <1>7 DEF StepsInv

\* Positions of labels, in the kernel and in the masked program.
LEMMA LabelPosition ==
  ASSUME NEW masks, StepsInv, Layout(instructions, masks, open, next - 1), Running(masks), Executing,
         Current.op = "bra"
  PROVE  /\ Position(Current.name) \in 1 .. Len(instructions)
         /\ masks[Position(Current.name)] = None
         /\ instructions[Position(Current.name)].op = "label"
         /\ instructions[Position(Current.name)].n \in 1 .. Len(code)
         /\ code[instructions[Position(Current.name)].n].op = "label"
         /\ code[instructions[Position(Current.name)].n].name = Current.name
<1> DEFINE l == Current.name
           IsLabel(k) == k \in DOMAIN instructions /\ instructions[k].op = "label" /\ instructions[k].name = l
<1>1. /\ Len(instructions) \in Nat /\ next - 1 = Len(code) /\ Len(code) \in Nat
      /\ Entry(Current, masks[pc], Len(code))
      /\ DOMAIN instructions = 1 .. Len(instructions) /\ DOMAIN code = 1 .. Len(code)
  BY AtCurrent, LenProperties DEF Layout, StepsInv
<1>2. Current.n \in 1 .. Len(code) /\ code[Current.n].op = "bra" /\ code[Current.n].name = l
  BY <1>1 DEF Entry, Mirrors, Mask
<1>3. PICK q \in 1 .. Len(code) : code[q].op = "label" /\ code[q].name = l
  BY <1>1, <1>2 DEF StepsInv, WellFormed
<1>4. PICK k \in 1 .. Len(instructions) : instructions[k].n = q
  BY <1>1, <1>3 DEF Layout, Covered
<1>5. IsLabel(k)
  BY <1>1, <1>3, <1>4 DEF Layout, Entries, Entry, Mirrors, Mask
<1>6. IsLabel(Position(l))
  BY <1>5 DEF Position
<1> DEFINE j == Position(l)
<1> HIDE DEF j
<1>7. j \in 1 .. Len(instructions) /\ instructions[j].op = "label" /\ instructions[j].name = l
  BY <1>1, <1>6 DEF j
<1>8. instructions[j].n \in 1 .. Len(code) /\ Mirrors(instructions[j], masks[j])
  BY <1>1, <1>7 DEF Layout, Entries, Entry, Mask
<1>9. code[instructions[j].n].op = "label" /\ code[instructions[j].n].name = l /\ masks[j] = None
  BY <1>7, <1>8 DEF Mirrors, is_control_flow
<1> QED
  BY <1>7, <1>8, <1>9 DEF j

LEMMA ExecuteSteps ==
  ASSUME StepsInv, Execute, UNCHANGED pass
  PROVE  StepsInv'
<1>1. PICK masks : Layout(instructions, masks, open, next - 1) /\ Running(masks)
  BY DEF StepsInv
<1>2. UNCHANGED <<code, next, instructions, open, outcome, mask>> /\ Current.op \notin Mask /\ Executing
  BY DEF Execute, pass, Mask
<1>3. Layout(instructions, masks, open, next - 1)'
  BY <1>1, <1>2, LayoutStays
<1>4. /\ Len(instructions) \in Nat /\ pc \in 1 .. Len(instructions) /\ pc + 1 \in 1 .. Len(instructions) + 1
      /\ masks[pc] \in Guards /\ masks[pc + 1] = masks[pc]
      /\ Entry(Current, masks[pc], Len(code)) /\ (mask <=> Holds(masks[pc]))
  BY <1>1, <1>2, AtCurrent DEF After, Mask
<1>5. Current.n \in 1 .. Len(code) /\ Mirrors(Current, masks[pc])
  BY <1>2, <1>4 DEF Entry
<1>6. value' \in [Registers -> BOOLEAN] /\ (value' = value \/ Current.op = "setp")
      /\ \A r \in Registers : r # Current.name => value'[r] = value[r]
  <2>1. value \in [Registers -> BOOLEAN]
    BY DEF StepsInv
  <2>2. CASE UNCHANGED value
    BY <2>1, <2>2
  <2>3. CASE Current.op = "setp" /\ \E b \in BOOLEAN : value' = [value EXCEPT ![Current.name] = b]
    BY <2>1, <2>3
  <2> QED
    BY <2>2, <2>3 DEF Execute
<1>7. Running(masks)'
  <2>1. outcome' = "done" /\ open' = None /\ next' = Len(code') + 1
    BY <1>1, <1>2 DEF Executing, Running
  <2>2. CASE pc' = pc + 1
    <3>1. CASE ~Own(Current, masks[pc])
      <4>1. Holds(masks[pc])' <=> Holds(masks[pc])
        <5>1. masks[pc] # None => masks[pc] \in Registers /\ value'[masks[pc]] = value[masks[pc]]
          BY <1>4, <1>6, <3>1 DEF Own, Guards
        <5>2. masks[pc'] = masks[pc]
          BY <1>4, <2>2
        <5> QED
          BY <5>1, <5>2 DEF Holds
      <4> QED
        BY <1>2, <1>4, <2>1, <2>2, <4>1 DEF Running
    <3>2. CASE Own(Current, masks[pc])
      <4>1. pc # Len(instructions)
        BY <1>1, <1>4, <3>2, AtCurrent, <1>2 DEF Own, Layout, MasksOf
      <4>2. pc + 1 \in 1 .. Len(instructions) /\ instructions[pc + 1].op = "unmask"
        BY <1>1, <1>4, <3>2, <4>1 DEF Layout, OwnLast, Current
      <4> QED
        BY <1>2, <2>1, <2>2, <4>2 DEF Running
    <3> QED
      BY <3>1, <3>2
  <2>3. CASE Current.op = "bra" /\ pc' = Position(Current.name)
    <3>1. pc' \in 1 .. Len(instructions) /\ masks[pc'] = None
      BY <1>1, <1>2, <2>3, LabelPosition
    <3>2. masks[pc] = None
      BY <1>5, <2>3 DEF Mirrors, is_control_flow
    <3>3. mask' <=> Holds(masks[pc])'
      BY <1>2, <1>4, <3>1, <3>2 DEF Holds
    <3> QED
      BY <1>2, <1>4, <2>1, <3>1, <3>3 DEF Running
  <2> QED
    BY <2>2, <2>3 DEF Execute
<1>8. WellFormed(code)'
  BY <1>2 DEF StepsInv, WellFormed, SetsOwnGuard, Count
<1> QED
  BY <1>2, <1>3, <1>6, <1>7, <1>8 DEF StepsInv

\* Every step, of the pass and of the program it leaves, keeps the invariant.
LEMMA StepsKept == StepsInv /\ [Next]_vars => StepsInv'
<1> SUFFICES ASSUME StepsInv, [Next]_vars PROVE StepsInv'
  OBVIOUS
<1>1. CASE PassOver
  BY <1>1, PassOverSteps
<1>2. CASE Cover
  BY <1>2, CoverSteps
<1>3. CASE Finish
  BY <1>3, FinishSteps
<1>4. CASE Switch /\ UNCHANGED pass
  BY <1>4, SwitchSteps
<1>5. CASE Execute /\ UNCHANGED pass
  BY <1>5, ExecuteSteps
<1>6. CASE CoverNegated \/ UNCHANGED vars
  <2>1. PICK masks : Layout(instructions, masks, open, next - 1) /\ Running(masks)
    BY DEF StepsInv
  <2>2. UNCHANGED <<code, next, instructions, open, run>> /\ (outcome' = outcome \/ (outcome # "done" /\ outcome' # "done"))
    BY <1>6 DEF CoverNegated, Reading, vars, pass
  <2>3. Layout(instructions, masks, open, next - 1)'
    BY <2>1, <2>2, LayoutStays
  <2>4. Running(masks)'
    BY <2>1, <2>2 DEF Running, Holds, run
  <2>5. WellFormed(code)'
    BY <2>2 DEF StepsInv, WellFormed, SetsOwnGuard, Count
  <2> QED
    BY <2>2, <2>3, <2>4, <2>5 DEF StepsInv, run
<1> QED
  BY <1>1, <1>2, <1>3, <1>4, <1>5, <1>6 DEF Next, Pass, Run

------------------------------------------------------------------------------
(***************************************************************************)
(* The place in the kernel.                                                *)
(***************************************************************************)
AheadOf(s, k) == {s[j].n : j \in k .. Len(s)} \ {0}
Least(S, x) == x \in S /\ \A a \in S : x <= a
LeastOf(S) == CHOOSE n \in S : \A m \in S : n <= m

LEMMA LeastIs ==
  ASSUME NEW S \in SUBSET Nat, NEW x, Least(S, x)
  PROVE  S # {} /\ LeastOf(S) = x
<1>1. \A y \in S : (\A m \in S : y <= m) => y = x
  BY DEF Least
<1> QED
  BY <1>1 DEF Least, LeastOf

LEMMA FirstAt ==
  ASSUME NEW s, NEW masks, NEW g, NEW N, Layout(s, masks, g, N),
         NEW k \in 1 .. Len(s), s[k].n > 0
  PROVE  Least(AheadOf(s, k), s[k].n) /\ AheadOf(s, k) \subseteq 1 .. N
<1>1. Len(s) \in Nat /\ N \in Nat /\ \A j \in 1 .. Len(s) : s[j] \in Made
  BY LenProperties DEF Layout
<1>2. \A j \in 1 .. Len(s) : s[j].n \in Nat /\ s[j].n <= N
  <2> SUFFICES ASSUME NEW j \in 1 .. Len(s) PROVE s[j].n \in Nat /\ s[j].n <= N
    OBVIOUS
  <2>1. s[j].n = 0 \/ s[j].n \in 1 .. N
    BY DEF Layout, Entries, Entry
  <2> QED
    BY <1>1, <2>1
<1>3. \A j \in k .. Len(s) : s[j].n > 0 => s[k].n <= s[j].n
  BY <1>1, <1>2 DEF Layout, Covered
<1> QED
  BY <1>1, <1>2, <1>3 DEF Least, AheadOf

LEMMA FirstAfter ==
  ASSUME NEW masks, NEW g, NEW N, Layout(instructions, masks, g, N),
         NEW k \in 1 .. Len(instructions), instructions[k].n > 0
  PROVE  IF instructions[k].n = N THEN AheadOf(instructions, k + 1) = {} ELSE Least(AheadOf(instructions, k + 1), instructions[k].n + 1)
<1> DEFINE n == instructions[k].n
<1>1. Len(instructions) \in Nat /\ N \in Nat /\ n \in 1 .. N
      /\ \A j \in 1 .. Len(instructions) : instructions[j].n \in 0 .. N
  <2>1. Len(instructions) \in Nat /\ N \in Nat
    BY LenProperties DEF Layout
  <2>2. \A j \in 1 .. Len(instructions) : instructions[j].n = 0 \/ instructions[j].n \in 1 .. N
    BY DEF Layout, Entries, Entry
  <2> QED
    BY <2>1, <2>2
<1>2. \A j \in k + 1 .. Len(instructions) : instructions[j].n > 0 => n < instructions[j].n
  BY <1>1 DEF Layout, Covered
<1>3. CASE n = N
  BY <1>1, <1>2, <1>3 DEF AheadOf
<1>4. CASE n # N
  <2>1. n + 1 \in 1 .. N
    BY <1>1, <1>4
  <2>2. PICK j \in 1 .. Len(instructions) : instructions[j].n = n + 1
    BY <2>1 DEF Layout, Covered
  <2>3. j \in k + 1 .. Len(instructions)
    <3>1. j # k
      BY <1>1, <2>2
    <3>2. SUFFICES ASSUME j < k PROVE FALSE
      BY <1>1, <3>1
    <3>3. instructions[j].n > 0 /\ instructions[k].n > 0
      BY <1>1, <2>2
    <3>4. instructions[j].n < instructions[k].n
      BY <3>2, <3>3 DEF Layout, Covered
    <3> QED
      BY <1>1, <2>2, <3>4
  <2> QED
    BY <1>1, <1>2, <1>4, <2>2, <2>3 DEF AheadOf, Least
<1> QED
  BY <1>3, <1>4

\* Where the kernel stands while the masked program runs.
LEMMA SourceAt ==
  ASSUME outcome = "done", NEW n, Least(AheadOf(instructions, pc), n), AheadOf(instructions, pc) \subseteq Nat
  PROVE  SourcePc = n
<1>1. Ahead = AheadOf(instructions, pc)
  BY DEF Ahead, AheadOf
<1>2. Ahead # {} /\ LeastOf(Ahead) = n
  BY <1>1, LeastIs
<1> QED
  BY <1>2 DEF SourcePc, LeastOf

LEMMA SourceNext ==
  ASSUME NEW masks, StepsInv, Layout(instructions, masks, open, next - 1), Running(masks), Executing,
         Current.n > 0, UNCHANGED pass, pc' = pc + 1
  PROVE  SourcePc' = Current.n + 1
<1>1. /\ pc \in 1 .. Len(instructions) /\ next - 1 = Len(code) /\ outcome = "done"
      /\ Layout(instructions, masks, open, Len(code))
  BY AtCurrent
<1>2. IF Current.n = Len(code) THEN AheadOf(instructions, pc + 1) = {} ELSE Least(AheadOf(instructions, pc + 1), Current.n + 1)
  BY <1>1, FirstAfter DEF Current
<1>3. outcome' = "done" /\ code' = code /\ Ahead' = AheadOf(instructions, pc + 1)
  BY <1>1 DEF pass, Ahead, AheadOf
<1>4. AheadOf(instructions, pc + 1) \subseteq Nat
  <2>1. \A j \in 1 .. Len(instructions) : instructions[j] \in Made
    BY <1>1, LenProperties DEF Layout
  <2>2. Len(instructions) \in Nat
    BY <1>1, LenProperties DEF Layout
  <2>3. \A j \in pc + 1 .. Len(instructions) : instructions[j].n \in Nat
    BY <1>1, <2>1, <2>2 DEF Made
  <2> QED
    BY <2>3 DEF AheadOf
<1>5. CASE Current.n = Len(code)
  BY <1>2, <1>3, <1>5 DEF SourcePc
<1>6. CASE Current.n # Len(code)
  <2>1. Ahead' # {} /\ LeastOf(Ahead') = Current.n + 1
    BY <1>2, <1>3, <1>4, <1>6, LeastIs
  <2> QED
    BY <1>3, <2>1 DEF SourcePc, LeastOf
<1> QED
  BY <1>5, <1>6

LEMMA SourceJump ==
  ASSUME NEW masks, StepsInv, Layout(instructions, masks, open, next - 1), Running(masks), Executing,
         Current.op = "bra", UNCHANGED pass, pc' = Position(Current.name)
  PROVE  SourcePc' = Source!Position(Current.name)
<1> DEFINE l == Current.name
           j == Position(l)
           n == instructions[j].n
<1>1. j \in 1 .. Len(instructions) /\ n \in 1 .. Len(code) /\ code[n].op = "label" /\ code[n].name = l
  BY LabelPosition
<1>2. Len(code) \in Nat /\ DOMAIN code = 1 .. Len(code) /\ WellFormed(code) /\ next - 1 = Len(code) /\ outcome = "done"
  BY AtCurrent, LenProperties DEF StepsInv
<1>3. Source!Position(l) = n
  <2>1. \A x \in DOMAIN code : (code[x].op = "label" /\ code[x].name = l) => x = n
    BY <1>1, <1>2 DEF WellFormed
  <2> QED
    BY <1>1, <1>2, <2>1 DEF Source!Position
<1>4. Least(AheadOf(instructions, j), n) /\ AheadOf(instructions, j) \subseteq Nat
  <2>1. n > 0
    BY <1>1
  <2> QED
    BY <1>1, <1>2, <2>1, FirstAt
<1>5. outcome' = "done" /\ Ahead' = AheadOf(instructions, j)
  BY <1>2 DEF pass, Ahead, AheadOf
<1>6. SourcePc' = n
  <2>1. Ahead' # {} /\ LeastOf(Ahead') = n
    BY <1>4, <1>5, LeastIs
  <2> QED
    BY <1>5, <2>1 DEF SourcePc, LeastOf
<1> QED
  BY <1>3, <1>6

\* An instruction has its effect under its mask exactly when it has it under its guard.
LEMMA SameGuard ==
  ASSUME NEW masks, StepsInv, Layout(instructions, masks, open, next - 1), Running(masks), Executing,
         Current.op \notin Mask
  PROVE  /\ SourcePc = Current.n /\ Current.n \in 1 .. Len(code)
         /\ code[Current.n].op = Current.op /\ code[Current.n].name = Current.name
         /\ Passes(Current) <=> Source!Passes(code[Current.n])
<1> DEFINE c == code[Current.n]
           g == masks[pc]
<1>1. /\ pc \in 1 .. Len(instructions) /\ outcome = "done" /\ Len(code) \in Nat
      /\ Entry(Current, g, Len(code)) /\ g \in Guards /\ Current \in Made /\ next - 1 = Len(code)
  BY AtCurrent
<1>2. mask <=> Holds(g)
  BY AtCurrent DEF Mask
<1>3. Current.n \in 1 .. Len(code) /\ Mirrors(Current, g)
  BY <1>1 DEF Entry
<1>4. SourcePc = Current.n
  <2>1. Current.n > 0
    BY <1>1, <1>3
  <2>2. Least(AheadOf(instructions, pc), Current.n) /\ AheadOf(instructions, pc) \subseteq Nat
    BY <1>1, <2>1, FirstAt DEF Current
  <2> QED
    BY <1>1, <2>2, SourceAt
<1>5. c.predicate \in Guards /\ c.negated \in BOOLEAN
  BY <1>3, KindFields DEF StepsInv
<1>6. CASE g = None
  <2>1. mask = TRUE
    BY <1>2, <1>6 DEF Holds, StepsInv
  <2>2. Current.predicate = c.predicate /\ Current.negated = c.negated
    BY <1>3, <1>6 DEF Mirrors
  <2>3. Passes(Current) <=> Source!Passes(c)
    BY <2>1, <2>2 DEF Passes, Source!Passes, Source!Guarded, Source!Always, None
  <2> QED
    BY <1>3, <1>4, <2>3 DEF Mirrors
<1>7. CASE g # None
  <2>1. Current.predicate = None /\ c.predicate = g /\ c.negated = FALSE
    BY <1>3, <1>7 DEF Mirrors
  <2>2. value[g] \in BOOLEAN
    BY <1>1, <1>7 DEF Guards, StepsInv
  <2>3. Passes(Current) <=> value[g] = TRUE
    BY <1>2, <1>7, <2>1 DEF Passes, Holds
  <2>4. Source!Passes(c) <=> value[g] # FALSE
    BY <1>7, <2>1 DEF Source!Passes, Source!Guarded, Source!Always, None
  <2>5. Passes(Current) <=> Source!Passes(c)
    BY <2>2, <2>3, <2>4
  <2> QED
    BY <1>3, <1>4, <2>5 DEF Mirrors
<1> QED
  BY <1>6, <1>7

\* The start of the masked program is the start of the kernel.
LEMMA FinishStutters ==
  ASSUME StepsInv, Finish
  PROVE  SourcePc' = SourcePc
<1>1. PICK masks : Layout(instructions, masks, open, next - 1) /\ Running(masks)
  BY DEF StepsInv
<1> DEFINE s == instructions \o Closing
           N == Len(code)
<1>2. N \in Nat /\ next - 1 = N /\ outcome = "running" /\ outcome' = "done" /\ code' = code /\ pc' = pc
      /\ instructions' = s
  BY LenProperties DEF StepsInv, Finish, run
<1>3. PICK closed : Layout(s, closed, None, N)
  BY <1>1, <1>2, ClosingLayout DEF StepsInv
<1>4. SourcePc = 1 /\ pc = 1
  BY <1>1, <1>2 DEF SourcePc, Running
<1> HIDE DEF s
<1>5. Len(s) \in Nat /\ \A j \in 1 .. Len(s) : s[j].n \in 0 .. N
  BY <1>2, <1>3, LenProperties DEF Layout, Entries, Entry, Mask
<1>6. Ahead' = AheadOf(s, 1)
  BY <1>2, <1>4 DEF Ahead, AheadOf
<1>7. CASE N = 0
  <2>1. Ahead' = {}
    BY <1>5, <1>6, <1>7 DEF AheadOf
  <2> QED
    BY <1>2, <1>4, <1>7, <2>1 DEF SourcePc
<1>8. CASE N # 0
  <2>1. PICK k \in 1 .. Len(s) : s[k].n = 1
    BY <1>2, <1>3, <1>8 DEF Layout, Covered
  <2>2. Least(AheadOf(s, 1), 1) /\ AheadOf(s, 1) \in SUBSET Nat
    BY <1>5, <2>1 DEF Least, AheadOf
  <2>3. Ahead' # {} /\ LeastOf(Ahead') = 1
    BY <1>6, <2>2, LeastIs
  <2> QED
    BY <1>2, <1>4, <2>3 DEF SourcePc, LeastOf
<1> QED
  BY <1>7, <1>8

\* Opening or closing a mask is no step of the kernel.
LEMMA SwitchStutters ==
  ASSUME StepsInv, Switch, UNCHANGED pass
  PROVE  SourcePc' = SourcePc
<1>1. PICK masks : Layout(instructions, masks, open, next - 1) /\ Running(masks)
  BY DEF StepsInv
<1>2. Executing /\ pc \in 1 .. Len(instructions) /\ Len(instructions) \in Nat /\ Current.n = 0 /\ pc' = pc + 1
  BY <1>1, AtCurrent DEF Switch, Entry, Mask
<1>3. Ahead' = Ahead
  <2>1. AheadOf(instructions, pc) = AheadOf(instructions, pc + 1)
    <3>1. pc .. Len(instructions) = {pc} \cup (pc + 1 .. Len(instructions))
      BY <1>2
    <3> QED
      BY <1>2, <3>1 DEF AheadOf, Current
  <2> QED
    BY <1>2, <2>1 DEF Ahead, AheadOf, pass
<1> QED
  BY <1>3 DEF SourcePc, pass

\* An instruction that is executed or passed over is one step of the kernel.
LEMMA ExecuteIsStep ==
  ASSUME StepsInv, Execute, UNCHANGED pass
  PROVE  Source!Execute
<1>1. PICK masks : Layout(instructions, masks, open, next - 1) /\ Running(masks)
  BY DEF StepsInv
<1> DEFINE n == Current.n
<1>2. Executing /\ Current.op \notin Mask /\ Len(log) < MaxEffects /\ code' = code
  BY DEF Execute, pass, Mask
<1>3. /\ SourcePc = n /\ n \in 1 .. Len(code) /\ Len(code) \in Nat
      /\ code[n].op = Current.op /\ code[n].name = Current.name
      /\ Passes(Current) <=> Source!Passes(code[n])
  BY <1>1, <1>2, SameGuard, AtCurrent
<1>4. SourcePc < Source!End
  BY <1>3 DEF Source!End
<1>5. ASSUME pc' = pc + 1 PROVE SourcePc' = SourcePc + 1
  BY <1>1, <1>2, <1>3, <1>5, SourceNext
<1>6. CASE ~Passes(Current)
  <2>1. Source!Skip(code[SourcePc])
    BY <1>3, <1>5, <1>6 DEF Execute, Source!Skip
  <2> QED
    BY <1>2, <1>4, <2>1 DEF Source!Execute
<1>7. CASE Passes(Current)
  <2>1. log' = IF code[n].op \in {"setp", "do"} THEN Append(log, SourcePc) ELSE log
    BY <1>3, <1>7 DEF Execute
  <2>2. \/ code[n].op = "setp" /\ \E b \in BOOLEAN : value' = [value EXCEPT ![code[n].name] = b]
        \/ code[n].op # "setp" /\ UNCHANGED value
    BY <1>3, <1>7 DEF Execute
  <2>3. SourcePc' = IF code[n].op = "bra" THEN Source!Position(code[n].name) ELSE SourcePc + 1
    <3>1. CASE Current.op = "bra"
      <4>1. pc' = Position(Current.name)
        BY <1>7, <3>1 DEF Execute
      <4> QED
        BY <1>1, <1>2, <1>3, <3>1, <4>1, SourceJump
    <3>2. CASE Current.op # "bra"
      BY <1>3, <1>5, <1>7, <3>2 DEF Execute
    <3> QED
      BY <3>1, <3>2
  <2>4. Source!Effect(code[SourcePc])
    BY <1>3, <1>7, <2>1, <2>2, <2>3 DEF Source!Effect
  <2> QED
    BY <1>2, <1>4, <2>4 DEF Source!Execute
<1> QED
  BY <1>6, <1>7

\* Every step of the pass and of the masked program is a step of the predicated kernel or none,
\* for every kernel: what is printed as an if around a run of instructions has, in order, exactly
\* the effects of the guarded instructions (predicates.py PTXPredicatesPass).
THEOREM MaskedStepsAreSteps == Spec => MasksTakeItsSteps
<1>1. Init => Source!Start
  BY DEF Init, Source!Start, SourcePc
<1>2. StepsInv /\ [Next]_vars => [Source!Execute]_(Source!machine)
  <2> SUFFICES ASSUME StepsInv, [Next]_vars PROVE [Source!Execute]_(Source!machine)
    OBVIOUS
  <2>1. CASE PassOver \/ Cover \/ CoverNegated
    BY <2>1 DEF PassOver, Cover, CoverNegated, Reading, Advance, run, SourcePc, Source!machine
  <2>2. CASE Finish
    BY <2>2, FinishStutters DEF Finish, run, Source!machine
  <2>3. CASE Switch /\ UNCHANGED pass
    BY <2>3, SwitchStutters DEF Switch, pass, Source!machine
  <2>4. CASE Execute /\ UNCHANGED pass
    BY <2>4, ExecuteIsStep
  <2>5. CASE UNCHANGED vars
    BY <2>5 DEF vars, pass, run, SourcePc, Ahead, Source!machine
  <2> QED
    BY <2>1, <2>2, <2>3, <2>4, <2>5 DEF Next, Pass, Run
<1>3. Init => StepsInv
  BY InitSteps
<1> QED
  BY <1>1, <1>2, <1>3, StepsKept, PTL DEF Spec, MasksTakeItsSteps, Source!Steps
==============================================================================
