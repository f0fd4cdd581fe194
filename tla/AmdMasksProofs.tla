---------------------------- MODULE AmdMasksProofs ----------------------------
(***************************************************************************)
(* Structured kernels, for every number of registers and comparisons and   *)
(* every depth of nesting.  First their open conditionals and their        *)
(* lowering: a kernel is an instruction list of module Cfg, and the lanes  *)
(* of the wave execute what the open conditionals require.  Then their     *)
(* masks: the graph construction never fails on such a kernel, its stack   *)
(* is the stack of open conditionals, and its condition denotes the exec   *)
(* mask of the hardware.                                                   *)
(***************************************************************************)
EXTENDS AmdKernel, CfgProofs

------------------------------------------------------------------------------
(***************************************************************************)
(* The open conditionals.                                                  *)
(***************************************************************************)
Sides == {"then", "else"}
Frame ==
  [kind : {"mask"}, cmp : Comparisons, branch : Sides, save : ScalarSet]
  \cup [kind : {"branch"}, cmp : Comparisons, branch : Sides, label : Labels, waves : SUBSET Lanes]

\* The first of the two labels of a conditional that branches.
First(f) == IF f.branch = "then" THEN f.label ELSE f.label - 1

\* The conditionals open at a time test different comparisons, save exec in the registers of
\* their depths and have labels of their own, two for each of the m so far.
Nested(fs, m) ==
  /\ fs \in Seq(Frame) /\ Len(fs) <= Len(Saves)
  /\ \A k \in 1 .. Len(fs) : fs[k].kind = "mask" => fs[k].save = Saves[k]
  /\ \A j, k \in 1 .. Len(fs) : j # k => fs[j].cmp # fs[k].cmp
  /\ \A k \in 1 .. Len(fs) :
       fs[k].kind = "branch" => 1 <= First(fs[k]) /\ First(fs[k]) + 1 <= 2 * m
  /\ \A j, k \in 1 .. Len(fs) :
       (j < k /\ fs[j].kind = "branch" /\ fs[k].kind = "branch") => First(fs[j]) + 1 < First(fs[k])

FramesInv == ifs \in 0 .. MaxIfs /\ waves \in SUBSET Lanes /\ Nested(frames, ifs)

\* What is left when the last element is taken away.
LEMMA FrontProperties ==
  ASSUME NEW S, NEW s \in Seq(S), s # <<>>
  PROVE  /\ Len(s) \in Nat /\ Len(s) > 0 /\ s[Len(s)] \in S
         /\ Front(s) \in Seq(S) /\ Len(Front(s)) = Len(s) - 1
         /\ \A i \in 1 .. Len(s) - 1 : Front(s)[i] = s[i]
<1>1. Len(s) \in Nat /\ Len(s) > 0 /\ \A i \in 1 .. Len(s) : s[i] \in S
  BY EmptySeq, LenProperties
<1>2. PICK n \in Nat : n = Len(s) - 1
  BY <1>1
<1>3. /\ SubSeq(s, 1, n) \in Seq(S)
      /\ Len(SubSeq(s, 1, n)) = IF 1 <= n THEN n - 1 + 1 ELSE 0
      /\ \A i \in 1 .. n - 1 + 1 : SubSeq(s, 1, n)[i] = s[1 + i - 1]
  BY <1>1, <1>2, SubSeqProperties
<1>4. \A i \in 1 .. n : i \in 1 .. n - 1 + 1 /\ 1 + i - 1 = i
  OBVIOUS
<1>5. Len(SubSeq(s, 1, n)) = n /\ \A i \in 1 .. n : SubSeq(s, 1, n)[i] = s[i]
  BY <1>3, <1>4
<1>6. Front(s) = SubSeq(s, 1, n) /\ s[Len(s)] \in S
  BY <1>1, <1>2 DEF Front
<1> QED
  BY <1>1, <1>2, <1>3, <1>5, <1>6

\* An element of a sequence is replaced.
LEMMA Replaced ==
  ASSUME NEW S, NEW s \in Seq(S), NEW n \in 1 .. Len(s), NEW x \in S
  PROVE  LET t == [s EXCEPT ![n] = x]
         IN  /\ t \in Seq(S) /\ Len(t) = Len(s) /\ t[n] = x
             /\ \A i \in 1 .. Len(s) : i # n => t[i] = s[i]
  OBVIOUS
\* Labels are numbers.
LEMMA LabelsType ==
  /\ MaxIfs \in Nat /\ Labels \subseteq Nat /\ Labels \subseteq 1 .. 2 * MaxIfs
  /\ Labels # {} => Labels = 1 .. 2 * MaxIfs /\ "scc" \in Preds
  /\ Comparisons \subseteq Nat
  BY KernelAssumption, ConstantsAssumption

\* A frame of either kind.
LEMMA FrameType ==
  ASSUME NEW f \in Frame
  PROVE  /\ f.kind \in {"mask", "branch"} /\ f.cmp \in Comparisons /\ f.branch \in Sides
         /\ f.kind = "mask" => f.save \in ScalarSet
         /\ f.kind = "branch" => f.label \in Labels /\ First(f) \in Int /\ f.waves \in SUBSET Lanes
  BY LabelsType DEF Frame, First, Sides

\* Another conditional is opened.
LEMMA NestedAppend ==
  ASSUME NEW m \in Nat, NEW fs, Nested(fs, m), Len(fs) < Len(Saves), NEW f \in Frame,
         f.kind = "mask" => f.save = Saves[Len(fs) + 1],
         \A k \in 1 .. Len(fs) : fs[k].cmp # f.cmp,
         f.kind = "branch" => f.branch = "then" /\ f.label = 2 * m + 1
  PROVE  Nested(Append(fs, f), m + 1)
<1> DEFINE gs == Append(fs, f)
<1>1. /\ gs \in Seq(Frame) /\ Len(gs) = Len(fs) + 1 /\ Len(fs) \in Nat
      /\ \A k \in 1 .. Len(fs) : gs[k] = fs[k]
      /\ gs[Len(fs) + 1] = f
  BY AppendProperties, LenProperties DEF Nested
<1> HIDE DEF gs
<1>2. \A k \in 1 .. Len(gs) : k \in 1 .. Len(fs) \/ k = Len(fs) + 1
  BY <1>1
<1>3. Len(gs) <= Len(Saves)
  BY <1>1, KernelAssumption, LenProperties
<1>4. \A k \in 1 .. Len(gs) : gs[k].kind = "mask" => gs[k].save = Saves[k]
  BY <1>1, <1>2 DEF Nested
<1>5. \A j, k \in 1 .. Len(gs) : j # k => gs[j].cmp # gs[k].cmp
  BY <1>1, <1>2 DEF Nested
<1>6. \A k \in 1 .. Len(fs) : fs[k].kind = "branch" => First(fs[k]) \in Int
  BY FrameType, LenProperties DEF Nested
<1>7. f.kind = "branch" => First(f) = 2 * m + 1
  BY DEF First
<1>8. \A k \in 1 .. Len(gs) : gs[k].kind = "branch" => 1 <= First(gs[k]) /\ First(gs[k]) + 1 <= 2 * (m + 1)
  <2>1. \A k \in 1 .. Len(fs) : fs[k].kind = "branch" => 1 <= First(fs[k]) /\ First(fs[k]) + 1 <= 2 * m
    BY DEF Nested
  <2> QED
    BY <1>1, <1>2, <1>6, <1>7, <2>1
<1>9. \A j, k \in 1 .. Len(gs) :
       (j < k /\ gs[j].kind = "branch" /\ gs[k].kind = "branch") => First(gs[j]) + 1 < First(gs[k])
  <2> SUFFICES ASSUME NEW j \in 1 .. Len(gs), NEW k \in 1 .. Len(gs), j < k,
                      gs[j].kind = "branch", gs[k].kind = "branch"
               PROVE  First(gs[j]) + 1 < First(gs[k])
    OBVIOUS
  <2>1. j \in 1 .. Len(fs) /\ gs[j] = fs[j]
    BY <1>1
  <2>2. First(fs[j]) \in Int /\ First(fs[j]) + 1 <= 2 * m
    BY <1>6, <2>1 DEF Nested
  <2>3. CASE k \in 1 .. Len(fs)
    BY <1>1, <2>1, <2>3 DEF Nested
  <2>4. CASE k = Len(fs) + 1
    BY <1>1, <1>7, <2>1, <2>2, <2>4
  <2> QED
    BY <1>2, <2>3, <2>4
<1> QED
  BY <1>1, <1>3, <1>4, <1>5, <1>8, <1>9 DEF Nested, gs

\* The innermost one is left.
LEMMA NestedFront ==
  ASSUME NEW m \in Nat, NEW fs, Nested(fs, m), fs # <<>>
  PROVE  Nested(Front(fs), m)
<1>1. /\ Len(fs) \in Nat /\ Front(fs) \in Seq(Frame) /\ Len(Front(fs)) = Len(fs) - 1
      /\ \A i \in 1 .. Len(fs) - 1 : Front(fs)[i] = fs[i]
  BY FrontProperties DEF Nested
<1>2. Len(Saves) \in Nat
  BY KernelAssumption, LenProperties
<1> DEFINE gs == Front(fs)
<1>3. Len(gs) <= Len(Saves)
  BY <1>1, <1>2 DEF Nested
<1>4. \A k \in 1 .. Len(gs) : k \in 1 .. Len(fs) /\ gs[k] = fs[k]
  BY <1>1
<1> HIDE DEF gs
<1>5. gs \in Seq(Frame)
  BY <1>1 DEF gs
<1> QED
  BY <1>3, <1>4, <1>5 DEF Nested, gs

\* The innermost one comes to its else.
Elsed(f) ==
  IF f.kind = "mask" THEN [f EXCEPT !.branch = "else"] ELSE [f EXCEPT !.branch = "else", !.label = @ + 1]

LEMMA ElsedType ==
  ASSUME NEW f \in Frame, f.branch = "then", f.kind = "branch" => f.label + 1 \in Labels
  PROVE  /\ Elsed(f) \in Frame /\ Elsed(f).kind = f.kind /\ Elsed(f).cmp = f.cmp
         /\ Elsed(f).branch = "else"
         /\ f.kind = "mask" => Elsed(f).save = f.save
         /\ f.kind = "branch" => /\ First(Elsed(f)) = First(f) /\ Elsed(f).label = f.label + 1
                                 /\ Elsed(f).waves = f.waves
<1>1. CASE f.kind = "mask"
  BY <1>1, FrameType DEF Elsed, Frame, Sides
<1>2. CASE f.kind = "branch"
  <2>1. f.label \in Nat /\ f.label + 1 \in Labels
    BY <1>2, FrameType, LabelsType
  <2>2. f \in [kind : {"branch"}, cmp : Comparisons, branch : Sides, label : Labels, waves : SUBSET Lanes]
    BY <1>2 DEF Frame
  <2>3. Elsed(f) = [f EXCEPT !.branch = "else", !.label = f.label + 1]
    BY <1>2 DEF Elsed
  <2>4. /\ Elsed(f) \in [kind : {"branch"}, cmp : Comparisons, branch : Sides, label : Labels, waves : SUBSET Lanes]
        /\ Elsed(f).kind = f.kind /\ Elsed(f).cmp = f.cmp /\ Elsed(f).branch = "else"
        /\ Elsed(f).label = f.label + 1 /\ Elsed(f).waves = f.waves
    BY <2>1, <2>2, <2>3 DEF Sides
  <2>5. Elsed(f) \in Frame
    BY <2>4 DEF Frame
  <2> QED
    BY <1>2, <2>1, <2>4, <2>5 DEF First
<1> QED
  BY <1>1, <1>2, FrameType

WithElse(fs) == [fs EXCEPT ![Len(fs)] = Elsed(fs[Len(fs)])]

LEMMA NestedElse ==
  ASSUME NEW m \in 0 .. MaxIfs, NEW fs, Nested(fs, m), fs # <<>>, fs[Len(fs)].branch = "then"
  PROVE  /\ Nested(WithElse(fs), m) /\ Len(WithElse(fs)) = Len(fs)
         /\ WithElse(fs)[Len(fs)] = Elsed(fs[Len(fs)]) /\ Elsed(fs[Len(fs)]) \in Frame
         /\ \A k \in 1 .. Len(fs) - 1 : WithElse(fs)[k] = fs[k]
         /\ fs[Len(fs)].kind = "branch" => fs[Len(fs)].label + 1 \in Labels
<1> DEFINE n == Len(fs)
           f == fs[n]
           gs == WithElse(fs)
<1>1. n \in Nat /\ n > 0 /\ f \in Frame
  BY FrontProperties DEF Nested
<1>2. f.kind = "branch" => f.label + 1 \in Labels
  <2> SUFFICES ASSUME f.kind = "branch" PROVE f.label + 1 \in Labels
    OBVIOUS
  <2>1. f.label \in Labels /\ f.label \in Nat
    BY <1>1, FrameType, LabelsType
  <2>2. First(f) = f.label /\ First(f) + 1 <= 2 * m
    BY <1>1 DEF Nested, First
  <2>3. Labels = 1 .. 2 * MaxIfs /\ MaxIfs \in Nat
    BY <2>1, LabelsType
  <2> QED
    BY <2>1, <2>2, <2>3
<1>3. /\ Elsed(f) \in Frame /\ Elsed(f).kind = f.kind /\ Elsed(f).cmp = f.cmp
      /\ f.kind = "mask" => Elsed(f).save = f.save
      /\ f.kind = "branch" => First(Elsed(f)) = First(f)
  BY <1>1, <1>2, ElsedType
<1>4. /\ gs \in Seq(Frame) /\ Len(gs) = n /\ gs[n] = Elsed(f)
      /\ \A i \in 1 .. n : i # n => gs[i] = fs[i]
  BY <1>1, <1>3, Replaced DEF WithElse, Nested
<1> HIDE DEF gs
<1>5. \A k \in 1 .. n : /\ gs[k].kind = fs[k].kind /\ gs[k].cmp = fs[k].cmp
                        /\ fs[k].kind = "mask" => gs[k].save = fs[k].save
                        /\ fs[k].kind = "branch" => First(gs[k]) = First(fs[k])
  BY <1>3, <1>4
<1>6. Nested(gs, m)
  BY <1>4, <1>5 DEF Nested
<1> QED
  BY <1>1, <1>2, <1>3, <1>4, <1>6 DEF gs
\* What the instructions of the compiler do to the conditionals.
Opens(f) ==
  /\ f \in Frame /\ Len(frames) < Len(Saves) /\ ifs < MaxIfs
  /\ f.branch = "then" /\ Fresh(f.cmp)
  /\ f.kind = "mask" => f.save = Saves[Len(frames) + 1]
  /\ f.kind = "branch" => f.label = 2 * ifs + 1 /\ f.waves = waves
  /\ frames' = Append(frames, f) /\ ifs' = ifs + 1
Turns == frames # <<>> /\ Top.branch = "then" /\ frames' = WithElse(frames) /\ ifs' = ifs
Closes == frames # <<>> /\ frames' = Front(frames) /\ ifs' = ifs

\* The frames that are pushed.
MaskFrame(i) == [kind |-> "mask", cmp |-> i, branch |-> "then", save |-> Saves[Len(frames) + 1]]
BranchFrame(i) == [kind |-> "branch", cmp |-> i, branch |-> "then", label |-> 2 * ifs + 1, waves |-> waves]

LEMMA IfOpens ==
  ASSUME FramesInv, NEW i \in Comparisons, If(i)
  PROVE  Opens(MaskFrame(i)) /\ MaskFrame(i).save \in ScalarSet
<1>1. Len(frames) \in Nat /\ Len(frames) < Len(Saves) /\ ifs < MaxIfs /\ Fresh(i)
  BY LenProperties DEF If, Open, FramesInv, Nested
<1>2. Saves[Len(frames) + 1] \in ScalarSet
  BY <1>1, KernelAssumption, LenProperties
<1> QED
  BY <1>1, <1>2 DEF If, Open, Opens, MaskFrame, Frame, Sides

LEMMA UniformIfOpens ==
  ASSUME FramesInv, NEW i \in Comparisons, UniformIf(i)
  PROVE  Opens(BranchFrame(i)) /\ 2 * ifs + 1 \in Labels /\ waves' \in SUBSET waves
<1>1. 2 * ifs + 1 \in Labels /\ ifs < MaxIfs /\ Fresh(i) /\ Len(frames) < Len(Saves)
  BY DEF UniformIf, Open
<1>2. BranchFrame(i) \in Frame
  BY <1>1 DEF BranchFrame, Frame, Sides, FramesInv
<1>3. frames' = Append(frames, BranchFrame(i)) /\ ifs' = ifs + 1 /\ waves' \in SUBSET waves
  BY DEF UniformIf, Open, BranchFrame
<1> QED
  BY <1>1, <1>2, <1>3 DEF Opens, BranchFrame

LEMMA ElseTurns ==
  ASSUME FramesInv, Else \/ UniformElse
  PROVE  Turns /\ Top \in Frame
<1>1. frames # <<>> /\ Top.branch = "then" /\ Top = frames[Len(frames)] /\ Top \in Frame
  BY FrontProperties DEF Else, UniformElse, InBranchOf, Top, FramesInv, Nested
<1>2. CASE Else
  BY <1>1, <1>2 DEF Else, InBranchOf, Turns, WithElse, Elsed, Top
<1>3. CASE UniformElse
  BY <1>1, <1>3 DEF UniformElse, InBranchOf, Turns, WithElse, Elsed, Top
<1> QED
  BY <1>2, <1>3

LEMMA EndIfCloses ==
  ASSUME FramesInv, EndIf \/ UniformEndIf
  PROVE  Closes /\ Top \in Frame
<1>1. frames # <<>> /\ Top \in Frame
  BY FrontProperties DEF EndIf, UniformEndIf, InBranchOf, Top, FramesInv, Nested
<1> QED
  BY <1>1 DEF EndIf, UniformEndIf, Closes

\* Those that do nothing to them.
Others == Step \/ (\E v \in Data : Compute(v)) \/ Store \/ s_endpgm \/ UNCHANGED kvars

LEMMA OthersKeep ==
  ASSUME Others
  PROVE  UNCHANGED <<frames, ifs, hw, waves>>
  BY DEF Others, Step, Compute, Store, Body, s_endpgm, kvars, hardware

LEMMA KernelSteps ==
  ASSUME [KernelNext]_kvars
  PROVE  \/ \E i \in Comparisons : If(i) \/ UniformIf(i)
         \/ Else \/ EndIf \/ UniformElse \/ UniformEndIf \/ Others
  BY DEF KernelNext, Others

LEMMA FramesKept == FramesInv /\ [KernelNext]_kvars => FramesInv'
<1> SUFFICES ASSUME FramesInv, [KernelNext]_kvars PROVE FramesInv'
  OBVIOUS
<1>1. ifs \in 0 .. MaxIfs /\ MaxIfs \in Nat /\ Nested(frames, ifs) /\ waves \in SUBSET Lanes
  BY KernelAssumption DEF FramesInv
<1>2. ASSUME NEW f, Opens(f) PROVE ifs' \in 0 .. MaxIfs /\ Nested(frames', ifs')
  <2>1. \A k \in 1 .. Len(frames) : frames[k].cmp # f.cmp
    BY <1>1, <1>2, LenProperties DEF Opens, Fresh, Nested
  <2>2. Nested(Append(frames, f), ifs + 1)
    BY <1>1, <1>2, <2>1, NestedAppend DEF Opens
  <2> QED
    BY <1>1, <1>2, <2>2 DEF Opens
<1>3. ASSUME Turns PROVE ifs' \in 0 .. MaxIfs /\ Nested(frames', ifs')
  BY <1>1, <1>3, NestedElse DEF Turns, Top
<1>4. ASSUME Closes PROVE ifs' \in 0 .. MaxIfs /\ Nested(frames', ifs')
  BY <1>1, <1>4, NestedFront DEF Closes
<1>5. ASSUME NEW i \in Comparisons, If(i) PROVE FramesInv'
  <2>1. \E f : Opens(f)
    BY <1>5, IfOpens
  <2>2. waves' = waves
    BY <1>5 DEF If
  <2> QED
    BY <1>1, <1>2, <2>1, <2>2 DEF FramesInv
<1>6. ASSUME NEW i \in Comparisons, UniformIf(i) PROVE FramesInv'
  <2>1. \E f : Opens(f)
    BY <1>6, UniformIfOpens
  <2>2. waves' \in SUBSET Lanes
    BY <1>1, <1>6, UniformIfOpens
  <2> QED
    BY <1>1, <1>2, <2>1, <2>2 DEF FramesInv
<1>7. CASE Else \/ UniformElse
  <2>1. Top.kind = "branch" => Top.waves \in SUBSET Lanes
    BY <1>7, ElseTurns, FrameType
  <2>2. waves' \in SUBSET Lanes
    BY <1>1, <1>7, <2>1 DEF Else, UniformElse, InBranchOf
  <2>3. Turns
    BY <1>7, ElseTurns
  <2> QED
    BY <1>1, <1>3, <2>2, <2>3 DEF FramesInv, Turns, Top
<1>8. CASE EndIf \/ UniformEndIf
  <2>1. Top.kind = "branch" => Top.waves \in SUBSET Lanes
    BY <1>8, EndIfCloses, FrameType
  <2>2. waves' \in SUBSET Lanes
    BY <1>1, <1>8, <2>1 DEF EndIf, UniformEndIf, InBranchOf
  <2>3. Closes
    BY <1>8, EndIfCloses
  <2> QED
    BY <1>1, <1>4, <2>2, <2>3 DEF FramesInv, Closes
<1>9. CASE Others
  BY <1>1, <1>9, OthersKeep DEF FramesInv
<1> QED
  BY <1>5, <1>6, <1>7, <1>8, <1>9, KernelSteps
------------------------------------------------------------------------------
(***************************************************************************)
(* A structured kernel is an instruction list: the graph construction that *)
(* runs on it takes the steps of module Cfg.                               *)
(***************************************************************************)
\* The instructions of the IR, with operands of the right kind.
IRs ==
  [op : {"cmp"}, d : Preds, a : Comparisons, b : Comparisons]
  \cup [op : {"mov", "and", "or", "xor"}, d : Regs, a : Regs, b : Regs]
  \cup [op : {"change_mask"}, d : Preds, a : Preds, b : Preds]
  \cup [op : {"bra", "bra_n", "jump", "label"}, d : Labels, a : Labels, b : Labels]
  \cup [op : {"arith"}, d : ScalarSet, a : ScalarSet, b : ScalarSet]
  \cup [op : {"store", "endpgm"}, d : Preds, a : Preds, b : Preds]

TodoInv == todo \in Seq(IRs)

\* Two lists of instructions, one after the other.
LEMMA OneAndThree ==
  ASSUME NEW a, NEW b, NEW c, NEW d
  PROVE  <<a>> \o <<b, c, d>> = <<a, b, c, d>>
<1> DEFINE S == {a, b, c, d}
           s == <<a>>
           t == <<b, c, d>>
           u == <<a, b, c, d>>
<1>1. s \in Seq(S) /\ t \in Seq(S) /\ u \in Seq(S) /\ Len(s) = 1 /\ Len(t) = 3 /\ Len(u) = 4
  OBVIOUS
<1>2. /\ s \o t \in Seq(S) /\ Len(s \o t) = 4
      /\ \A i \in 1 .. 4 : (s \o t)[i] = IF i <= 1 THEN s[i] ELSE t[i - 1]
  BY <1>1, ConcatProperties
<1>3. (s \o t)[1] = s[1] /\ (s \o t)[2] = t[1] /\ (s \o t)[3] = t[2] /\ (s \o t)[4] = t[3]
  BY <1>2
<1>4. \A i \in 1 .. 4 : (s \o t)[i] = u[i]
  <2>1. \A i \in 1 .. 4 : i \in {1, 2, 3, 4}
    OBVIOUS
  <2> QED
    BY <1>3, <2>1
<1> QED
  BY <1>1, <1>2, <1>4, SeqEqual

LEMMA OneAndOne ==
  ASSUME NEW a, NEW b
  PROVE  <<a>> \o <<b>> = <<a, b>>
<1> DEFINE S == {a, b}
           s == <<a>>
           t == <<b>>
           u == <<a, b>>
<1>1. s \in Seq(S) /\ t \in Seq(S) /\ u \in Seq(S) /\ Len(s) = 1 /\ Len(t) = 1 /\ Len(u) = 2
  OBVIOUS
<1>2. /\ s \o t \in Seq(S) /\ Len(s \o t) = 2
      /\ \A i \in 1 .. 2 : (s \o t)[i] = IF i <= 1 THEN s[i] ELSE t[i - 1]
  BY <1>1, ConcatProperties
<1>3. (s \o t)[1] = s[1] /\ (s \o t)[2] = t[1]
  BY <1>2
<1>4. \A i \in 1 .. 2 : (s \o t)[i] = u[i]
  <2>1. \A i \in 1 .. 2 : i \in {1, 2}
    OBVIOUS
  <2> QED
    BY <1>3, <2>1
<1> QED
  BY <1>1, <1>2, <1>4, SeqEqual

\* What each machine instruction is lowered to.
CmpIR(i) == IR("cmp", "vcc", i, i)
SaveIR(s) == IR("mov", s, "exec", "exec")
NarrowIR == IR("and", "exec", "exec", "vcc")
ElseIR(s) == IR("xor", "exec", s, "exec")
RestoreIRs(s) == {IR("mov", "exec", s, s), IR("or", "exec", "exec", s)}
FlagIR(i) == IR("cmp", "scc", i, i)
BranchIRs(l) == {IR("bra", l, l, l), IR("bra_n", l, l, l)}
JumpIR(l) == IR("jump", l, l, l)
LabelIR(l) == IR("label", l, l, l)
BodyIRs == {IR("arith", v, v, v) : v \in Data}
           \cup {IR("store", "exec", "exec", "exec"), IR("endpgm", "exec", "exec", "exec")}

LEMMA Lowered ==
  /\ \A i, s : v_cmp("vcc", i) \o s_and_saveexec_b64(s, "vcc") = <<CmpIR(i), SaveIR(s), NarrowIR, UseMask>>
  /\ \A s : s_andn2_b64("exec", s, "exec") = <<ElseIR(s), UseMask>>
  /\ \A s : s_mov_b64("exec", s) = <<IR("mov", "exec", s, s), UseMask>>
  /\ \A s : s_or_b64("exec", "exec", s) = <<IR("or", "exec", "exec", s), UseMask>>
  /\ \A i, l : s_cmp(i) \o s_cbranch_scc0(l) = <<FlagIR(i), IR("bra_n", l, l, l)>>
  /\ \A i, l : s_cmp(i) \o s_cbranch_scc1(l) = <<FlagIR(i), IR("bra", l, l, l)>>
  /\ \A k, l : s_branch(k) \o label(l) = <<JumpIR(k), LabelIR(l)>>
  /\ \A l : label(l) = <<LabelIR(l)>>
<1>1. \A i, s : v_cmp("vcc", i) \o s_and_saveexec_b64(s, "vcc") = <<CmpIR(i), SaveIR(s), NarrowIR, UseMask>>
  BY OneAndThree DEF v_cmp, s_and_saveexec_b64, saveexec, CmpIR, SaveIR, NarrowIR
<1>2. \A op, a, b : same_with_exec_mask(IR(op, "exec", a, b)) = <<IR(op, "exec", a, b), UseMask>>
  BY DEF same_with_exec_mask, IR
<1>3. /\ \A i, l : s_cmp(i) \o s_cbranch_scc0(l) = <<FlagIR(i), IR("bra_n", l, l, l)>>
      /\ \A i, l : s_cmp(i) \o s_cbranch_scc1(l) = <<FlagIR(i), IR("bra", l, l, l)>>
      /\ \A k, l : s_branch(k) \o label(l) = <<JumpIR(k), LabelIR(l)>>
  BY OneAndOne DEF s_cmp, v_cmp, s_cbranch_scc0, s_cbranch_scc1, s_branch, label, FlagIR, JumpIR, LabelIR
<1> QED
  BY <1>1, <1>2, <1>3 DEF s_andn2_b64, s_mov_b64, s_or_b64, label, ElseIR, LabelIR

\* What the compiler issues.
Issues ==
  \/ \E i \in Comparisons : /\ If(i)
                            /\ todo' = <<CmpIR(i), SaveIR(MaskFrame(i).save), NarrowIR, UseMask>>
  \/ \E i \in Comparisons, ir \in BranchIRs(2 * ifs + 1) : UniformIf(i) /\ todo' = <<FlagIR(i), ir>>
  \/ Else /\ todo' = <<ElseIR(Top.save), UseMask>>
  \/ \E ir \in RestoreIRs(Top.save) : EndIf /\ todo' = <<ir, UseMask>>
  \/ UniformElse /\ todo' = <<JumpIR(Top.label + 1), LabelIR(Top.label)>>
  \/ UniformEndIf /\ todo' = <<LabelIR(Top.label)>>
  \/ \E ir \in BodyIRs : todo' = <<ir>> /\ UNCHANGED <<frames, ifs, hw, waves>>

LEMMA StepsIssue ==
  ASSUME [KernelNext]_kvars
  PROVE  Step \/ UNCHANGED kvars \/ (Ready /\ Issues /\ UNCHANGED vars)
<1>1. ASSUME NEW i \in Comparisons, If(i) PROVE Ready /\ Issues /\ UNCHANGED vars
  BY <1>1, Lowered DEF If, Open, Issue, Issues, MaskFrame
<1>2. ASSUME NEW i \in Comparisons, UniformIf(i) PROVE Ready /\ Issues /\ UNCHANGED vars
  BY <1>2, Lowered DEF UniformIf, Open, Issue, Issues, BranchIRs
<1>3. CASE Else
  BY <1>3, Lowered DEF Else, InBranchOf, Issue, Issues
<1>4. CASE EndIf
  BY <1>4, Lowered DEF EndIf, InBranchOf, Issue, Issues, RestoreIRs
<1>5. CASE UniformElse
  BY <1>5, Lowered DEF UniformElse, InBranchOf, Issue, Issues
<1>6. CASE UniformEndIf
  BY <1>6, Lowered DEF UniformEndIf, InBranchOf, Issue, Issues
<1>7. CASE (\E v \in Data : Compute(v)) \/ Store \/ s_endpgm
  BY <1>7 DEF Compute, Store, Body, s_endpgm, Issue, Issues, BodyIRs
<1> QED
  BY <1>1, <1>2, <1>3, <1>4, <1>5, <1>6, <1>7 DEF KernelNext
\* The registers that the instructions of a kernel name.
LEMMA KernelRegs ==
  /\ {"exec", "vcc"} \subseteq Preds /\ Preds \subseteq Regs /\ ScalarSet \subseteq Regs
  /\ Data \subseteq ScalarSet /\ Preds \cap ScalarSet = {}
  /\ \A k \in 1 .. Len(Saves) : Saves[k] \in ScalarSet
  /\ \A j, k \in 1 .. Len(Saves) : Saves[j] = Saves[k] => j = k
  /\ Len(Saves) \in Nat
  BY KernelAssumption, ConstantsAssumption, LenProperties DEF Regs

\* The next instruction is one of the IR, and the others remain.
LEMMA TodoStep ==
  ASSUME TodoInv, Step
  PROVE  Head(todo) \in IRs /\ TodoInv'
  BY HeadTailProperties DEF TodoInv, Step

\* All lists of IR instructions that are issued are of the right kind.
LEMMA IssuesType ==
  ASSUME FramesInv, Issues
  PROVE  TodoInv'
<1>1. UseMask \in IRs /\ NarrowIR \in IRs
  BY KernelRegs DEF IRs, IR, UseMask, NarrowIR
<1>2. \A s \in ScalarSet : SaveIR(s) \in IRs /\ ElseIR(s) \in IRs /\ RestoreIRs(s) \subseteq IRs
  BY KernelRegs DEF IRs, IR, SaveIR, ElseIR, RestoreIRs
<1>3. \A i \in Comparisons : CmpIR(i) \in IRs /\ ("scc" \in Preds => FlagIR(i) \in IRs)
  BY KernelRegs DEF IRs, IR, CmpIR, FlagIR
<1>4. \A l \in Labels : JumpIR(l) \in IRs /\ LabelIR(l) \in IRs /\ BranchIRs(l) \subseteq IRs
  BY DEF IRs, IR, JumpIR, LabelIR, BranchIRs
<1>5. BodyIRs \subseteq IRs
  BY KernelRegs DEF IRs, IR, BodyIRs
<1>6. ASSUME NEW i \in Comparisons, If(i), todo' = <<CmpIR(i), SaveIR(MaskFrame(i).save), NarrowIR, UseMask>>
      PROVE  TodoInv'
  <2>1. MaskFrame(i).save \in ScalarSet
    BY <1>6, IfOpens
  <2> QED
    BY <1>1, <1>2, <1>3, <1>6, <2>1 DEF TodoInv
<1>7. ASSUME NEW i \in Comparisons, UniformIf(i), NEW ir \in BranchIRs(2 * ifs + 1), todo' = <<FlagIR(i), ir>>
      PROVE  TodoInv'
  <2>1. 2 * ifs + 1 \in Labels
    BY <1>7, UniformIfOpens
  <2>2. "scc" \in Preds
    BY <2>1, LabelsType
  <2> QED
    BY <1>3, <1>4, <1>7, <2>1, <2>2 DEF TodoInv
<1>8. CASE Else /\ todo' = <<ElseIR(Top.save), UseMask>>
  <2>1. Top.save \in ScalarSet
    BY <1>8, ElseTurns, FrameType DEF Else, InBranchOf
  <2> QED
    BY <1>1, <1>2, <1>8, <2>1 DEF TodoInv
<1>9. ASSUME EndIf, NEW ir \in RestoreIRs(Top.save), todo' = <<ir, UseMask>> PROVE TodoInv'
  <2>1. Top.save \in ScalarSet
    BY <1>9, EndIfCloses, FrameType DEF EndIf, InBranchOf
  <2> QED
    BY <1>1, <1>2, <1>9, <2>1 DEF TodoInv
<1>10. CASE UniformElse /\ todo' = <<JumpIR(Top.label + 1), LabelIR(Top.label)>>
  <2>1. Top.label \in Labels
    BY <1>10, ElseTurns, FrameType DEF UniformElse, InBranchOf
  <2>2. Top.label + 1 \in Labels
    BY <1>10, ElseTurns, NestedElse DEF UniformElse, InBranchOf, FramesInv, Top
  <2> QED
    BY <1>4, <1>10, <2>1, <2>2 DEF TodoInv
<1>11. CASE UniformEndIf /\ todo' = <<LabelIR(Top.label)>>
  <2>1. Top.label \in Labels
    BY <1>11, EndIfCloses, FrameType DEF UniformEndIf, InBranchOf
  <2> QED
    BY <1>4, <1>11, <2>1 DEF TodoInv
<1>12. CASE \E ir \in BodyIRs : todo' = <<ir>>
  BY <1>5, <1>12 DEF TodoInv
<1> QED
  BY <1>6, <1>7, <1>8, <1>9, <1>10, <1>11, <1>12 DEF Issues

\* One iteration of the pass is an instruction of the graph construction.
LEMMA BuildIsInstruction ==
  ASSUME NEW ir \in IRs, Build(ir)
  PROVE  Instruction
<1>1. CASE ir.op = "cmp"
  BY <1>1, KernelRegs DEF IRs, Build, Instruction
<1>2. CASE ir.op \in {"mov", "and", "or", "xor"}
  BY <1>2 DEF IRs, Build, Instruction
<1>3. CASE ir.op = "change_mask"
  BY <1>3 DEF IRs, Build, Instruction
<1>4. CASE ir.op \in {"bra", "bra_n", "jump", "label"}
  BY <1>4 DEF IRs, Build, Instruction
<1>5. CASE ir.op = "arith"
  BY <1>5 DEF IRs, Build, Instruction
<1>6. CASE ir.op \in {"store", "endpgm"}
  BY <1>6 DEF Build, Instruction
<1> QED
  BY <1>1, <1>2, <1>3, <1>4, <1>5, <1>6 DEF IRs

\* A structured kernel of any length, with any conditionals, is an instruction list of module
\* Cfg, so that whatever holds of the graph of every instruction list holds of its graph.
THEOREM KernelIsInstructionList == KernelSpec => Spec
<1>1. KernelInit => Init /\ FramesInv /\ TodoInv
  <2> SUFFICES ASSUME KernelInit PROVE FramesInv /\ TodoInv
    BY DEF KernelInit
  <2>1. ifs \in 0 .. MaxIfs /\ waves \in SUBSET Lanes
    BY KernelAssumption DEF KernelInit
  <2>2. Nested(<<>>, 0)
    BY KernelRegs DEF Nested
  <2> QED
    BY <2>1, <2>2 DEF KernelInit, FramesInv, TodoInv
<1>2. FramesInv /\ TodoInv /\ [KernelNext]_kvars => FramesInv' /\ TodoInv' /\ [Next]_vars
  <2> SUFFICES ASSUME FramesInv, TodoInv, [KernelNext]_kvars PROVE TodoInv' /\ [Next]_vars
    BY FramesKept
  <2>1. CASE Step
    BY <2>1, TodoStep, BuildIsInstruction DEF Step, Next
  <2>2. CASE UNCHANGED kvars
    BY <2>2 DEF kvars, hardware, TodoInv
  <2>3. CASE Issues /\ UNCHANGED vars
    BY <2>3, IssuesType
  <2> QED
    BY <2>1, <2>2, <2>3, StepsIssue
<1> QED
  BY <1>1, <1>2, PTL DEF KernelSpec, Spec
------------------------------------------------------------------------------
(***************************************************************************)
(* What the open conditionals require, and the hardware.                   *)
(***************************************************************************)
\* The text that a branch of a conditional adds, and the condition in the first k conditionals.
Literal(f) == IF f.branch = "then" THEN Cmp(f.cmp) ELSE Wrap(Cmp(f.cmp))
Cond(fs, k) == {Literal(fs[j]) : j \in {i \in 1 .. k : fs[i].kind = "mask"}}

LEMMA CondSame ==
  ASSUME NEW fs, NEW gs, NEW k, \A i \in 1 .. k : fs[i] = gs[i]
  PROVE  Cond(fs, k) = Cond(gs, k)
  BY DEF Cond

LEMMA CondNext ==
  ASSUME NEW fs, NEW k \in Nat
  PROVE  /\ fs[k + 1].kind = "mask" => Cond(fs, k + 1) = Cond(fs, k) \cup {Literal(fs[k + 1])}
         /\ fs[k + 1].kind # "mask" => Cond(fs, k + 1) = Cond(fs, k)
<1>1. \A i : i \in 1 .. k + 1 <=> i \in 1 .. k \/ i = k + 1
  OBVIOUS
<1> QED
  BY <1>1 DEF Cond

LEMMA CondStep ==
  ASSUME NEW fs, NEW k \in Nat, k > 0
  PROVE  /\ fs[k].kind = "mask" => Cond(fs, k) = Cond(fs, k - 1) \cup {Literal(fs[k])}
         /\ fs[k].kind # "mask" => Cond(fs, k) = Cond(fs, k - 1)
<1>1. PICK j \in Nat : j = k - 1 /\ k = j + 1
  OBVIOUS
<1> QED
  BY <1>1, CondNext

LEMMA LiteralType ==
  ASSUME NEW f \in Frame
  PROVE  /\ Literal(f) \in Text \ {DEFAULT} /\ Literal(f).id = f.cmp
         /\ Literal(f).kind = "cmp" /\ Literal(f).neg = IF f.branch = "then" THEN 0 ELSE 1
  BY FrameType, LabelsType DEF Literal, Cmp, Wrap, Text, Kinds, DEFAULT, Sides

LEMMA LiteralHolds ==
  ASSUME NEW f \in Frame, NEW l \in Lanes
  PROVE  Holds(l, Literal(f)) <=> (IF f.branch = "then" THEN l \in True(f.cmp) ELSE l \notin True(f.cmp))
<1>1. Literal(f).neg % 2 = IF f.branch = "then" THEN 0 ELSE 1
  BY LiteralType
<1>2. Holds(l, Literal(f)) <=> (IF f.branch = "then" THEN <<"cmp", f.cmp>> \in l ELSE <<"cmp", f.cmp>> \notin l)
  BY <1>1, LiteralType DEF Holds
<1> QED
  BY <1>2 DEF True

LEMMA SatisfiesMore ==
  ASSUME NEW lane, NEW C, NEW c
  PROVE  Satisfies(lane, C \cup {c}) <=> Satisfies(lane, C) /\ Holds(lane, c)
  BY DEF Satisfies
\* A lane goes through the conditionals above k, or waits at one of them.
Beyond(fs, w, k, l) == l \in w \/ \E j \in k + 1 .. Len(fs) : fs[j].kind = "branch" /\ l \in fs[j].waves

\* The lanes of the wave that is here execute what the open conditionals require.
ExecRight == \A l \in waves : l \in hw["exec"] <=> Satisfies(l, Cond(frames, Len(frames)))

\* A saved exec has the lanes of the conditionals around its own.
SavedRight ==
  \A k \in 1 .. Len(frames) : frames[k].kind = "mask" =>
    \A l \in Lanes : Beyond(frames, waves, k, l) =>
      (l \in hw[frames[k].save] <=> Satisfies(l, Cond(frames, k - 1)))

\* The lanes that wait for the end of a branch or for its else keep the exec they came with.
WaitingRight ==
  \A k \in 1 .. Len(frames) : frames[k].kind = "branch" =>
    \A l \in frames[k].waves : ~Beyond(frames, waves, k, l) =>
      (l \in hw["exec"] <=> Satisfies(l, Cond(frames, k - 1)))

\* Each conditional that branches is reached by a part of what reached the one around it.
WavesNested ==
  \A k \in 1 .. Len(frames) : frames[k].kind = "branch" =>
    /\ waves \subseteq frames[k].waves
    /\ \A j \in 1 .. k - 1 : frames[j].kind = "branch" => frames[k].waves \subseteq frames[j].waves

HwInv == hw \in [Regs -> SUBSET Lanes] /\ ExecRight /\ SavedRight /\ WaitingRight /\ WavesNested

LEMMA WriteHas ==
  ASSUME NEW r, NEW S, NEW l
  PROVE  l \in Write(r, S) <=> IF l \in waves THEN l \in S ELSE l \in hw[r]
  BY DEF Write

\* What FramesInv says of the conditionals, one by one.
LEMMA FramesFacts ==
  ASSUME FramesInv
  PROVE  /\ Len(frames) \in Nat /\ waves \in SUBSET Lanes
         /\ \A k \in 1 .. Len(frames) :
              /\ frames[k] \in Frame /\ frames[k].kind \in {"mask", "branch"}
              /\ frames[k].kind = "mask" => frames[k].save = Saves[k] /\ Saves[k] \in ScalarSet
              /\ frames[k].kind = "branch" => frames[k].waves \in SUBSET Lanes
         /\ Len(frames) <= Len(Saves) /\ Len(Saves) \in Nat
<1>1. frames \in Seq(Frame) /\ Len(frames) \in Nat /\ Len(frames) <= Len(Saves) /\ Len(Saves) \in Nat
  BY LenProperties, KernelRegs DEF FramesInv, Nested
<1>2. \A k \in 1 .. Len(frames) : frames[k] \in Frame /\ (frames[k].kind = "mask" => frames[k].save = Saves[k])
  BY <1>1, LenProperties DEF FramesInv, Nested
<1> QED
  BY <1>1, <1>2, FrameType, KernelRegs DEF FramesInv

\* v_cmp; s_and_saveexec: the lanes for which the comparison holds remain, the others are saved.
LEMMA IfHw ==
  ASSUME FramesInv, HwInv, NEW i \in Comparisons, If(i)
  PROVE  HwInv'
<1> DEFINE n == Len(frames)
           s == Saves[n + 1]
           f == MaskFrame(i)
<1>1. /\ n \in Nat /\ n < Len(Saves) /\ waves' = waves /\ waves \in SUBSET Lanes
      /\ frames' = Append(frames, f) /\ f \in Frame /\ f.kind = "mask" /\ f.branch = "then"
      /\ f.cmp = i /\ f.save = s /\ s \in ScalarSet
  BY IfOpens, FramesFacts DEF Opens, MaskFrame, If, Open
<1>2. /\ Len(frames') = n + 1 /\ frames'[n + 1] = f
      /\ \A k \in 1 .. n : frames'[k] = frames[k]
  BY <1>1, AppendProperties DEF FramesInv, Nested
<1>3. /\ hw' \in [Regs -> SUBSET Lanes]
      /\ \A l \in waves : /\ l \in hw'["exec"] <=> l \in hw["exec"] /\ l \in True(i)
                          /\ l \in hw'[s] <=> l \in hw["exec"]
      /\ \A l \in Lanes \ waves : l \in hw'["exec"] <=> l \in hw["exec"]
      /\ \A r \in ScalarSet \ {s} : hw'[r] = hw[r]
  <2>1. /\ {"exec", "vcc", s} \subseteq Regs /\ s \notin {"exec", "vcc"}
        /\ ScalarSet \subseteq Regs /\ {"exec", "vcc"} \cap ScalarSet = {}
    BY <1>1, KernelRegs
  <2> DEFINE then == hw["exec"] \cap True(i)
  <2>2. hw' = [hw EXCEPT !["vcc"] = Write("vcc", then), ![s] = Write(s, hw["exec"]), !["exec"] = Write("exec", then)]
    BY DEF If
  <2>3. then \in SUBSET Lanes /\ \A r \in Regs, S \in SUBSET Lanes : Write(r, S) \in SUBSET Lanes
    BY <2>1, <1>1 DEF HwInv, Write
  <2>4. /\ hw' \in [Regs -> SUBSET Lanes]
        /\ hw'["exec"] = Write("exec", then) /\ hw'[s] = Write(s, hw["exec"])
        /\ \A r \in ScalarSet \ {s} : hw'[r] = hw[r]
    <3> HIDE DEF then, s
    <3> QED
      BY <2>1, <2>2, <2>3 DEF HwInv
  <2> QED
    BY <2>4, WriteHas
<1> HIDE DEF n, s, f
<1>4. \A k \in 1 .. n : Cond(frames', k - 1) = Cond(frames, k - 1)
  <2>1. \A k \in 1 .. n : \A i_1 \in 1 .. k - 1 : i_1 \in 1 .. n
    BY <1>1
  <2> QED
    BY <1>2, <2>1, CondSame
<1>5. Cond(frames', n) = Cond(frames, n) /\ Cond(frames', n + 1) = Cond(frames, n) \cup {Literal(f)}
  <2>1. n + 1 \in Nat /\ n + 1 > 0 /\ n + 1 - 1 = n
    BY <1>1
  <2>2. Cond(frames', n) = Cond(frames, n)
    BY <1>2, CondSame
  <2>3. Cond(frames', n + 1) = Cond(frames', n) \cup {Literal(frames'[n + 1])}
    BY <1>1, <1>2, CondNext
  <2> QED
    BY <1>2, <2>1, <2>2, <2>3
<1>6. \A k \in 1 .. n : \A l : Beyond(frames', waves', k, l) <=> Beyond(frames, waves, k, l)
  BY <1>1, <1>2 DEF Beyond, n
<1>7. ExecRight'
  <2>1. ASSUME NEW l \in waves PROVE l \in hw'["exec"] <=> Satisfies(l, Cond(frames', n + 1))
    BY <1>1, <1>3, <1>5, <2>1, SatisfiesMore, LiteralHolds DEF HwInv, ExecRight, n
  <2> QED
    BY <1>1, <1>2, <2>1 DEF ExecRight
<1>8. SavedRight'
  <2>1. ASSUME NEW k \in 1 .. n, frames[k].kind = "mask", NEW l \in Lanes, Beyond(frames, waves, k, l)
        PROVE  l \in hw'[frames[k].save] <=> Satisfies(l, Cond(frames, k - 1))
    <3>1. frames[k].save \in ScalarSet \ {s}
      BY <1>1, <2>1, FramesFacts, KernelRegs DEF n, s
    <3> QED
      BY <1>3, <2>1, <3>1 DEF HwInv, SavedRight, n
  <2>2. ASSUME NEW l \in Lanes, Beyond(frames', waves', n + 1, l)
        PROVE  l \in hw'[s] <=> Satisfies(l, Cond(frames, n))
    <3>1. l \in waves
      BY <1>1, <1>2, <2>2 DEF Beyond
    <3> QED
      BY <1>3, <3>1 DEF HwInv, ExecRight, n
  <2>3. \A k \in 1 .. n + 1 : k \in 1 .. n \/ (k = n + 1 /\ k - 1 = n)
    BY <1>1
  <2> QED
    BY <1>1, <1>2, <1>4, <1>5, <1>6, <2>1, <2>2, <2>3 DEF SavedRight
<1>9. WaitingRight'
  <2>1. ASSUME NEW k \in 1 .. n, frames[k].kind = "branch", NEW l \in frames[k].waves, ~Beyond(frames, waves, k, l)
        PROVE  l \in hw'["exec"] <=> Satisfies(l, Cond(frames, k - 1))
    <3>1. l \in Lanes \ waves
      BY <2>1, FramesFacts DEF Beyond, n
    <3> QED
      BY <1>3, <2>1, <3>1 DEF HwInv, WaitingRight, n
  <2>2. \A k \in 1 .. n + 1 : k \in 1 .. n \/ k = n + 1
    BY <1>1
  <2> QED
    BY <1>1, <1>2, <1>4, <1>6, <2>1, <2>2 DEF WaitingRight
<1>10. WavesNested'
  <2>1. \A k \in 1 .. n + 1 : k \in 1 .. n \/ k = n + 1
    BY <1>1
  <2>2. \A k \in 1 .. n : \A j \in 1 .. k - 1 : j \in 1 .. n
    BY <1>1
  <2> QED
    BY <1>1, <1>2, <2>1, <2>2 DEF HwInv, WavesNested, n
<1> QED
  BY <1>3, <1>7, <1>8, <1>9, <1>10 DEF HwInv
\* The newest conditional, and the conditions around it and in it.
LEMMA TopFacts ==
  ASSUME FramesInv, frames # <<>>
  PROVE  LET n == Len(frames)
         IN  /\ n \in Nat /\ n > 0 /\ n \in 1 .. n /\ Top = frames[n] /\ Top \in Frame
             /\ Top.kind = "mask" => /\ Top.save = Saves[n] /\ Top.save \in ScalarSet
                                     /\ Cond(frames, n) = Cond(frames, n - 1) \cup {Literal(Top)}
             /\ Top.kind = "branch" => Top.waves \in SUBSET Lanes /\ Cond(frames, n) = Cond(frames, n - 1)
<1>1. Len(frames) \in Nat /\ Len(frames) > 0 /\ Len(frames) \in 1 .. Len(frames)
  BY FrontProperties DEF FramesInv, Nested
<1> QED
  BY <1>1, FramesFacts, CondStep DEF Top

\* What happens to the conditions around when the newest conditional changes or goes.
LEMMA AroundTop ==
  ASSUME FramesInv, NEW gs, \A k \in 1 .. Len(frames) - 1 : gs[k] = frames[k]
  PROVE  \A k \in 1 .. Len(frames) : Cond(gs, k - 1) = Cond(frames, k - 1)
<1>1. \A k \in 1 .. Len(frames) : \A i \in 1 .. k - 1 : i \in 1 .. Len(frames) - 1
  BY FramesFacts
<1> QED
  BY <1>1, CondSame

\* s_andn2: the lanes that were saved and are not in the then-branch.
LEMMA ElseHw ==
  ASSUME FramesInv, HwInv, Else
  PROVE  HwInv'
<1> DEFINE n == Len(frames)
           s == Top.save
<1>1. /\ n \in Nat /\ n > 0 /\ waves' = waves /\ waves \in SUBSET Lanes
      /\ Top = frames[n] /\ Top \in Frame /\ Top.kind = "mask" /\ Top.branch = "then"
      /\ s \in ScalarSet /\ Cond(frames, n) = Cond(frames, n - 1) \cup {Literal(Top)}
  BY TopFacts, FramesFacts DEF Else, InBranchOf
<1>2. /\ Elsed(Top) \in Frame /\ Elsed(Top).kind = "mask" /\ Elsed(Top).branch = "else"
      /\ Elsed(Top).cmp = Top.cmp /\ Elsed(Top).save = s
  BY <1>1, ElsedType
<1>3. /\ Len(frames') = n /\ frames'[n] = Elsed(Top)
      /\ \A k \in 1 .. n - 1 : frames'[k] = frames[k]
  BY <1>1, ElseTurns, NestedElse DEF Turns, FramesInv, Top
<1>4. \A k \in 1 .. n : k \in 1 .. n - 1 \/ k = n
  BY <1>1
<1>5. \A k \in 1 .. n : /\ frames'[k].kind = frames[k].kind
                        /\ frames[k].kind = "mask" => frames'[k].save = frames[k].save
                        /\ frames[k].kind = "branch" => frames'[k] = frames[k]
  BY <1>1, <1>2, <1>3, <1>4
<1>6. /\ hw' \in [Regs -> SUBSET Lanes] /\ hw'["exec"] = Write("exec", hw[s] \ hw["exec"])
      /\ \A r \in ScalarSet : hw'[r] = hw[r]
  <2>1. "exec" \in Regs /\ "exec" \notin ScalarSet /\ ScalarSet \subseteq Regs
    BY KernelRegs
  <2>2. hw' = [hw EXCEPT !["exec"] = Write("exec", hw[s] \ hw["exec"])]
    BY DEF Else
  <2>3. Write("exec", hw[s] \ hw["exec"]) \in SUBSET Lanes
    BY <1>1, <2>1 DEF HwInv, Write
  <2> HIDE DEF s
  <2> QED
    BY <2>1, <2>2, <2>3 DEF HwInv
<1>7. \A k \in 1 .. n : Cond(frames', k - 1) = Cond(frames, k - 1)
  BY <1>3, AroundTop
<1>8. Cond(frames', n) = Cond(frames, n - 1) \cup {Literal(Elsed(Top))}
  BY <1>1, <1>2, <1>3, <1>4, <1>7, CondStep
<1>9. \A k \in 1 .. n : \A l : Beyond(frames', waves', k, l) <=> Beyond(frames, waves, k, l)
  <2>1. \A k \in 1 .. n : \A j \in k + 1 .. n : j \in 1 .. n
    BY <1>1
  <2> QED
    BY <1>1, <1>3, <1>5, <2>1 DEF Beyond
<1>10. \A l \in waves : l \in hw[s] <=> Satisfies(l, Cond(frames, n - 1))
  BY <1>1 DEF HwInv, SavedRight, Beyond
<1> HIDE DEF n, s
<1>11. ExecRight'
  <2>1. ASSUME NEW l \in waves PROVE l \in hw'["exec"] <=> Satisfies(l, Cond(frames', n))
    <3>1. l \in hw'["exec"] <=> l \in hw[s] /\ l \notin hw["exec"]
      BY <1>6, WriteHas
    <3>2. l \in hw["exec"] <=> Satisfies(l, Cond(frames, n - 1)) /\ l \in True(Top.cmp)
      BY <1>1, SatisfiesMore, LiteralHolds DEF HwInv, ExecRight, n
    <3>3. Satisfies(l, Cond(frames', n)) <=> Satisfies(l, Cond(frames, n - 1)) /\ l \notin True(Top.cmp)
      BY <1>1, <1>2, <1>8, SatisfiesMore, LiteralHolds
    <3> QED
      BY <1>10, <3>1, <3>2, <3>3
  <2> QED
    BY <1>1, <1>3, <2>1 DEF ExecRight
<1>12. SavedRight'
  <2>1. \A k \in 1 .. n : frames[k].kind = "mask" => frames[k].save \in ScalarSet
    BY FramesFacts DEF n
  <2> QED
    BY <1>3, <1>5, <1>6, <1>7, <1>9, <2>1 DEF HwInv, SavedRight, n
<1>13. WaitingRight'
  <2>1. ASSUME NEW k \in 1 .. n, frames[k].kind = "branch", NEW l \in frames[k].waves, ~Beyond(frames, waves, k, l)
        PROVE  l \in hw'["exec"] <=> Satisfies(l, Cond(frames, k - 1))
    <3>1. l \notin waves
      BY <2>1 DEF Beyond
    <3> QED
      BY <1>6, <2>1, <3>1, WriteHas DEF HwInv, WaitingRight, n
  <2> QED
    BY <1>3, <1>5, <1>7, <1>9, <2>1 DEF WaitingRight
<1>14. WavesNested'
  <2>1. \A k \in 1 .. n : \A j \in 1 .. k - 1 : j \in 1 .. n
    BY <1>1
  <2> QED
    BY <1>1, <1>3, <1>5, <2>1 DEF HwInv, WavesNested, n
<1> QED
  BY <1>6, <1>11, <1>12, <1>13, <1>14 DEF HwInv

\* The newest conditional is left.
LEMMA Left ==
  ASSUME FramesInv, Closes
  PROVE  LET n == Len(frames)
         IN  /\ Len(frames') = n - 1 /\ \A k \in 1 .. n - 1 : frames'[k] = frames[k]
             /\ \A k \in 1 .. n : Cond(frames', k - 1) = Cond(frames, k - 1)
<1>1. /\ frames' = Front(frames) /\ Len(Front(frames)) = Len(frames) - 1
      /\ \A k \in 1 .. Len(frames) - 1 : Front(frames)[k] = frames[k]
  BY FrontProperties DEF FramesInv, Nested, Closes
<1>2. \A k \in 1 .. Len(frames) : Cond(Front(frames), k - 1) = Cond(frames, k - 1)
  BY <1>1, AroundTop
<1> QED
  BY <1>1, <1>2

\* s_mov or s_or of the saved exec: the lanes of the conditional around are back.
LEMMA EndIfHw ==
  ASSUME FramesInv, HwInv, EndIf
  PROVE  HwInv'
<1> DEFINE n == Len(frames)
           s == Top.save
<1>1. /\ n \in Nat /\ n > 0 /\ waves' = waves /\ waves \in SUBSET Lanes
      /\ Top = frames[n] /\ Top \in Frame /\ Top.kind = "mask"
      /\ s \in ScalarSet /\ Cond(frames, n) = Cond(frames, n - 1) \cup {Literal(Top)}
  <2>1. frames # <<>> /\ Top.kind = "mask" /\ waves' = waves
    BY DEF EndIf, InBranchOf
  <2> QED
    BY <2>1, TopFacts, FramesFacts
<1>2. /\ Len(frames') = n - 1
      /\ \A k \in 1 .. n - 1 : frames'[k] = frames[k]
      /\ \A k \in 1 .. n : Cond(frames', k - 1) = Cond(frames, k - 1)
  BY EndIfCloses, Left
<1>3. \A k \in 1 .. n - 1 : k \in 1 .. n
  BY <1>1
<1>4. \A k \in 1 .. n - 1 : \A l : Beyond(frames', waves', k, l) <=> Beyond(frames, waves, k, l)
  <2>1. \A k \in 1 .. n - 1 : \A j : j \in k + 1 .. n <=> j \in k + 1 .. n - 1 \/ j = n
    BY <1>1
  <2>2. \A k \in 1 .. n - 1 : \A j \in k + 1 .. n - 1 : frames'[j] = frames[j]
    BY <1>1, <1>2
  <2> QED
    BY <1>1, <1>2, <2>1, <2>2 DEF Beyond
<1>5. \A l \in waves : l \in hw[s] <=> Satisfies(l, Cond(frames, n - 1))
  BY <1>1 DEF HwInv, SavedRight, Beyond
<1>6. \A l \in waves : l \in hw["exec"] <=> Satisfies(l, Cond(frames, n - 1)) /\ Holds(l, Literal(Top))
  BY <1>1, SatisfiesMore DEF HwInv, ExecRight
<1>7. /\ hw' \in [Regs -> SUBSET Lanes]
      /\ \A r \in ScalarSet : hw'[r] = hw[r]
      /\ \A l \in waves : l \in hw'["exec"] <=> Satisfies(l, Cond(frames, n - 1))
      /\ \A l \in Lanes \ waves : l \in hw'["exec"] <=> l \in hw["exec"]
  <2>1. "exec" \in Regs /\ "exec" \notin ScalarSet /\ ScalarSet \subseteq Regs
    BY KernelRegs
  <2>2. PICK S \in {hw[s], hw["exec"] \cup hw[s]} : hw' = [hw EXCEPT !["exec"] = Write("exec", S)]
    BY DEF EndIf
  <2>3. S \in SUBSET Lanes /\ \A l \in waves : l \in S <=> Satisfies(l, Cond(frames, n - 1))
    BY <1>1, <1>5, <1>6, <2>1 DEF HwInv
  <2>4. Write("exec", S) \in SUBSET Lanes
    BY <1>1, <2>1, <2>3 DEF HwInv, Write
  <2>5. /\ hw' \in [Regs -> SUBSET Lanes] /\ hw'["exec"] = Write("exec", S)
        /\ \A r \in ScalarSet : hw'[r] = hw[r]
    BY <2>1, <2>2, <2>4 DEF HwInv
  <2> QED
    BY <2>3, <2>5, WriteHas
<1> HIDE DEF n, s
<1>8. n \in 1 .. n
  BY <1>1
<1>9. ExecRight'
  BY <1>1, <1>2, <1>7, <1>8 DEF ExecRight
<1>10. SavedRight'
  <2>1. \A k \in 1 .. n : frames[k].kind = "mask" => frames[k].save \in ScalarSet
    BY FramesFacts DEF n
  <2> QED
    BY <1>2, <1>3, <1>4, <1>7, <2>1 DEF HwInv, SavedRight, n
<1>11. WaitingRight'
  <2>1. ASSUME NEW k \in 1 .. n - 1, frames[k].kind = "branch", NEW l \in frames[k].waves, ~Beyond(frames, waves, k, l)
        PROVE  l \in hw'["exec"] <=> Satisfies(l, Cond(frames, k - 1))
    <3>1. l \in Lanes \ waves
      BY <1>3, <2>1, FramesFacts DEF Beyond, n
    <3> QED
      BY <1>3, <1>7, <2>1, <3>1 DEF HwInv, WaitingRight, n
  <2> QED
    BY <1>2, <1>3, <1>4, <2>1 DEF WaitingRight
<1>12. WavesNested'
  <2>1. \A k \in 1 .. n - 1 : \A j \in 1 .. k - 1 : j \in 1 .. n - 1
    BY <1>1
  <2> QED
    BY <1>1, <1>2, <1>3, <2>1 DEF HwInv, WavesNested, n
<1> QED
  BY <1>7, <1>9, <1>10, <1>11, <1>12 DEF HwInv

\* s_cmp and a branch: the waves that branch away wait, with the exec they have.
LEMMA UniformIfHw ==
  ASSUME FramesInv, HwInv, NEW i \in Comparisons, UniformIf(i)
  PROVE  HwInv'
<1> DEFINE n == Len(frames)
           f == BranchFrame(i)
<1>1. /\ n \in Nat /\ waves \in SUBSET Lanes /\ waves' \in SUBSET waves /\ hw' = hw
      /\ frames' = Append(frames, f) /\ f \in Frame /\ f.kind = "branch" /\ f.waves = waves
  BY UniformIfOpens, FramesFacts DEF Opens, BranchFrame, UniformIf
<1>2. /\ Len(frames') = n + 1 /\ frames'[n + 1] = f
      /\ \A k \in 1 .. n : frames'[k] = frames[k]
  BY <1>1, AppendProperties DEF FramesInv, Nested
<1> HIDE DEF n, f
<1>3. \A k \in 1 .. n + 1 : k \in 1 .. n \/ (k = n + 1 /\ k - 1 = n)
  BY <1>1
<1>4. \A k \in 1 .. n : Cond(frames', k - 1) = Cond(frames, k - 1)
  <2>1. \A k \in 1 .. n : \A j \in 1 .. k - 1 : j \in 1 .. n
    BY <1>1
  <2> QED
    BY <1>2, <2>1, CondSame
<1>5. Cond(frames', n) = Cond(frames, n) /\ Cond(frames', n + 1) = Cond(frames, n)
  <2>1. Cond(frames', n) = Cond(frames, n)
    BY <1>2, CondSame
  <2> QED
    BY <1>1, <1>2, <2>1, CondNext
<1>6. \A k \in 1 .. n : \A l : Beyond(frames', waves', k, l) <=> Beyond(frames, waves, k, l)
  <2>1. \A k \in 1 .. n : \A j : j \in k + 1 .. n + 1 <=> j \in k + 1 .. n \/ j = n + 1
    BY <1>1
  <2>2. \A k \in 1 .. n : \A j \in k + 1 .. n : frames'[j] = frames[j]
    BY <1>1, <1>2
  <2> QED
    BY <1>1, <1>2, <2>1, <2>2 DEF Beyond, n
<1>7. ExecRight'
  BY <1>1, <1>2, <1>5 DEF HwInv, ExecRight, n
<1>8. SavedRight'
  BY <1>1, <1>2, <1>3, <1>4, <1>6 DEF HwInv, SavedRight, n
<1>9. WaitingRight'
  <2>1. \A l \in waves : l \in hw["exec"] <=> Satisfies(l, Cond(frames, n))
    BY DEF HwInv, ExecRight, n
  <2> QED
    BY <1>1, <1>2, <1>3, <1>4, <1>5, <1>6, <2>1 DEF HwInv, WaitingRight, n
<1>10. WavesNested'
  <2>1. \A k \in 1 .. n : \A j \in 1 .. k - 1 : j \in 1 .. n
    BY <1>1
  <2> QED
    BY <1>1, <1>2, <1>3, <2>1 DEF HwInv, WavesNested, n
<1> QED
  BY <1>1, <1>7, <1>8, <1>9, <1>10 DEF HwInv

\* s_branch and the label of the else: the waves that waited there take over.
LEMMA UniformElseHw ==
  ASSUME FramesInv, HwInv, UniformElse
  PROVE  HwInv'
<1> DEFINE n == Len(frames)
<1>1. /\ n \in Nat /\ n > 0 /\ n \in 1 .. n /\ waves \in SUBSET Lanes /\ hw' = hw
      /\ waves' = Top.waves \ waves /\ Top.waves \in SUBSET Lanes
      /\ Top = frames[n] /\ Top \in Frame /\ Top.kind = "branch" /\ Top.branch = "then"
      /\ Cond(frames, n) = Cond(frames, n - 1)
  <2>1. frames # <<>> /\ Top.kind = "branch" /\ Top.branch = "then"
        /\ waves' = Top.waves \ waves /\ hw' = hw
    BY DEF UniformElse, InBranchOf
  <2> QED
    BY <2>1, TopFacts, FramesFacts
<1>2. /\ Len(frames') = n /\ frames'[n] = Elsed(Top)
      /\ \A k \in 1 .. n - 1 : frames'[k] = frames[k]
      /\ Elsed(Top).kind = "branch" /\ Elsed(Top).waves = Top.waves
  BY <1>1, ElseTurns, NestedElse, ElsedType DEF Turns, FramesInv, Top
<1> HIDE DEF n
<1>3. \A k \in 1 .. n : k \in 1 .. n - 1 \/ k = n
  BY <1>1
<1>4. \A k \in 1 .. n : Cond(frames', k - 1) = Cond(frames, k - 1)
  BY <1>2, AroundTop DEF n
<1>5. Cond(frames', n) = Cond(frames, n)
  BY <1>1, <1>2, <1>4, CondStep
<1>6. waves \subseteq Top.waves
  BY <1>1 DEF HwInv, WavesNested, n
<1>7. \A k \in 1 .. n - 1 : \A l : Beyond(frames', waves', k, l) <=> Beyond(frames, waves, k, l)
  <2>1. \A k \in 1 .. n - 1 : \A j : j \in k + 1 .. n <=> j \in k + 1 .. n - 1 \/ j = n
    BY <1>1
  <2>2. \A k \in 1 .. n - 1 : \A j \in k + 1 .. n - 1 : frames'[j] = frames[j]
    BY <1>1, <1>2
  <2> QED
    BY <1>1, <1>2, <1>6, <2>1, <2>2 DEF Beyond, n
<1>8. \A l : (Beyond(frames', waves', n, l) <=> l \in waves') /\ (Beyond(frames, waves, n, l) <=> l \in waves)
  <2>1. n + 1 .. n = {}
    BY <1>1
  <2> QED
    BY <1>2, <2>1 DEF Beyond, n
<1>9. ExecRight'
  BY <1>1, <1>2, <1>5, <1>8 DEF HwInv, WaitingRight, ExecRight, n
<1>10. SavedRight'
  BY <1>1, <1>2, <1>3, <1>4, <1>7 DEF HwInv, SavedRight, n
<1>11. WaitingRight'
  <2>1. \A l \in waves : l \in hw["exec"] <=> Satisfies(l, Cond(frames, n - 1))
    BY <1>1 DEF HwInv, ExecRight, n
  <2> QED
    BY <1>1, <1>2, <1>3, <1>4, <1>7, <1>8, <2>1 DEF HwInv, WaitingRight, n
<1>12. WavesNested'
  <2>1. \A k \in 1 .. n : \A j \in 1 .. k - 1 : j \in 1 .. n - 1
    BY <1>1
  <2> QED
    BY <1>1, <1>2, <1>3, <2>1 DEF HwInv, WavesNested, n
<1> QED
  BY <1>1, <1>9, <1>10, <1>11, <1>12 DEF HwInv

\* The label of the end: all waves of the conditional are back.
LEMMA UniformEndIfHw ==
  ASSUME FramesInv, HwInv, UniformEndIf
  PROVE  HwInv'
<1> DEFINE n == Len(frames)
<1>1. /\ n \in Nat /\ n > 0 /\ n \in 1 .. n /\ waves \in SUBSET Lanes /\ hw' = hw
      /\ waves' = Top.waves /\ Top.waves \in SUBSET Lanes
      /\ Top = frames[n] /\ Top \in Frame /\ Top.kind = "branch"
      /\ Cond(frames, n) = Cond(frames, n - 1)
  <2>1. frames # <<>> /\ Top.kind = "branch" /\ waves' = Top.waves /\ hw' = hw
    BY DEF UniformEndIf, InBranchOf
  <2> QED
    BY <2>1, TopFacts, FramesFacts
<1>2. /\ Len(frames') = n - 1
      /\ \A k \in 1 .. n - 1 : frames'[k] = frames[k]
      /\ \A k \in 1 .. n : Cond(frames', k - 1) = Cond(frames, k - 1)
  BY EndIfCloses, Left
<1> HIDE DEF n
<1>3. \A k \in 1 .. n - 1 : k \in 1 .. n
  BY <1>1
<1>4. waves \subseteq Top.waves
  BY <1>1 DEF HwInv, WavesNested, n
<1>5. \A k \in 1 .. n - 1 : \A l : Beyond(frames', waves', k, l) <=> Beyond(frames, waves, k, l)
  <2>1. \A k \in 1 .. n - 1 : \A j : j \in k + 1 .. n <=> j \in k + 1 .. n - 1 \/ j = n
    BY <1>1
  <2>2. \A k \in 1 .. n - 1 : \A j \in k + 1 .. n - 1 : frames'[j] = frames[j]
    BY <1>1, <1>2
  <2> QED
    BY <1>1, <1>2, <1>4, <2>1, <2>2 DEF Beyond, n
<1>6. ExecRight'
  <2>1. \A l : Beyond(frames, waves, n, l) <=> l \in waves
    <3>1. n + 1 .. n = {}
      BY <1>1
    <3> QED
      BY <3>1 DEF Beyond, n
  <2>2. \A l \in Top.waves : l \in hw["exec"] <=> Satisfies(l, Cond(frames, n - 1))
    BY <1>1, <2>1 DEF HwInv, ExecRight, WaitingRight, n
  <2> QED
    BY <1>1, <1>2, <2>2 DEF ExecRight
<1>7. SavedRight'
  BY <1>1, <1>2, <1>3, <1>5 DEF HwInv, SavedRight, n
<1>8. WaitingRight'
  BY <1>1, <1>2, <1>3, <1>5 DEF HwInv, WaitingRight, n
<1>9. WavesNested'
  <2>1. \A k \in 1 .. n - 1 : \A j \in 1 .. k - 1 : j \in 1 .. n - 1
    BY <1>1
  <2> QED
    BY <1>1, <1>2, <1>3, <2>1 DEF HwInv, WavesNested, n
<1> QED
  BY <1>1, <1>6, <1>7, <1>8, <1>9 DEF HwInv

\* Whatever the kernel, the lanes of the wave execute what the open conditionals require.
LEMMA HwKept == FramesInv /\ HwInv /\ [KernelNext]_kvars => HwInv'
<1> SUFFICES ASSUME FramesInv, HwInv, [KernelNext]_kvars PROVE HwInv'
  OBVIOUS
<1>1. CASE Others
  BY <1>1, OthersKeep DEF HwInv, ExecRight, SavedRight, WaitingRight, WavesNested
<1> QED
  BY <1>1, KernelSteps, IfHw, ElseHw, EndIfHw, UniformIfHw, UniformElseHw, UniformEndIfHw

LEMMA HwInit == KernelInit => FramesInv /\ HwInv
<1> SUFFICES ASSUME KernelInit PROVE FramesInv /\ HwInv
  OBVIOUS
<1>1. ifs \in 0 .. MaxIfs /\ waves \in SUBSET Lanes
  BY KernelAssumption DEF KernelInit
<1>2. Nested(<<>>, 0)
  BY KernelRegs DEF Nested
<1>3. frames = <<>> /\ Len(frames) = 0 /\ 1 .. Len(frames) = {}
  BY DEF KernelInit
<1>4. hw \in [Regs -> SUBSET Lanes] /\ hw["exec"] = Lanes
  BY KernelRegs DEF KernelInit
<1>5. Cond(frames, Len(frames)) = {}
  BY <1>3 DEF Cond
<1> QED
  BY <1>1, <1>2, <1>3, <1>4, <1>5 DEF KernelInit, FramesInv, HwInv, ExecRight, SavedRight, WaitingRight,
     WavesNested, Satisfies

------------------------------------------------------------------------------
(***************************************************************************)
(* What the decompiler knows of the conditionals fs.  It lags behind the   *)
(* machine instructions, by the IR instructions in todo.                   *)
(***************************************************************************)
\* The masks that are open within the first k conditionals.
Masks(fs, k) == Cardinality({j \in 1 .. k : fs[j].kind = "mask"})

\* Node n is within the first k conditionals: it has their condition, and their saved execs.
Held(fs, k, n) == \A j \in 1 .. k : fs[j].kind = "mask" => Present(state[n], fs[j].save)
Within(fs, k, n) == n \in Nodes /\ mask[n] = Cond(fs, k) /\ Held(fs, k, n)

\* The newest node is within all of them.
Here(fs) == Within(fs, Len(fs), last_node)

\* The condition of a register that saves exec is that of the conditionals around.
SavesKnown(fs) ==
  \A k \in 1 .. Len(fs) : fs[k].kind = "mask" =>
    fs[k].save \in exec_known /\ exec_registers[fs[k].save] = Cond(fs, k - 1)

\* The stack has one mask for every conditional with a mask, and the root.
BlocksOpen(fs) ==
  /\ Len(masked_blocks) = Masks(fs, Len(fs)) + 1
  /\ \A k \in 0 .. Len(fs) : Within(fs, k, masked_blocks[Masks(fs, k) + 1].change_mask)

\* Branches wait for the label that a conditional has still to come to, the last of them from
\* where the conditional began; a then-branch has the label of its end before it.
Waits(fs, k, l) == from_node[l] # <<>> /\ Within(fs, k, Last(from_node[l]))
LabelsWait(fs) ==
  \A k \in 1 .. Len(fs) : fs[k].kind = "branch" =>
    /\ Waits(fs, k - 1, fs[k].label)
    /\ fs[k].branch = "then" => to_node[fs[k].label + 1] = 0

Settled(fs) == Here(fs) /\ SavesKnown(fs) /\ BlocksOpen(fs) /\ LabelsWait(fs)

ExecIs(C) == exec_registers["exec"] = C
SaveDone(fs, s) ==
  s \in exec_known /\ exec_registers[s] = Cond(fs, Len(fs)) /\ Present(state[last_node], s)

\* The IR instructions that remain of the opening of a conditional with a mask, f.
Masking(fs, f) ==
  \/ todo = <<CmpIR(f.cmp), SaveIR(f.save), NarrowIR, UseMask>> /\ ExecIs(Cond(fs, Len(fs)))
  \/ /\ todo = <<SaveIR(f.save), NarrowIR, UseMask>> /\ ExecIs(Cond(fs, Len(fs)))
     /\ state[last_node]["vcc"].text = Cmp(f.cmp)
  \/ /\ todo = <<NarrowIR, UseMask>> /\ ExecIs(Cond(fs, Len(fs)))
     /\ state[last_node]["vcc"].text = Cmp(f.cmp) /\ SaveDone(fs, f.save)
  \/ todo = <<UseMask>> /\ ExecIs(Cond(fs, Len(fs)) \cup {Literal(f)}) /\ SaveDone(fs, f.save)

\* Those that remain of its else, f being the then-branch.
Turning(fs, f) ==
  \/ todo = <<ElseIR(f.save), UseMask>> /\ ExecIs(Cond(fs, Len(fs)))
  \/ todo = <<UseMask>> /\ ExecIs(Cond(fs, Len(fs) - 1) \cup {Literal(Elsed(f))})

\* Those that remain of its end.
Restoring(fs, f) ==
  \/ (\E ir \in RestoreIRs(f.save) : todo = <<ir, UseMask>>) /\ ExecIs(Cond(fs, Len(fs)))
  \/ todo = <<UseMask>> /\ ExecIs(Cond(fs, Len(fs) - 1))

\* The same for a conditional that branches.
Branching(fs, f) ==
  /\ ExecIs(Cond(fs, Len(fs))) /\ to_node[f.label] = 0 /\ to_node[f.label + 1] = 0
  /\ \E ir \in BranchIRs(f.label) : todo = <<FlagIR(f.cmp), ir>> \/ todo = <<ir>>
Jumping(fs, f) ==
  /\ ExecIs(Cond(fs, Len(fs)))
  /\ \/ todo = <<JumpIR(f.label + 1), LabelIR(f.label)>>
     \/ todo = <<LabelIR(f.label)>> /\ Waits(fs, Len(fs) - 1, f.label + 1)
Labelling(fs, f) == ExecIs(Cond(fs, Len(fs))) /\ todo = <<LabelIR(f.label)>>

\* What the decompiler knows, fs, and what the machine instructions are at.
Opening(fs) ==
  /\ frames # <<>> /\ frames = Append(fs, Top) /\ Top.branch = "then"
  /\ \/ Top.kind = "mask" /\ Masking(fs, Top)
     \/ Top.kind = "branch" /\ Branching(fs, Top)
Switching(fs) ==
  /\ fs # <<>> /\ fs[Len(fs)].branch = "then" /\ frames = WithElse(fs)
  /\ \/ fs[Len(fs)].kind = "mask" /\ Turning(fs, fs[Len(fs)])
     \/ fs[Len(fs)].kind = "branch" /\ Jumping(fs, fs[Len(fs)])
Closing(fs) ==
  /\ fs # <<>> /\ frames = Front(fs)
  /\ \/ fs[Len(fs)].kind = "mask" /\ Restoring(fs, fs[Len(fs)])
     \/ fs[Len(fs)].kind = "branch" /\ Labelling(fs, fs[Len(fs)])
Level(fs) ==
  /\ frames = fs /\ ExecIs(Cond(fs, Len(fs)))
  /\ todo = <<>> \/ \E ir \in BodyIRs : todo = <<ir>>

Lags(fs) == Nested(fs, ifs) /\ Settled(fs) /\ (Opening(fs) \/ Switching(fs) \/ Closing(fs) \/ Level(fs))

\* No exception so far; the predicates are known everywhere, from the root on; the labels of
\* conditionals that are still to come have not been met.
Steady ==
  /\ running
  /\ \A p \in Preds : p \in exec_known /\ \A n \in Nodes : Present(state[n], p)
  /\ \A l \in Labels : l > 2 * ifs => to_node[l] = 0

MasksInv == TypeInv /\ FramesInv /\ HwInv /\ Steady /\ ((Ended /\ todo = <<>>) \/ \E fs : Lags(fs))

------------------------------------------------------------------------------
(***************************************************************************)
(* Conditions that differ in one comparison: C is the condition around a   *)
(* conditional that tests comparison i.                                    *)
(***************************************************************************)
Outside(C, i) == C \in Condition /\ i \in Comparisons /\ \A c \in C : c.id # i

LEMMA TextsOf ==
  ASSUME NEW C, NEW i, Outside(C, i)
  PROVE  /\ Cmp(i) \in Text \ {DEFAULT} /\ Wrap(Cmp(i)) \in Text \ {DEFAULT} /\ Cmp(i) # Wrap(Cmp(i))
         /\ Cmp(i) \notin C /\ Wrap(Cmp(i)) \notin C /\ DEFAULT \notin C
         /\ make_not(Cmp(i)) = Wrap(Cmp(i))
<1>1. i \in Nat
  BY LabelsType DEF Outside
<1>2. /\ Cmp(i) = [kind |-> "cmp", id |-> i, neg |-> 0]
      /\ Wrap(Cmp(i)) = [kind |-> "cmp", id |-> i, neg |-> 1]
  BY DEF Cmp, Wrap
<1> QED
  BY <1>1, <1>2 DEF Outside, Condition, Text, Kinds, DEFAULT, make_not

\* s_and of saveexec adds the comparison.
LEMMA AndNarrows ==
  ASSUME NEW C, NEW i, Outside(C, i)
  PROVE  ExecAnd(C, Cmp(i)) = C \cup {Cmp(i)} /\ StrictSubset(C, C \cup {Cmp(i)})
  BY TextsOf DEF ExecAnd, from_conditions, StrictSubset

\* The xor of s_andn2 negates it, which makes the else a sibling of the then-branch.
LEMMA XorTurns ==
  ASSUME NEW C, NEW i, Outside(C, i)
  PROVE  LET T == C \cup {Cmp(i)}
             E == C \cup {Wrap(Cmp(i))}
         IN  /\ xor_defined(C, T) /\ ExecXor(C, T) = E
             /\ ~(T \subseteq E) /\ ~(E \subseteq T) /\ Siblings(T, E) /\ sibling_parent(T, E) = C
<1> DEFINE t == Cmp(i)
           e == Wrap(Cmp(i))
           T == C \cup {t}
           E == C \cup {e}
<1>1. /\ t # e /\ t \notin C /\ e \notin C /\ DEFAULT \notin C /\ DEFAULT # e /\ make_not(t) = e
  BY TextsOf
<1> HIDE DEF t, e
<1>2. T \ C = {t} /\ T \ E = {t} /\ E \ T = {e} /\ T \cap E = C /\ t \in T /\ e \in E /\ C \subseteq T /\ C # T
  BY <1>1
<1>3. xor_defined(C, T)
  BY <1>2 DEF xor_defined, Extends, StrictSubset
<1>4. ExecXor(C, T) = E
  <2>1. ~StrictSubset(T, C)
    BY <1>2 DEF StrictSubset
  <2>2. (CHOOSE c \in T : T \ C = {c}) = t
    BY <1>2
  <2>3. xor(T, C) = from_conditions(C \cup {e})
    BY <1>1, <2>2 DEF xor
  <2> QED
    BY <1>1, <2>1, <2>3 DEF ExecXor, from_conditions
<1>5. Siblings(T, E)
  BY <1>1, <1>2 DEF Siblings, are_negations
<1>6. sibling_parent(T, E) = C
  BY <1>1, <1>2 DEF sibling_parent, from_conditions
<1> QED
  BY <1>2, <1>3, <1>4, <1>5, <1>6 DEF t, e

\* s_or with the condition around takes it away.
LEMMA OrRestores ==
  ASSUME NEW C, NEW i, Outside(C, i), NEW c \in {Cmp(i), Wrap(Cmp(i))}
  PROVE  ExecOr(C \cup {c}, C) = C /\ StrictSubset(C, C \cup {c})
<1>1. c \notin C /\ DEFAULT \notin C
  BY TextsOf
<1>2. StrictSubset(C, C \cup {c})
  BY <1>1 DEF StrictSubset
<1>3. ~Siblings(C \cup {c}, C)
  BY DEF Siblings
<1>4. ExecOr(C \cup {c}, C) = from_conditions(C)
  BY <1>3 DEF ExecOr
<1> QED
  BY <1>1, <1>2, <1>4 DEF from_conditions

\* The condition around an open conditional is one of texts of other comparisons.
LEMMA CondOutside ==
  ASSUME NEW fs, NEW m, Nested(fs, m), NEW k \in 1 .. Len(fs)
  PROVE  Outside(Cond(fs, k - 1), fs[k].cmp) /\ Literal(fs[k]) \in {Cmp(fs[k].cmp), Wrap(Cmp(fs[k].cmp))}
<1>1. fs \in Seq(Frame) /\ Len(fs) \in Nat
  BY LenProperties DEF Nested
<1>2. \A j \in 1 .. Len(fs) : fs[j] \in Frame /\ fs[j].cmp \in Comparisons
  BY <1>1, LenProperties, FrameType
<1>3. \A j \in 1 .. k - 1 : j \in 1 .. Len(fs) /\ fs[j].cmp # fs[k].cmp
  BY <1>1 DEF Nested
<1>4. \A j \in 1 .. k - 1 : Literal(fs[j]) \in Text \ {DEFAULT} /\ Literal(fs[j]).id # fs[k].cmp
  BY <1>2, <1>3, LiteralType
<1> QED
  BY <1>2, <1>4 DEF Outside, Cond, Condition, Literal

\* So are all conditions of open conditionals.
LEMMA CondType ==
  ASSUME NEW fs, NEW m, Nested(fs, m), NEW k \in 0 .. Len(fs)
  PROVE  Cond(fs, k) \in Condition
<1>1. fs \in Seq(Frame) /\ Len(fs) \in Nat
  BY LenProperties DEF Nested
<1>2. \A j \in 1 .. k : j \in 1 .. Len(fs)
  BY <1>1
<1>3. \A j \in 1 .. k : Literal(fs[j]) \in Text \ {DEFAULT}
  BY <1>1, <1>2, LenProperties, LiteralType
<1> QED
  BY <1>3 DEF Cond, Condition

------------------------------------------------------------------------------
(***************************************************************************)
(* Counting the open masks.                                                *)
(***************************************************************************)
LEMMA MasksCount ==
  ASSUME NEW fs, NEW k \in Nat
  PROVE  /\ Masks(fs, 0) = 0 /\ Masks(fs, k) \in Nat
         /\ fs[k + 1].kind = "mask" => Masks(fs, k + 1) = Masks(fs, k) + 1
         /\ fs[k + 1].kind # "mask" => Masks(fs, k + 1) = Masks(fs, k)
<1> DEFINE M(j) == {i \in 1 .. j : fs[i].kind = "mask"}
<1>1. M(0) = {} /\ M(k) \in SUBSET (1 .. k)
  OBVIOUS
<1>2. \A i : i \in 1 .. k + 1 <=> i \in 1 .. k \/ i = k + 1
  OBVIOUS
<1>3. IsFiniteSet(M(k))
  <2>1. IsFiniteSet(1 .. k)
    BY FS_Interval
  <2> HIDE DEF M
  <2> QED
    BY <1>1, <2>1, FS_Subset
<1>4. k + 1 \notin M(k)
  OBVIOUS
<1>5. fs[k + 1].kind = "mask" => M(k + 1) = M(k) \cup {k + 1}
  BY <1>2
<1>6. fs[k + 1].kind # "mask" => M(k + 1) = M(k)
  BY <1>2
<1>7. \A j : Masks(fs, j) = Cardinality(M(j))
  BY DEF Masks
<1> HIDE DEF M
<1>8. Cardinality(M(k)) \in Nat /\ Cardinality(M(0)) = 0
  BY <1>1, <1>3, FS_EmptySet, FS_CardinalityType
<1>9. Cardinality(M(k) \cup {k + 1}) = Cardinality(M(k)) + 1
  BY <1>3, <1>4, FS_AddElement
<1> QED
  BY <1>5, <1>6, <1>7, <1>8, <1>9

LEMMA MasksSame ==
  ASSUME NEW fs, NEW gs, NEW k, \A j \in 1 .. k : fs[j].kind = gs[j].kind
  PROVE  Masks(fs, k) = Masks(gs, k)
<1>1. {j \in 1 .. k : fs[j].kind = "mask"} = {j \in 1 .. k : gs[j].kind = "mask"}
  OBVIOUS
<1> QED
  BY <1>1 DEF Masks

LEMMA MasksGrow ==
  ASSUME NEW fs, NEW n \in Nat, NEW k \in 0 .. n
  PROVE  Masks(fs, k) <= Masks(fs, n)
<1> DEFINE M(j) == {i \in 1 .. j : fs[i].kind = "mask"}
<1>1. M(k) \in SUBSET M(n) /\ M(n) \in SUBSET (1 .. n)
  OBVIOUS
<1>2. IsFiniteSet(M(n))
  <2>1. IsFiniteSet(1 .. n)
    BY FS_Interval
  <2> HIDE DEF M
  <2> QED
    BY <1>1, <2>1, FS_Subset
<1>3. \A j : Masks(fs, j) = Cardinality(M(j))
  BY DEF Masks
<1> HIDE DEF M
<1> QED
  BY <1>1, <1>2, <1>3, FS_Subset

LEMMA MasksRange ==
  ASSUME NEW fs, NEW n \in Nat
  PROVE  Masks(fs, n) \in Nat /\ \A k \in 0 .. n : Masks(fs, k) \in Nat /\ Masks(fs, k) <= Masks(fs, n)
<1>1. Masks(fs, n) \in Nat
  BY MasksCount
<1>2. ASSUME NEW k \in 0 .. n PROVE Masks(fs, k) \in Nat /\ Masks(fs, k) <= Masks(fs, n)
  <2>1. k \in Nat
    OBVIOUS
  <2>2. Masks(fs, k) \in Nat
    BY <2>1, MasksCount
  <2> QED
    BY <2>2, MasksGrow
<1> QED
  BY <1>1, <1>2

\* Every open mask is that of a conditional.
LEMMA MaskOf ==
  ASSUME NEW fs, NEW n \in Nat, NEW b \in 1 .. Masks(fs, n)
  PROVE  \E k \in 1 .. n : fs[k].kind = "mask" /\ Masks(fs, k) = b /\ Masks(fs, k - 1) = b - 1
<1> DEFINE S == {j \in 0 .. n : b <= Masks(fs, j)}
<1>1. Masks(fs, n) \in Nat /\ Masks(fs, 0) = 0 /\ b \in Nat /\ b > 0
  BY MasksCount
<1>2. S \in SUBSET Nat /\ n \in S
  BY <1>1
<1>3. PICK k \in S : \A j \in S : k <= j
  BY <1>2, NatMin
<1>4. k \in 1 .. n /\ k - 1 \in 0 .. n /\ k - 1 \notin S
  BY <1>1, <1>3
<1>5. PICK j \in Nat : j = k - 1 /\ k = j + 1
  BY <1>4
<1>6. Masks(fs, j) \in Nat /\ Masks(fs, j) < b
  BY <1>1, <1>4, <1>5, MasksCount
<1>7. b <= Masks(fs, k)
  BY <1>3
<1>8. fs[k].kind = "mask" /\ Masks(fs, k) = Masks(fs, j) + 1
  BY <1>1, <1>5, <1>6, <1>7, MasksCount
<1> QED
  BY <1>1, <1>4, <1>5, <1>6, <1>7, <1>8

------------------------------------------------------------------------------
(***************************************************************************)
(* What a new node has and what the others keep.                           *)
(***************************************************************************)
\* The new node has condition mk and every register of the state st.
Grown(mk, st) ==
  /\ last_node \in Nat /\ last_node' = last_node + 1
  /\ Nodes = 1 .. last_node /\ Nodes' = 1 .. last_node + 1
  /\ \A k \in Nodes : mask'[k] = mask[k] /\ state'[k] = state[k]
  /\ mask'[last_node'] = mk
  /\ \A r \in Regs : Present(st, r) => Present(state'[last_node'], r)

\* A merge gives a register another version, but never takes it away.
LEMMA MergeKeeps ==
  ASSUME TypeOK, NEW ps \in Seq(Nodes), NEW st \in [Regs -> RegState], NEW r \in Regs, Present(st, r)
  PROVE  Present(MergedState(st, ps), r)
<1> DEFINE M == Merged(st, ps)
           ms == MergedState(st, ps)
<1>1. CASE r \in M
  <2>1. prev_versions(r, ps) # {}
    BY <1>1, MergedArrives
  <2>2. max_version(r, ps) \in Nat
    BY <2>1, MaxVersion
  <2>3. ms[r].ver = max_version(r, ps) + 1
    BY <1>1 DEF MergedState
  <2> QED
    BY <2>2, <2>3 DEF Present
<1>2. CASE r \notin M
  BY <1>2 DEF MergedState, Present
<1> QED
  BY <1>1, <1>2

LEMMA EmitGrown ==
  ASSUME TypeOK, NEW op \in Opcodes, NEW ps \in Seq(Nodes), NEW mk \in Condition,
         NEW st \in [Regs -> RegState], NEW vs, EmitNode(op, ps, st, vs, mk)
  PROVE  /\ Grown(mk, st) /\ instruction'[last_node'] = op
         /\ Len(ps) <= 1 => state'[last_node'] = st
<1>1. Emits(op, ps, mk)
  BY EmitEmits
<1>2. last_node' = last_node + 1 /\ last_node = Len(instruction)
  BY NewNode DEF EmitNode, last_node
<1> DEFINE new == IF Len(ps) > 1 THEN MergedState(st, ps) ELSE st
<1>3. state' = Append(state, new) /\ new \in [Regs -> RegState]
  BY MergedStateType DEF EmitNode
<1>4. state \in [1 .. last_node -> [Regs -> RegState]] /\ last_node \in Nat
  BY <1>1 DEF TypeOK, Emits
<1> HIDE DEF new
<1>5. state'[last_node + 1] = new /\ \A k \in 1 .. last_node : state'[k] = state[k]
  BY <1>3, <1>4, AppendOne
<1>6. \A r \in Regs : Present(st, r) => Present(new, r)
  BY MergeKeeps DEF new
<1>7. Len(ps) <= 1 => new = st
  BY LenProperties DEF new
<1> QED
  BY <1>1, <1>2, <1>4, <1>5, <1>6, <1>7 DEF Grown, Emits

LEMMA ShortParents == ASSUME TypeOK PROVE parents \in Seq(Nodes) /\ Len(parents) <= 1
  BY ParentsType DEF parents

\* An instruction that writes register d.
LEMMA DefineGrown ==
  ASSUME TypeInv, NEW op \in Opcodes, NEW d \in Regs, NEW txt \in Text, Define(op, d, txt)
  PROVE  /\ Grown(mask[last_node], state[last_node])
         /\ Present(state'[last_node'], d) /\ state'[last_node'][d].text = txt
         /\ \A r \in Regs \ {d} : state'[last_node'][r] = state[last_node][r]
<1> DEFINE st == SetReg(state[last_node], d, txt)
<1>1. TypeOK /\ state[last_node] \in [Regs -> RegState] /\ mask[last_node] \in Condition /\ versions[d] \in Nat
  BY LastTypes DEF TypeInv
<1>2. /\ st \in [Regs -> RegState] /\ st[d].ver = versions[d] + 1 /\ st[d].text = txt
      /\ \A r \in Regs \ {d} : st[r] = state[last_node][r]
  BY <1>1 DEF SetReg, RegState
<1>3. parents \in Seq(Nodes) /\ Len(parents) <= 1
  BY <1>1, ShortParents
<1> HIDE DEF st
<1>4. EmitNode(op, parents, st, Bump(d), mask[last_node])
  BY DEF Define, st
<1>5. Grown(mask[last_node], st) /\ state'[last_node'] = st
  BY <1>1, <1>2, <1>3, <1>4, EmitGrown
<1> QED
  BY <1>1, <1>2, <1>5 DEF Grown, Present

\* A branch.
LEMMA BranchGrown ==
  ASSUME TypeInv, NEW op \in Opcodes, NEW l \in Labels, BranchTo(op, l)
  PROVE  /\ Grown(mask[last_node], state[last_node])
         /\ state'[last_node'] = state[last_node]
<1>1. TypeOK /\ state[last_node] \in [Regs -> RegState] /\ mask[last_node] \in Condition
  BY LastTypes DEF TypeInv
<1>2. instruction' = Append(instruction, op)
  BY DEF BranchTo
<1>3. /\ last_node' = last_node + 1 /\ last_node \in Nat
      /\ Nodes' = 1 .. last_node + 1 /\ Nodes = 1 .. last_node
  BY <1>1, <1>2, NewNode DEF last_node
<1>4. /\ mask \in [1 .. last_node -> Condition] /\ mask' = Append(mask, mask[last_node])
      /\ state \in [1 .. last_node -> [Regs -> RegState]] /\ state' = Append(state, state[last_node])
  BY <1>1, <1>3 DEF TypeOK, BranchTo
<1>5. /\ mask'[last_node + 1] = mask[last_node] /\ \A k \in 1 .. last_node : mask'[k] = mask[k]
      /\ state'[last_node + 1] = state[last_node] /\ \A k \in 1 .. last_node : state'[k] = state[k]
  BY <1>1, <1>3, <1>4, AppendOne
<1> QED
  BY <1>3, <1>5 DEF Grown

\* A label that branches wait for continues where the last of them was.
LEMMA LabelGrown ==
  ASSUME TypeInv, NEW l \in Labels, Label(l), from_node[l] # <<>>
  PROVE  Grown(mask[Last(from_node[l])], state[Last(from_node[l])]) /\ Last(from_node[l]) \in Nodes
<1>1. TypeOK /\ RestType
  BY TypeParts DEF TypeInv
<1>2. from_node[l] \in Seq(Nodes)
  BY <1>1 DEF RestType
<1>3. parents \o from_node[l] \in Seq(Nodes)
  BY <1>1, <1>2, ParentsType, ConcatProperties
<1>4. Last(from_node[l]) \in Nodes
  BY <1>2, EmptySeq, LenProperties DEF Last
<1>5. state[Last(from_node[l])] \in [Regs -> RegState] /\ mask[Last(from_node[l])] \in Condition
  BY <1>1, <1>4 DEF TypeOK
<1>6. EmitNode("label", parents \o from_node[l], state[Last(from_node[l])], versions, mask[Last(from_node[l])])
  BY DEF Label
<1>7. "label" \in Opcodes
  BY DEF Opcodes
<1> QED
  BY <1>1, <1>3, <1>4, <1>5, <1>6, <1>7, EmitGrown

\* Being within conditionals, in the next state.
WithinNext(fs, k, n) ==
  /\ n \in Nodes' /\ mask'[n] = Cond(fs, k)
  /\ \A j \in 1 .. k : fs[j].kind = "mask" => Present(state'[n], fs[j].save)

LEMMA SavesOf ==
  ASSUME NEW fs, NEW m, Nested(fs, m)
  PROVE  /\ Len(fs) \in Nat /\ fs \in Seq(Frame) /\ Len(fs) <= Len(Saves)
         /\ \A k \in 1 .. Len(fs) : fs[k] \in Frame
         /\ \A k \in 1 .. Len(fs) : fs[k].kind = "mask" =>
              fs[k].save \in ScalarSet /\ fs[k].save \in Regs \ Preds /\ fs[k].save = Saves[k]
         /\ \A k \in 1 .. Len(fs) : fs[k].kind = "branch" => fs[k].label \in Labels
<1>1. fs \in Seq(Frame) /\ Len(fs) \in Nat /\ \A k \in 1 .. Len(fs) : fs[k] \in Frame
  BY LenProperties DEF Nested
<1> QED
  BY <1>1, FrameType, KernelRegs DEF Nested

LEMMA WithinKept ==
  ASSUME NEW fs, NEW k, NEW n, Within(fs, k, n), NEW mk, NEW st, Grown(mk, st)
  PROVE  WithinNext(fs, k, n)
  BY DEF Within, WithinNext, Held, Grown

LEMMA WithinNew ==
  ASSUME NEW fs, NEW m, Nested(fs, m), NEW k \in 0 .. Len(fs), NEW n, Within(fs, k, n),
         Grown(mask[n], state[n])
  PROVE  WithinNext(fs, k, last_node')
<1>1. \A j \in 1 .. k : fs[j].kind = "mask" => fs[j].save \in Regs
  BY SavesOf
<1> QED
  BY <1>1 DEF Within, WithinNext, Held, Grown

\* What is known of the predicates and the labels to come stays so.
LEMMA SteadyKept ==
  ASSUME Steady, NEW mk, NEW st, Grown(mk, st), \A p \in Preds : Present(st, p),
         exec_known \subseteq exec_known', outcome' = outcome, ifs' = ifs,
         \A l \in Labels : l > 2 * ifs => to_node'[l] = to_node[l]
  PROVE  Steady'
<1>1. \A p \in Preds, n \in Nodes' : Present(state'[n], p)
  <2>1. \A n \in Nodes' : n \in Nodes \/ n = last_node'
    BY DEF Grown
  <2> QED
    BY <2>1, KernelRegs DEF Grown, Steady
<1> QED
  BY <1>1 DEF Steady, running

\* The newest node, and the ones that the stack and the labels name, have the predicates.
LEMMA PredsHere ==
  ASSUME TypeInv, Steady
  PROVE  /\ last_node \in Nodes /\ \A p \in Preds : Present(state[last_node], p) /\ p \in exec_known
  BY ParentsType DEF TypeInv, Steady

------------------------------------------------------------------------------
(***************************************************************************)
(* The instructions that write a register leave stack and labels alone.    *)
(***************************************************************************)
LEMMA SettledKept ==
  ASSUME NEW fs, NEW m, Nested(fs, m), Settled(fs), NEW mk, NEW st, Grown(mk, st),
         WithinNext(fs, Len(fs), last_node'), masked_blocks' = masked_blocks,
         \A k \in 1 .. Len(fs) : fs[k].kind = "mask" =>
           fs[k].save \in exec_known' /\ exec_registers'[fs[k].save] = exec_registers[fs[k].save],
         \A k \in 1 .. Len(fs) : fs[k].kind = "branch" =>
           /\ from_node'[fs[k].label] = from_node[fs[k].label]
           /\ to_node'[fs[k].label + 1] = to_node[fs[k].label + 1]
  PROVE  Settled(fs)'
<1>1. Here(fs)'
  BY DEF Here, Within, WithinNext, Held
<1>2. SavesKnown(fs)'
  BY DEF Settled, SavesKnown
<1>3. BlocksOpen(fs)'
  <2>1. \A k \in 0 .. Len(fs) : WithinNext(fs, k, masked_blocks[Masks(fs, k) + 1].change_mask)
    BY WithinKept DEF Settled, BlocksOpen
  <2> QED
    BY <2>1 DEF Settled, BlocksOpen, Within, WithinNext, Held
<1>4. LabelsWait(fs)'
  <2>1. \A k \in 1 .. Len(fs) : fs[k].kind = "branch" =>
          WithinNext(fs, k - 1, Last(from_node[fs[k].label]))
    BY WithinKept DEF Settled, LabelsWait, Waits
  <2> QED
    BY <2>1 DEF Settled, LabelsWait, Waits, Within, WithinNext, Held
<1> QED
  BY <1>1, <1>2, <1>3, <1>4 DEF Settled

\* Register d gets the text txt and the condition C.
Writes(d, txt, C) ==
  /\ \E op \in Opcodes : Define(op, d, txt)
  /\ SetExec(d, C)
  /\ UNCHANGED <<jumps, masked_blocks, outcome>>

WritesDone(d, txt, C) ==
  /\ d \in exec_known' /\ exec_known \subseteq exec_known'
  /\ exec_registers'[d] = C
  /\ \A r \in Regs \ {d} : exec_registers'[r] = exec_registers[r]
  /\ Present(state'[last_node'], d) /\ state'[last_node'][d].text = txt
  /\ \A r \in Regs \ {d} : state'[last_node'][r] = state[last_node][r]

LEMMA WritesSettled ==
  ASSUME TypeInv, Steady, ifs' = ifs, NEW fs, NEW m, Nested(fs, m), Settled(fs),
         NEW d \in Regs, NEW txt \in Text, NEW C, Writes(d, txt, C),
         \A k \in 1 .. Len(fs) : fs[k].kind = "mask" => fs[k].save # d
  PROVE  Settled(fs)' /\ Steady' /\ WritesDone(d, txt, C)
<1>1. PICK op \in Opcodes : Define(op, d, txt)
  BY DEF Writes
<1>2. /\ Grown(mask[last_node], state[last_node])
      /\ Present(state'[last_node'], d) /\ state'[last_node'][d].text = txt
      /\ \A r \in Regs \ {d} : state'[last_node'][r] = state[last_node][r]
  BY <1>1, DefineGrown
<1>3. exec_registers \in [Regs -> Condition]
  BY DEF TypeInv, TypeOK
<1>4. /\ exec_registers' = [exec_registers EXCEPT ![d] = C] /\ exec_known' = exec_known \cup {d}
      /\ to_node' = to_node /\ from_node' = from_node /\ masked_blocks' = masked_blocks /\ outcome' = outcome
  BY DEF Writes, SetExec, jumps
<1>5. WritesDone(d, txt, C)
  BY <1>2, <1>3, <1>4 DEF WritesDone
<1>6. Steady'
  <2>1. \A p \in Preds : Present(state[last_node], p)
    BY PredsHere
  <2> QED
    BY <1>2, <1>4, <2>1, SteadyKept
<1>7. WithinNext(fs, Len(fs), last_node')
  <2>1. Within(fs, Len(fs), last_node) /\ Len(fs) \in 0 .. Len(fs)
    BY SavesOf DEF Settled, Here
  <2> QED
    BY <1>2, <2>1, WithinNew
<1>8. \A k \in 1 .. Len(fs) : fs[k].kind = "mask" =>
        fs[k].save \in exec_known' /\ exec_registers'[fs[k].save] = exec_registers[fs[k].save]
  BY <1>3, <1>4, SavesOf DEF Settled, SavesKnown
<1>9. Settled(fs)'
  BY <1>2, <1>4, <1>7, <1>8, SettledKept
<1> QED
  BY <1>5, <1>6, <1>9

\* A comparison, for a predicate.
LEMMA CmpWrites ==
  ASSUME NEW p \in Preds, NEW i \in Comparisons, VCmp(p, i)
  PROVE  Writes(p, Cmp(i), {Cmp(i)}) /\ Cmp(i) \in Text
<1>1. Cmp(i) \in Text
  BY LabelsType DEF Cmp, Text, Kinds
<1>2. Define("v_cmp", p, Cmp(i)) /\ SetExec(p, {Cmp(i)}) /\ UNCHANGED <<jumps, masked_blocks, outcome>>
  BY DEF VCmp
<1>3. "v_cmp" \in Opcodes
  BY DEF Opcodes
<1> QED
  BY <1>1, <1>2, <1>3 DEF Writes

\* A register that is known, in state and in exec_registers.
Known(r) == r \in Regs /\ r \in exec_known /\ Present(state[last_node], r)

\* A copy of a register that is known does not fail.
LEMMA MovWrites ==
  ASSUME TypeInv, NEW d \in Regs, NEW s, Known(s), SMov(d, s)
  PROVE  Writes(d, state[last_node][s].text, exec_registers[s]) /\ state[last_node][s].text \in Text
<1>1. TypeOK /\ state[last_node][s].text \in Text
  BY LastTypes DEF TypeInv, Known
<1>2. ~MovFails(s)
  BY DEF MovFails, Known
<1>3. "s_mov_b64" \in Opcodes
  BY DEF Opcodes
<1>4. /\ Define("s_mov_b64", d, state[last_node][s].text)
      /\ SetExec(d, exec_registers[s]) /\ UNCHANGED <<jumps, masked_blocks, outcome>>
  BY <1>2 DEF SMov
<1> QED
  BY <1>1, <1>3, <1>4 DEF Writes

\* exec and the comparison in vcc.
LEMMA AndWrites ==
  ASSUME TypeInv, Known("exec"), Known("vcc"), SAnd("exec", "exec", "vcc"), "exec" \in Preds
  PROVE  LET C == ExecAnd(exec_registers["exec"], state[last_node]["vcc"].text)
         IN  Writes("exec", top(C), C) /\ C \in Condition /\ top(C) \in Text
<1> DEFINE C == ExecAnd(exec_registers["exec"], state[last_node]["vcc"].text)
<1>1. AndLeft("exec", "vcc") = "exec" /\ AndRight("exec", "vcc") = "vcc"
  BY DEF AndLeft, AndRight
<1>2. ~AndFails("exec", "vcc") /\ AndResult("exec", "vcc") = C
  BY <1>1 DEF AndFails, AndResult, Known
<1>3. TypeOK /\ exec_registers["exec"] \in Condition /\ state[last_node]["vcc"].text \in Text
  BY LastTypes DEF TypeInv, TypeOK, Known
<1>4. C \in Condition
  BY <1>3, AndType
<1> HIDE DEF C
<1>5. "s_and_b64" \in Opcodes /\ top(C) \in Text
  BY <1>4, TopType DEF Opcodes
<1>6. /\ Define("s_and_b64", "exec", top(C)) /\ SetExec("exec", C)
      /\ UNCHANGED <<jumps, masked_blocks, outcome>>
  BY <1>2 DEF SAnd
<1> QED
  BY <1>4, <1>5, <1>6 DEF Writes, C

\* The conditions of exec and of a saved exec.
LEMMA OrWrites ==
  ASSUME TypeInv, NEW s, Known(s), Known("exec"), SOr("exec", "exec", s)
  PROVE  LET C == ExecOr(exec_registers["exec"], exec_registers[s])
         IN  Writes("exec", top(C), C) /\ top(C) \in Text
<1> DEFINE C == ExecOr(exec_registers["exec"], exec_registers[s])
<1>1. exec_registers["exec"] \in Condition /\ exec_registers[s] \in Condition
  BY DEF TypeInv, TypeOK, Known
<1>2. BothKnown("exec", s)
  BY DEF BothKnown, Known
<1>3. "s_or_b64" \in Opcodes /\ top(C) \in Text
  <2>1. C \in Condition
    BY <1>1, OrType
  <2> QED
    BY <2>1, TopType DEF Opcodes
<1>4. Define("s_or_b64", "exec", top(C)) /\ SetExec("exec", C) /\ UNCHANGED <<jumps, masked_blocks, outcome>>
  BY <1>2 DEF SOr
<1> HIDE DEF C
<1> QED
  BY <1>3, <1>4 DEF Writes, C

LEMMA XorWrites ==
  ASSUME TypeInv, NEW s, Known(s), Known("exec"), SXor("exec", s, "exec"),
         xor_defined(exec_registers[s], exec_registers["exec"])
  PROVE  LET C == ExecXor(exec_registers[s], exec_registers["exec"])
         IN  Writes("exec", top(C), C) /\ top(C) \in Text
<1> DEFINE C == ExecXor(exec_registers[s], exec_registers["exec"])
<1>1. exec_registers["exec"] \in Condition /\ exec_registers[s] \in Condition
  BY DEF TypeInv, TypeOK, Known
<1>2. BothKnown(s, "exec")
  BY DEF BothKnown, Known
<1>3. "s_xor_b64" \in Opcodes /\ top(C) \in Text
  <2>1. C \in Condition
    BY <1>1, XorType
  <2> QED
    BY <2>1, TopType DEF Opcodes
<1>4. Define("s_xor_b64", "exec", top(C)) /\ SetExec("exec", C) /\ UNCHANGED <<jumps, masked_blocks, outcome>>
  BY <1>2 DEF SXor
<1> HIDE DEF C
<1> QED
  BY <1>3, <1>4 DEF Writes, C

------------------------------------------------------------------------------
(***************************************************************************)
(* One IR instruction after the other.                                     *)
(***************************************************************************)
LEMMA Runs ==
  ASSUME Step
  PROVE  /\ Build(Head(todo)) /\ todo' = Tail(todo)
         /\ frames' = frames /\ ifs' = ifs /\ hw' = hw /\ waves' = waves
  BY DEF Step

LEMMA BuildOf ==
  /\ \A i : Build(CmpIR(i)) => VCmp("vcc", i)
  /\ \A i : Build(FlagIR(i)) => VCmp("scc", i)
  /\ \A s : Build(SaveIR(s)) => SMov(s, "exec")
  /\ Build(NarrowIR) => SAnd("exec", "exec", "vcc")
  /\ \A s : Build(ElseIR(s)) => SXor("exec", s, "exec")
  /\ \A s : Build(IR("mov", "exec", s, s)) => SMov("exec", s)
  /\ \A s : Build(IR("or", "exec", "exec", s)) => SOr("exec", "exec", s)
  /\ Build(UseMask) => ChangeMask("exec")
  /\ \A l, ir : ir \in BranchIRs(l) /\ Build(ir) => \E op \in {"s_br", "s_nbr"} : BranchTo(op, l)
  /\ \A l : Build(JumpIR(l)) => BranchTo("s_branch", l)
  /\ \A l : Build(LabelIR(l)) => Label(l)
<1>1. /\ \A i : Build(CmpIR(i)) => VCmp("vcc", i)
      /\ \A i : Build(FlagIR(i)) => VCmp("scc", i)
  BY DEF Build, CmpIR, FlagIR, IR
<1>2. /\ \A s : Build(SaveIR(s)) => SMov(s, "exec")
      /\ \A s : Build(IR("mov", "exec", s, s)) => SMov("exec", s)
  BY DEF Build, SaveIR, IR
<1>3. Build(NarrowIR) => SAnd("exec", "exec", "vcc")
  BY DEF Build, NarrowIR, IR
<1>4. \A s : Build(ElseIR(s)) => SXor("exec", s, "exec")
  BY DEF Build, ElseIR, IR
<1>5. \A s : Build(IR("or", "exec", "exec", s)) => SOr("exec", "exec", s)
  BY DEF Build, IR
<1>6. Build(UseMask) => ChangeMask("exec")
  BY DEF Build, UseMask, IR
<1>7. \A l, ir : ir \in BranchIRs(l) /\ Build(ir) => \E op \in {"s_br", "s_nbr"} : BranchTo(op, l)
  <2>1. \A l : Build(IR("bra", l, l, l)) => BranchTo("s_br", l)
    BY DEF Build, IR, Branch
  <2>2. \A l : Build(IR("bra_n", l, l, l)) => BranchTo("s_nbr", l)
    BY DEF Build, IR, BranchNot
  <2> QED
    BY <2>1, <2>2 DEF BranchIRs
<1>8. \A l : Build(JumpIR(l)) => BranchTo("s_branch", l)
  BY DEF Build, JumpIR, IR, Jump
<1>9. \A l : Build(LabelIR(l)) => Label(l)
  BY DEF Build, LabelIR, IR
<1> QED
  BY <1>1, <1>2, <1>3, <1>4, <1>5, <1>6, <1>7, <1>8, <1>9

\* The predicates that the instructions of masks name are known.
LEMMA ExecKnown ==
  ASSUME TypeInv, Steady
  PROVE  Known("exec") /\ Known("vcc") /\ "exec" \in Preds /\ "vcc" \in Preds
  BY PredsHere, KernelRegs DEF Known

\* Both lists of conditionals agree up to k.
LEMMA Agree ==
  ASSUME NEW fs, NEW gs, NEW n \in Nat, \A j \in 1 .. n : fs[j] = gs[j], NEW k \in 0 .. n
  PROVE  /\ Cond(fs, k) = Cond(gs, k) /\ Masks(fs, k) = Masks(gs, k)
         /\ \A x : Within(fs, k, x) <=> Within(gs, k, x)
         /\ \A x : WithinNext(fs, k, x) <=> WithinNext(gs, k, x)
<1>1. \A j \in 1 .. k : fs[j] = gs[j]
  OBVIOUS
<1>2. Cond(fs, k) = Cond(gs, k) /\ Masks(fs, k) = Masks(gs, k)
  BY <1>1, CondSame, MasksSame
<1> QED
  BY <1>1, <1>2 DEF Within, WithinNext, Held

\* The labels of conditionals that branch.
LEMMA FirstLabel ==
  ASSUME NEW f \in Frame, f.kind = "branch"
  PROVE  /\ f.label \in Nat /\ First(f) \in Int /\ f.label \in {First(f), First(f) + 1}
         /\ f.branch = "then" => f.label = First(f)
  BY FrameType, LabelsType DEF First

\* A conditional that is opened within others.
LEMMA Opened ==
  ASSUME NEW fs \in Seq(Frame), NEW f \in Frame, NEW m, Nested(Append(fs, f), m)
  PROVE  LET gs == Append(fs, f)
             n == Len(fs)
         IN  /\ n \in Nat /\ Len(gs) = n + 1 /\ gs[n + 1] = f /\ \A k \in 1 .. n : gs[k] = fs[k]
             /\ Outside(Cond(fs, n), f.cmp)
             /\ f.kind = "mask" =>
                  /\ Cond(gs, n + 1) = Cond(fs, n) \cup {Literal(f)}
                  /\ Masks(gs, n + 1) = Masks(fs, n) + 1
                  /\ f.save \in Regs \ Preds
                  /\ \A k \in 1 .. n : fs[k].kind = "mask" => fs[k].save # f.save
             /\ f.kind = "branch" =>
                  /\ Cond(gs, n + 1) = Cond(fs, n) /\ Masks(gs, n + 1) = Masks(fs, n)
                  /\ f.label \in Labels
                  /\ f.branch = "then" => \A k \in 1 .. n : fs[k].kind = "branch" => fs[k].label # f.label
<1> DEFINE gs == Append(fs, f)
           n == Len(fs)
<1>1. n \in Nat /\ Len(gs) = n + 1 /\ gs[n + 1] = f /\ \A k \in 1 .. n : gs[k] = fs[k]
  BY AppendProperties, LenProperties
<1> HIDE DEF gs, n
<1>2. Nested(gs, m)
  BY DEF gs
<1>3. n + 1 \in 1 .. Len(gs) /\ n + 1 - 1 = n /\ \A k \in 1 .. n : k \in 1 .. Len(gs)
  BY <1>1
<1>4. Cond(gs, n) = Cond(fs, n) /\ Masks(gs, n) = Masks(fs, n)
  BY <1>1, CondSame, MasksSame
<1>5. Outside(Cond(fs, n), f.cmp)
  BY <1>1, <1>2, <1>3, <1>4, CondOutside
<1>6. ASSUME f.kind = "mask"
      PROVE  /\ Cond(gs, n + 1) = Cond(fs, n) \cup {Literal(f)}
             /\ Masks(gs, n + 1) = Masks(fs, n) + 1
             /\ f.save \in Regs \ Preds
             /\ \A k \in 1 .. n : fs[k].kind = "mask" => fs[k].save # f.save
  <2>1. Cond(gs, n + 1) = Cond(fs, n) \cup {Literal(f)} /\ Masks(gs, n + 1) = Masks(fs, n) + 1
    BY <1>1, <1>4, <1>6, CondNext, MasksCount
  <2>2. f.save \in Regs \ Preds /\ f.save = Saves[n + 1] /\ n + 1 \in 1 .. Len(Saves)
    BY <1>1, <1>2, <1>3, <1>6, SavesOf, KernelRegs
  <2>3. \A k \in 1 .. n : fs[k].kind = "mask" => fs[k].save = Saves[k] /\ k \in 1 .. Len(Saves)
    <3>1. \A k \in 1 .. Len(gs) : gs[k].kind = "mask" => gs[k].save = Saves[k]
      BY <1>2, SavesOf
    <3>2. \A k \in 1 .. n : k \in 1 .. Len(Saves)
      BY <1>1, <2>2, KernelRegs
    <3> QED
      BY <1>1, <1>3, <3>1, <3>2
  <2>4. \A k \in 1 .. n : k # n + 1
    BY <1>1
  <2>5. \A k \in 1 .. n : fs[k].kind = "mask" => Saves[k] # Saves[n + 1]
    BY <2>2, <2>3, <2>4, KernelRegs
  <2> QED
    BY <2>1, <2>2, <2>3, <2>5
<1>7. ASSUME f.kind = "branch"
      PROVE  /\ Cond(gs, n + 1) = Cond(fs, n) /\ Masks(gs, n + 1) = Masks(fs, n)
             /\ f.label \in Labels
             /\ f.branch = "then" => \A k \in 1 .. n : fs[k].kind = "branch" => fs[k].label # f.label
  <2>1. Cond(gs, n + 1) = Cond(fs, n) /\ Masks(gs, n + 1) = Masks(fs, n)
    BY <1>1, <1>4, <1>7, CondNext, MasksCount
  <2>2. f.label \in Labels
    BY <1>7, FrameType
  <2>3. ASSUME f.branch = "then", NEW k \in 1 .. n, fs[k].kind = "branch"
        PROVE  fs[k].label # f.label
    <3>1. First(fs[k]) + 1 < First(f)
      BY <1>1, <1>2, <1>3, <1>7, <2>3 DEF Nested
    <3>2. fs[k] \in Frame
      BY LenProperties DEF n
    <3> QED
      BY <1>7, <2>3, <3>1, <3>2, FirstLabel
  <2> QED
    BY <2>1, <2>2, <2>3
<1> QED
  BY <1>1, <1>5, <1>6, <1>7 DEF gs, n

------------------------------------------------------------------------------
(***************************************************************************)
(* A conditional with a mask is opened.                                    *)
(***************************************************************************)
\* The change of the mask pushes a mask that is stricter than the one below.
LEMMA MaskOpens ==
  ASSUME TypeInv, Steady, ifs' = ifs, NEW fs \in Seq(Frame), NEW f \in Frame, f.kind = "mask",
         f.branch = "then", NEW m, Nested(fs, m), Nested(Append(fs, f), m), Settled(fs),
         ExecIs(Cond(fs, Len(fs)) \cup {Literal(f)}), SaveDone(fs, f.save), ChangeMask("exec")
  PROVE  /\ Settled(Append(fs, f))' /\ Steady' /\ ExecIs(Cond(Append(fs, f), Len(fs) + 1))'
         /\ EnterMask(exec_registers["exec"]) /\ from_node' = from_node
<1> DEFINE gs == Append(fs, f)
           n == Len(fs)
           C == exec_registers["exec"]
<1>1. /\ n \in Nat /\ Len(gs) = n + 1 /\ gs[n + 1] = f /\ \A k \in 1 .. n : gs[k] = fs[k]
      /\ Outside(Cond(fs, n), f.cmp) /\ Cond(gs, n + 1) = Cond(fs, n) \cup {Literal(f)}
      /\ Masks(gs, n + 1) = Masks(fs, n) + 1
  BY Opened
<1>2. Literal(f) = Cmp(f.cmp) /\ C = Cond(gs, n + 1)
  BY <1>1 DEF Literal, ExecIs
<1>3. TypeOK /\ RestType /\ C \in Condition
  BY TypeParts, KernelRegs DEF TypeInv, RestType
<1> HIDE DEF gs, n, C
<1>4. n \in 0 .. n /\ n + 1 \in 0 .. n + 1 /\ n + 1 \in Nat
      /\ (\A k \in 0 .. n + 1 : k \in 0 .. n \/ k = n + 1)
      /\ (\A k \in 1 .. n : k - 1 \in 0 .. n) /\ n + 1 - 1 = n
      /\ \A k \in 1 .. n + 1 : (k \in 1 .. n /\ k \in 0 .. n) \/ k = n + 1
  BY <1>1
<1>0. ASSUME NEW k \in 0 .. n
      PROVE  /\ Cond(gs, k) = Cond(fs, k) /\ Masks(gs, k) = Masks(fs, k)
             /\ \A x : WithinNext(gs, k, x) <=> WithinNext(fs, k, x)
  <2>1. n \in Nat /\ k \in 0 .. n /\ \A j \in 1 .. n : gs[j] = fs[j]
    BY <1>1, <1>0
  <2> QED
    BY <2>1, Agree
<1>5. Within(fs, n, last_node)
  BY DEF Settled, Here, n
<1>6. EnterMask(C) /\ UNCHANGED <<execs, jumps, outcome>>
  <2>1. StrictSubset(mask[last_node], C)
    BY <1>1, <1>2, <1>5, AndNarrows DEF Within
  <2> QED
    BY <2>1 DEF ChangeMask, StrictSubset, C
<1>7. /\ EmitNode("change_mask", parents, state[last_node], versions, C)
      /\ masked_blocks' = Append(masked_blocks, OpenMask(last_node + 1, no_parent))
      /\ exec_registers' = exec_registers /\ exec_known' = exec_known
      /\ to_node' = to_node /\ from_node' = from_node /\ outcome' = outcome
  BY <1>6 DEF EnterMask, execs, jumps
<1>8. "change_mask" \in Opcodes
  BY DEF Opcodes
<1>9. Grown(C, state[last_node]) /\ state'[last_node'] = state[last_node]
  <2>1. parents \in Seq(Nodes) /\ Len(parents) <= 1 /\ state[last_node] \in [Regs -> RegState]
    BY <1>3, ShortParents, LastTypes
  <2> QED
    BY <1>3, <1>7, <1>8, <2>1, EmitGrown
<1>10. Steady'
  <2>1. \A p \in Preds : Present(state[last_node], p)
    BY PredsHere
  <2> QED
    BY <1>7, <1>9, <2>1, SteadyKept
<1>11. \A k \in 0 .. n : \A x : Within(fs, k, x) => WithinNext(gs, k, x)
  <2>1. \A k \in 0 .. n : \A x : Within(fs, k, x) => WithinNext(fs, k, x)
    BY <1>9, WithinKept
  <2> QED
    BY <1>0, <2>1
<1>12. WithinNext(gs, n + 1, last_node')
  <2>1. \A j \in 1 .. n + 1 : gs[j].kind = "mask" => Present(state[last_node], gs[j].save)
    BY <1>1, <1>4, <1>5 DEF Within, Held, SaveDone
  <2>2. last_node' \in Nodes' /\ mask'[last_node'] = C /\ state'[last_node'] = state[last_node]
    BY <1>9 DEF Grown
  <2> QED
    BY <1>2, <2>1, <2>2 DEF WithinNext
<1>13. Here(gs)'
  BY <1>1, <1>12 DEF Here, Within, WithinNext, Held
<1>14. SavesKnown(gs)'
  <2>1. \A k \in 1 .. n : Cond(gs, k - 1) = Cond(fs, k - 1)
    BY <1>4, <1>0
  <2>2. Cond(gs, n) = Cond(fs, n) /\ n + 1 - 1 = n
    BY <1>4, <1>0
  <2>3. \A k \in 1 .. n : fs[k].kind = "mask" => fs[k].save \in exec_known /\ exec_registers[fs[k].save] = Cond(fs, k - 1)
    BY DEF Settled, SavesKnown, n
  <2>4. f.save \in exec_known /\ exec_registers[f.save] = Cond(fs, n)
    BY DEF SaveDone, n
  <2>5. \A k \in 1 .. n : fs[k].kind = "mask" =>
          fs[k].save \in exec_known' /\ exec_registers'[fs[k].save] = Cond(gs, k - 1)
    BY <1>7, <2>1, <2>3
  <2>6. f.save \in exec_known' /\ exec_registers'[f.save] = Cond(gs, n + 1 - 1)
    BY <1>7, <2>2, <2>4
  <2>7. ASSUME NEW k \in 1 .. n + 1, gs[k].kind = "mask"
        PROVE  gs[k].save \in exec_known' /\ exec_registers'[gs[k].save] = Cond(gs, k - 1)
    <3>1. CASE k \in 1 .. n
      BY <1>1, <2>5, <2>7, <3>1
    <3>2. CASE k = n + 1
      BY <1>1, <2>6, <3>2
    <3> QED
      BY <1>4, <2>7, <3>1, <3>2
  <2>8. Len(gs) = n + 1
    BY <1>1
  <2> HIDE DEF SavesKnown
  <2> QED
    BY <2>7, <2>8 DEF SavesKnown
<1>15. BlocksOpen(gs)'
  <2>1. /\ Len(masked_blocks) = Masks(fs, n) + 1
        /\ \A k \in 0 .. n : Within(fs, k, masked_blocks[Masks(fs, k) + 1].change_mask)
    BY DEF Settled, BlocksOpen, n
  <2>2. /\ masked_blocks \in Seq(Mask)
        /\ OpenMask(last_node + 1, no_parent).change_mask = last_node'
    BY <1>3, <1>9 DEF RestType, OpenMask, Grown
  <2>3. /\ Len(masked_blocks') = Len(masked_blocks) + 1 /\ Len(masked_blocks) \in Nat
        /\ \A b \in 1 .. Len(masked_blocks) : masked_blocks'[b] = masked_blocks[b]
        /\ masked_blocks'[Len(masked_blocks) + 1] = OpenMask(last_node + 1, no_parent)
    <3>1. \A s, x : s \in Seq(Mask \cup {x}) => /\ Len(Append(s, x)) = Len(s) + 1 /\ Len(s) \in Nat
                       /\ \A b \in 1 .. Len(s) : Append(s, x)[b] = s[b]
                       /\ Append(s, x)[Len(s) + 1] = x
      BY AppendProperties, LenProperties
    <3>2. masked_blocks \in Seq(Mask \cup {OpenMask(last_node + 1, no_parent)})
      BY <2>2, SeqMonotonic
    <3> QED
      BY <1>7, <3>1, <3>2
  <2>4. \A k \in 0 .. n : Masks(gs, k) = Masks(fs, k) /\ Masks(fs, k) \in Nat /\ Masks(fs, k) + 1 \in 1 .. Len(masked_blocks)
    <3>1. \A k \in 0 .. n : Masks(fs, k) \in Nat /\ Masks(fs, k) <= Masks(fs, n) /\ Masks(fs, n) \in Nat
      BY <1>1, MasksRange
    <3> SUFFICES ASSUME NEW k \in 0 .. n
                 PROVE  Masks(gs, k) = Masks(fs, k) /\ Masks(fs, k) \in Nat /\ Masks(fs, k) + 1 \in 1 .. Len(masked_blocks)
      OBVIOUS
    <3>2. Masks(gs, k) = Masks(fs, k)
      BY <1>0
    <3> QED
      BY <2>1, <3>1, <3>2
  <2>5. \A k \in 0 .. n : WithinNext(gs, k, masked_blocks'[Masks(gs, k) + 1].change_mask)
    BY <1>11, <2>1, <2>3, <2>4
  <2>6. WithinNext(gs, n + 1, masked_blocks'[Masks(gs, n + 1) + 1].change_mask)
    BY <1>1, <1>12, <2>1, <2>2, <2>3
  <2>7. \A k \in 0 .. n + 1 : WithinNext(gs, k, masked_blocks'[Masks(gs, k) + 1].change_mask)
    BY <1>4, <2>5, <2>6
  <2>8. Len(masked_blocks') = Masks(gs, n + 1) + 1
    BY <1>1, <2>1, <2>3
  <2> QED
    BY <1>1, <2>7, <2>8 DEF BlocksOpen, Within, WithinNext, Held
<1>16. LabelsWait(gs)'
  <2>1. \A k \in 1 .. n : fs[k].kind = "branch" =>
          /\ from_node[fs[k].label] # <<>> /\ WithinNext(gs, k - 1, Last(from_node[fs[k].label]))
          /\ fs[k].branch = "then" => to_node[fs[k].label + 1] = 0
    <3>1. \A k \in 1 .. n : k - 1 \in 0 .. n
      BY <1>1
    <3> QED
      BY <1>11, <3>1 DEF Settled, LabelsWait, Waits, n
  <2> QED
    BY <1>1, <1>4, <1>7, <2>1 DEF LabelsWait, Waits, Within, WithinNext, Held
<1>17. ExecIs(Cond(gs, n + 1))'
  BY <1>2, <1>7 DEF ExecIs, C
<1> QED
  BY <1>6, <1>7, <1>10, <1>13, <1>14, <1>15, <1>16, <1>17 DEF Settled, gs, n, C

\* What remains is that of the same conditional.
LEMMA StillOpening ==
  ASSUME NEW fs \in Seq(Frame), NEW f \in Frame, frames' = Append(fs, f), f.branch = "then",
         \/ f.kind = "mask" /\ Masking(fs, f)'
         \/ f.kind = "branch" /\ Branching(fs, f)'
  PROVE  Opening(fs)'
<1>1. Append(fs, f) # <<>> /\ Append(fs, f)[Len(Append(fs, f))] = f
  BY AppendProperties, LenProperties
<1>2. frames' # <<>> /\ Top' = f
  BY <1>1 DEF Top
<1> QED
  BY <1>2 DEF Opening

\* An IR instruction continues its phase, with the same conditionals, or is the last one of it.
GoesOn(fs) ==
  /\ todo' # <<>> => Lags(fs)'
  /\ \E gs : Lags(gs)'

\* v_cmp, the copy of exec, the and, and the change of the mask.
LEMMA MaskingStep ==
  ASSUME TypeInv, FramesInv, Steady, Step, NEW fs, Nested(fs, ifs), Settled(fs),
         NEW f \in Frame, f.kind = "mask", f.branch = "then", frames = Append(fs, f), Masking(fs, f)
  PROVE  Steady' /\ GoesOn(fs)
<1> DEFINE n == Len(fs)
<1>1. /\ Build(Head(todo)) /\ todo' = Tail(todo) /\ frames' = Append(fs, f) /\ ifs' = ifs
      /\ Nested(fs, ifs)' /\ Nested(Append(fs, f), ifs) /\ fs \in Seq(Frame)
  BY Runs DEF FramesInv, Nested
<1>2. /\ n \in Nat /\ f.save \in Regs \ Preds /\ f.cmp \in Comparisons
      /\ \A k \in 1 .. n : fs[k].kind = "mask" => fs[k].save # f.save
      /\ Outside(Cond(fs, n), f.cmp) /\ Len(Append(fs, f)) = n + 1
  BY <1>1, Opened, FrameType
<1>3. \A k \in 1 .. n : fs[k].kind = "mask" => fs[k].save \notin Preds
  BY SavesOf
<1>4. Known("exec") /\ Known("vcc") /\ "exec" \in Preds /\ "vcc" \in Preds /\ "exec" \in Regs /\ "vcc" \in Regs
  BY ExecKnown DEF Known
<1>5. ASSUME Masking(fs, f)', Settled(fs)' PROVE GoesOn(fs)
  BY <1>1, <1>5, StillOpening DEF Lags, GoesOn
<1> HIDE DEF n
<1>6. CASE todo = <<CmpIR(f.cmp), SaveIR(f.save), NarrowIR, UseMask>> /\ ExecIs(Cond(fs, Len(fs)))
  <2>1. VCmp("vcc", f.cmp) /\ todo' = <<SaveIR(f.save), NarrowIR, UseMask>>
    BY <1>1, <1>6, BuildOf
  <2>2. Writes("vcc", Cmp(f.cmp), {Cmp(f.cmp)}) /\ Cmp(f.cmp) \in Text
    BY <1>2, <1>4, <2>1, CmpWrites
  <2>3. Settled(fs)' /\ Steady' /\ WritesDone("vcc", Cmp(f.cmp), {Cmp(f.cmp)})
    BY <1>1, <1>3, <1>4, <2>2, WritesSettled DEF n
  <2>4. Masking(fs, f)'
    BY <1>4, <1>6, <2>1, <2>3 DEF Masking, ExecIs, WritesDone
  <2> QED
    BY <1>5, <2>3, <2>4
<1>7. CASE /\ todo = <<SaveIR(f.save), NarrowIR, UseMask>> /\ ExecIs(Cond(fs, Len(fs)))
           /\ state[last_node]["vcc"].text = Cmp(f.cmp)
  <2>1. SMov(f.save, "exec") /\ todo' = <<NarrowIR, UseMask>>
    BY <1>1, <1>7, BuildOf
  <2> DEFINE txt == state[last_node]["exec"].text
  <2>2. Writes(f.save, txt, exec_registers["exec"]) /\ txt \in Text
    BY <1>2, <1>4, <2>1, MovWrites
  <2> HIDE DEF txt
  <2>3. Settled(fs)' /\ Steady' /\ WritesDone(f.save, txt, exec_registers["exec"])
    BY <1>1, <1>2, <2>2, WritesSettled DEF n
  <2>4. ExecIs(Cond(fs, n))' /\ SaveDone(fs, f.save)' /\ state'[last_node']["vcc"].text = Cmp(f.cmp)
    BY <1>2, <1>4, <1>7, <2>3 DEF ExecIs, WritesDone, SaveDone, n
  <2>5. Masking(fs, f)'
    BY <2>1, <2>4 DEF Masking, n
  <2> QED
    BY <1>5, <2>3, <2>5
<1>8. CASE /\ todo = <<NarrowIR, UseMask>> /\ ExecIs(Cond(fs, Len(fs)))
           /\ state[last_node]["vcc"].text = Cmp(f.cmp) /\ SaveDone(fs, f.save)
  <2>1. SAnd("exec", "exec", "vcc") /\ todo' = <<UseMask>>
    BY <1>1, <1>8, BuildOf
  <2> DEFINE C == Cond(fs, n) \cup {Cmp(f.cmp)}
  <2>2. ExecAnd(exec_registers["exec"], state[last_node]["vcc"].text) = C
    BY <1>2, <1>8, AndNarrows DEF ExecIs, n
  <2>3. Writes("exec", top(C), C) /\ top(C) \in Text
    BY <1>4, <2>1, <2>2, AndWrites
  <2>4. C = Cond(fs, Len(fs)) \cup {Literal(f)}
    BY DEF Literal, n
  <2> HIDE DEF C
  <2>5. Settled(fs)' /\ Steady' /\ WritesDone("exec", top(C), C)
    BY <1>1, <1>3, <1>4, <2>3, WritesSettled DEF n
  <2>6. ExecIs(C)' /\ SaveDone(fs, f.save)'
    BY <1>2, <1>4, <1>8, <2>5 DEF ExecIs, WritesDone, SaveDone, Present
  <2>7. Masking(fs, f)'
    BY <2>1, <2>4, <2>6 DEF Masking, ExecIs
  <2> QED
    BY <1>5, <2>5, <2>7
<1>9. CASE todo = <<UseMask>> /\ ExecIs(Cond(fs, Len(fs)) \cup {Literal(f)}) /\ SaveDone(fs, f.save)
  <2>1. ChangeMask("exec") /\ todo' = <<>>
    BY <1>1, <1>9, BuildOf
  <2> DEFINE gs == Append(fs, f)
  <2>2. Settled(gs)' /\ Steady' /\ ExecIs(Cond(gs, Len(fs) + 1))'
    BY <1>1, <1>9, <2>1, MaskOpens
  <2>3. Len(gs) = Len(fs) + 1
    BY <1>2 DEF n
  <2> HIDE DEF gs
  <2>4. Level(gs)'
    BY <1>1, <2>1, <2>2, <2>3 DEF Level, ExecIs, gs
  <2>5. Lags(gs)'
    BY <1>1, <2>2, <2>4 DEF Lags, gs
  <2> QED
    BY <2>1, <2>2, <2>5 DEF GoesOn
<1> QED
  BY <1>6, <1>7, <1>8, <1>9 DEF Masking

------------------------------------------------------------------------------
(***************************************************************************)
(* The else of a conditional with a mask.                                  *)
(***************************************************************************)
\* An open mask with the condition is found where the search starts.
LEMMA FoundTop ==
  ASSUME NEW e \in Nat, e > 0, NEW C, mask[masked_blocks[e].change_mask] = C
  PROVE  find_open_mask_index(C, e) = e
<1> DEFINE found == {i \in 1 .. e : mask[masked_blocks[i].change_mask] = C}
<1>1. e \in found /\ \A j \in found : j \in Nat /\ j <= e
  OBVIOUS
<1>2. find_open_mask_index(C, e) = CHOOSE i \in found : \A j \in found : j <= i
  BY <1>1 DEF find_open_mask_index
<1> HIDE DEF found
<1>3. \A i \in found : (\A j \in found : j <= i) => i = e
  BY <1>1
<1> QED
  BY <1>1, <1>2, <1>3

\* The stack after the topmost entries have been replaced by one.
LEMMA StackReplaced ==
  ASSUME RestType, NEW k \in 1 .. Len(masked_blocks), NEW x
  PROVE  LET s == Append(SubSeq(masked_blocks, 1, k), x)
         IN  /\ Len(s) = k + 1 /\ s[k + 1] = x
             /\ \A b \in 1 .. k : s[b] = masked_blocks[b]
<1> DEFINE s == SubSeq(masked_blocks, 1, k)
           M == Mask \cup {x}
<1>1. s \in Seq(Mask) /\ Len(s) = k /\ \A b \in 1 .. k : s[b] = masked_blocks[b]
  BY PrefixType DEF RestType
<1>2. s \in Seq(M)
  BY <1>1, SeqMonotonic
<1> HIDE DEF s
<1>3. /\ Len(Append(s, x)) = Len(s) + 1 /\ Append(s, x)[Len(s) + 1] = x
      /\ \A b \in 1 .. Len(s) : Append(s, x)[b] = s[b]
  <2> HIDE DEF M
  <2>1. x \in M
    BY DEF M
  <2> QED
    BY <1>2, <2>1, AppendProperties
<1> QED
  BY <1>1, <1>3 DEF s

\* The two newest entries of the stack when the newest conditional has a mask.
LEMMA TopBlocks ==
  ASSUME NEW fs, NEW m, Nested(fs, m), fs # <<>>, fs[Len(fs)].kind = "mask", Settled(fs), TypeInv
  PROVE  LET n == Len(fs)
             L == Len(masked_blocks)
         IN  /\ n \in Nat /\ n > 0 /\ n - 1 \in Nat /\ fs[n] \in Frame /\ fs \in Seq(Frame)
             /\ L \in Nat /\ L - 1 \in 1 .. L
             /\ Masks(fs, n) = Masks(fs, n - 1) + 1 /\ Masks(fs, n - 1) \in Nat
             /\ Masks(fs, n - 1) = L - 2 /\ Masks(fs, n) = L - 1
             /\ Cond(fs, n) = Cond(fs, n - 1) \cup {Literal(fs[n])}
             /\ Outside(Cond(fs, n - 1), fs[n].cmp) /\ Literal(fs[n]) \in {Cmp(fs[n].cmp), Wrap(Cmp(fs[n].cmp))}
             /\ mask[last_node] = Cond(fs, n)
             /\ Within(fs, n, masked_blocks[L].change_mask)
             /\ Within(fs, n - 1, masked_blocks[L - 1].change_mask)
<1> DEFINE n == Len(fs)
           L == Len(masked_blocks)
<1>1. n \in Nat /\ n > 0 /\ n - 1 \in Nat /\ fs[n] \in Frame /\ fs \in Seq(Frame) /\ fs[n].kind = "mask"
  BY FrontProperties DEF Nested
<1> HIDE DEF n, L
<1>2. PICK q \in Nat : q = n - 1 /\ n = q + 1
  BY <1>1
<1>3. Masks(fs, n) = Masks(fs, q) + 1 /\ Masks(fs, q) \in Nat /\ Cond(fs, n) = Cond(fs, q) \cup {Literal(fs[n])}
  BY <1>1, <1>2, MasksCount, CondNext
<1>4. Outside(Cond(fs, n - 1), fs[n].cmp) /\ Literal(fs[n]) \in {Cmp(fs[n].cmp), Wrap(Cmp(fs[n].cmp))}
  BY <1>1, CondOutside DEF n
<1>5. /\ L = Masks(fs, n) + 1
      /\ \A k \in 0 .. n : Within(fs, k, masked_blocks[Masks(fs, k) + 1].change_mask)
      /\ mask[last_node] = Cond(fs, n)
  BY DEF Settled, BlocksOpen, Here, Within, n, L
<1>6. L = Masks(fs, q) + 1 + 1 /\ L \in Nat /\ L - 1 = Masks(fs, q) + 1 /\ n \in 0 .. n /\ q \in 0 .. n
  BY <1>1, <1>2, <1>3, <1>5
<1>7. Within(fs, n, masked_blocks[L].change_mask) /\ Within(fs, q, masked_blocks[L - 1].change_mask)
  BY <1>3, <1>5, <1>6
<1> QED
  BY <1>1, <1>2, <1>3, <1>4, <1>5, <1>6, <1>7 DEF n, L

\* The change of the mask leaves the then-branch and hangs the else off its mask.
LEMMA MaskTurns ==
  ASSUME TypeInv, Steady, ifs' = ifs, NEW fs, NEW m \in 0 .. MaxIfs, Nested(fs, m), fs # <<>>,
         fs[Len(fs)].kind = "mask", fs[Len(fs)].branch = "then", Settled(fs),
         ExecIs(Cond(fs, Len(fs) - 1) \cup {Literal(Elsed(fs[Len(fs)]))}), ChangeMask("exec")
  PROVE  LET L == Len(masked_blocks)
             cm == masked_blocks[L].change_mask
         IN  /\ Settled(WithElse(fs))' /\ Steady' /\ ExecIs(Cond(WithElse(fs), Len(fs)))'
             /\ EmitNode("change_mask", <<cm>>, state[cm], versions, exec_registers["exec"])
             /\ masked_blocks' = Append(SubSeq(masked_blocks, 1, L - 1), OpenMask(last_node + 1, last_node))
             /\ from_node' = from_node
<1> DEFINE n == Len(fs)
           f == fs[n]
           gs == WithElse(fs)
           L == Len(masked_blocks)
           C == exec_registers["exec"]
           cm == masked_blocks[L].change_mask
<1>1. /\ n \in Nat /\ n > 0 /\ n - 1 \in Nat /\ f \in Frame
      /\ L \in Nat /\ L - 1 \in 1 .. L
      /\ Masks(fs, n) = L - 1 /\ Masks(fs, n - 1) = L - 2
      /\ Outside(Cond(fs, n - 1), f.cmp) /\ mask[last_node] = Cond(fs, n)
      /\ Cond(fs, n) = Cond(fs, n - 1) \cup {Cmp(f.cmp)}
      /\ Within(fs, n, cm) /\ Within(fs, n - 1, masked_blocks[L - 1].change_mask)
  <2>1. Literal(f) = Cmp(f.cmp)
    BY DEF Literal
  <2> QED
    BY <2>1, TopBlocks
<1>2. /\ Nested(gs, m) /\ Len(gs) = n /\ gs[n] = Elsed(f) /\ Elsed(f) \in Frame
      /\ \A k \in 1 .. n - 1 : gs[k] = fs[k]
  BY NestedElse
<1>3. /\ Elsed(f).kind = "mask" /\ Elsed(f).cmp = f.cmp /\ Elsed(f).branch = "else" /\ Elsed(f).save = f.save
      /\ Literal(Elsed(f)) = Wrap(Cmp(f.cmp))
  <2>1. Elsed(f).kind = "mask" /\ Elsed(f).cmp = f.cmp /\ Elsed(f).branch = "else" /\ Elsed(f).save = f.save
    BY <1>1, ElsedType
  <2> QED
    BY <2>1 DEF Literal
<1>4. TypeOK /\ RestType /\ C \in Condition
  BY TypeParts, KernelRegs DEF TypeInv, RestType
<1>5. C = Cond(fs, n - 1) \cup {Wrap(Cmp(f.cmp))}
  BY <1>3 DEF ExecIs
<1>6. f.kind = "mask" /\ f.branch = "then" /\ masked_blocks[L].change_mask = cm
  OBVIOUS
<1> HIDE DEF n, f, gs, L, C, cm
<1>7. PICK q \in Nat : q = n - 1 /\ n = q + 1
  BY <1>1
<1>8. ASSUME NEW k \in 0 .. q
      PROVE  /\ Cond(gs, k) = Cond(fs, k) /\ Masks(gs, k) = Masks(fs, k)
             /\ \A x : WithinNext(gs, k, x) <=> WithinNext(fs, k, x)
  <2>1. k \in 0 .. q /\ \A j \in 1 .. q : gs[j] = fs[j]
    BY <1>2, <1>7, <1>8
  <2> QED
    BY <2>1, Agree
<1>9. /\ n \in 0 .. n /\ q \in 0 .. q /\ n - 1 = q
      /\ (\A k \in 0 .. n : k \in 0 .. q \/ k = n) /\ (\A k \in 1 .. n : k - 1 \in 0 .. q)
      /\ (\A k \in 1 .. n : k \in 1 .. n - 1 \/ k = n) /\ (\A k \in 1 .. n - 1 : k \in 1 .. n)
      /\ \A k \in 0 .. q : k \in 0 .. n
  BY <1>7
<1>10. Cond(gs, n) = C /\ Masks(gs, n) = L - 1
  <2>1. Cond(gs, q) = Cond(fs, q) /\ Masks(gs, q) = Masks(fs, q)
    BY <1>8, <1>9
  <2>2. Cond(gs, q + 1) = Cond(gs, q) \cup {Literal(gs[q + 1])} /\ Masks(gs, q + 1) = Masks(gs, q) + 1
    BY <1>2, <1>3, <1>7, CondNext, MasksCount
  <2> QED
    BY <1>1, <1>2, <1>3, <1>5, <1>7, <2>1, <2>2
<1>11. ElseMask(C) /\ UNCHANGED <<execs, jumps, outcome>> /\ sibling_parent(mask[last_node], C) = Cond(fs, q)
  <2>1. /\ ~(mask[last_node] \subseteq C) /\ ~(C \subseteq mask[last_node])
        /\ Siblings(mask[last_node], C) /\ sibling_parent(mask[last_node], C) = Cond(fs, q)
    <3>1. PICK D, i : D = Cond(fs, q) /\ i = f.cmp
      OBVIOUS
    <3>2. Outside(D, i) /\ mask[last_node] = D \cup {Cmp(i)} /\ C = D \cup {Wrap(Cmp(i))}
      BY <1>1, <1>5, <1>7, <3>1
    <3>3. LET T == D \cup {Cmp(i)}
              E == D \cup {Wrap(Cmp(i))}
          IN  ~(T \subseteq E) /\ ~(E \subseteq T) /\ Siblings(T, E) /\ sibling_parent(T, E) = D
      BY <3>2, XorTurns
    <3> QED
      BY <3>1, <3>2, <3>3
  <2> QED
    BY <2>1 DEF ChangeMask, StrictSubset, C
<1>12. /\ EmitNode("change_mask", <<cm>>, state[cm], versions, C)
       /\ masked_blocks' = Append(SubSeq(masked_blocks, 1, L - 1), OpenMask(last_node + 1, last_node))
       /\ exec_registers' = exec_registers /\ exec_known' = exec_known
       /\ to_node' = to_node /\ from_node' = from_node /\ outcome' = outcome
  <2>1. find_open_mask_index(mask[last_node], L) = L
    <3>1. L \in Nat /\ L > 0 /\ mask[masked_blocks[L].change_mask] = mask[last_node]
      BY <1>1, <1>6 DEF Within
    <3> QED
      BY <3>1, FoundTop
  <2>2. find_open_mask_index(Cond(fs, q), L - 1) = L - 1
    BY <1>1, <1>7, FoundTop DEF Within
  <2>3. ElseKept(L, L - 1) = L - 1 /\ L # 0
    BY <1>1 DEF ElseKept
  <2> QED
    BY <1>11, <2>1, <2>2, <2>3 DEF ElseMask, L, cm, execs, jumps
<1>13. Grown(C, state[cm]) /\ state'[last_node'] = state[cm] /\ cm \in Nodes
  <2>1. cm \in Nodes
    BY <1>1 DEF Within
  <2>2. <<cm>> \in Seq(Nodes) /\ Len(<<cm>>) <= 1 /\ state[cm] \in [Regs -> RegState] /\ "change_mask" \in Opcodes
    BY <1>4, <2>1 DEF TypeOK, Opcodes
  <2> QED
    BY <1>4, <1>12, <2>1, <2>2, EmitGrown
<1>14. Steady'
  <2>1. \A p \in Preds : Present(state[cm], p)
    BY <1>13 DEF Steady
  <2> QED
    BY <1>12, <1>13, <2>1, SteadyKept
<1>15. \A k \in 0 .. q : \A x : Within(fs, k, x) => WithinNext(gs, k, x)
  <2>1. \A k \in 0 .. q : \A x : Within(fs, k, x) => WithinNext(fs, k, x)
    BY <1>13, WithinKept
  <2> QED
    BY <1>8, <2>1
<1>16. WithinNext(gs, n, last_node')
  <2>1. \A j \in 1 .. n : gs[j].kind = "mask" => Present(state[cm], gs[j].save)
    <3>1. \A j \in 1 .. n : fs[j].kind = "mask" => Present(state[cm], fs[j].save)
      BY <1>1 DEF Within, Held
    <3>2. gs[n].save = f.save /\ f = fs[n] /\ f.kind = "mask"
      BY <1>2, <1>3, <1>6 DEF f
    <3> QED
      BY <1>2, <1>9, <3>1, <3>2
  <2>2. last_node' \in Nodes' /\ mask'[last_node'] = C /\ state'[last_node'] = state[cm]
    BY <1>13 DEF Grown
  <2> QED
    BY <1>10, <2>1, <2>2 DEF WithinNext
<1>17. Here(gs)'
  BY <1>2, <1>16 DEF Here, Within, WithinNext, Held
<1>18. SavesKnown(gs)'
  <2>1. \A k \in 1 .. n : Cond(gs, k - 1) = Cond(fs, k - 1)
    BY <1>8, <1>9
  <2>2. \A k \in 1 .. n : fs[k].kind = "mask" => fs[k].save \in exec_known /\ exec_registers[fs[k].save] = Cond(fs, k - 1)
    BY DEF Settled, SavesKnown, n
  <2>3. \A k \in 1 .. n : gs[k].kind = fs[k].kind /\ (fs[k].kind = "mask" => gs[k].save = fs[k].save)
    BY <1>2, <1>3, <1>6, <1>9 DEF f
  <2> QED
    BY <1>2, <1>12, <2>1, <2>2, <2>3 DEF SavesKnown
<1>19. BlocksOpen(gs)'
  <2>1. /\ Len(masked_blocks') = L /\ masked_blocks'[L] = OpenMask(last_node + 1, last_node)
        /\ \A b \in 1 .. L - 1 : masked_blocks'[b] = masked_blocks[b]
    <3>1. L - 1 \in 1 .. Len(masked_blocks) /\ L - 1 + 1 = L
      BY <1>1 DEF L
    <3> QED
      BY <1>4, <1>12, <3>1, StackReplaced
  <2>2. OpenMask(last_node + 1, last_node).change_mask = last_node'
    BY <1>13 DEF OpenMask, Grown
  <2>3. \A k \in 0 .. q : Masks(gs, k) = Masks(fs, k) /\ Masks(fs, k) + 1 \in 1 .. L - 1
    <3>1. \A k \in 0 .. q : Masks(fs, k) \in Nat /\ Masks(fs, k) <= Masks(fs, q) /\ Masks(fs, q) \in Nat
      BY MasksRange
    <3> QED
      BY <1>1, <1>7, <1>8, <3>1
  <2>4. \A k \in 0 .. q : WithinNext(gs, k, masked_blocks'[Masks(gs, k) + 1].change_mask)
    <3>1. \A k \in 0 .. q : Within(fs, k, masked_blocks[Masks(fs, k) + 1].change_mask)
      BY <1>9 DEF Settled, BlocksOpen, n
    <3> QED
      BY <1>15, <2>1, <2>3, <3>1
  <2>5. WithinNext(gs, n, masked_blocks'[Masks(gs, n) + 1].change_mask) /\ L = Masks(gs, n) + 1
    BY <1>1, <1>10, <1>16, <2>1, <2>2
  <2>6. \A k \in 0 .. n : WithinNext(gs, k, masked_blocks'[Masks(gs, k) + 1].change_mask)
    BY <1>9, <2>4, <2>5
  <2> QED
    BY <1>2, <2>1, <2>5, <2>6 DEF BlocksOpen, Within, WithinNext, Held
<1>20. LabelsWait(gs)'
  <2>1. \A k \in 1 .. n : fs[k].kind = "branch" =>
          /\ from_node[fs[k].label] # <<>> /\ WithinNext(gs, k - 1, Last(from_node[fs[k].label]))
          /\ fs[k].branch = "then" => to_node[fs[k].label + 1] = 0
    BY <1>9, <1>15 DEF Settled, LabelsWait, Waits, n
  <2>2. \A k \in 1 .. n : gs[k].kind = "branch" => k \in 1 .. n - 1 /\ gs[k] = fs[k]
    BY <1>2, <1>3, <1>9
  <2> QED
    BY <1>2, <1>12, <2>1, <2>2 DEF LabelsWait, Waits, Within, WithinNext, Held
<1>21. ExecIs(Cond(gs, n))'
  BY <1>10, <1>12 DEF ExecIs, C
<1> QED
  BY <1>12, <1>14, <1>17, <1>18, <1>19, <1>20, <1>21 DEF Settled, gs, n, C, L, cm

\* The xor with the saved exec, and the change of the mask.
LEMMA TurningStep ==
  ASSUME TypeInv, FramesInv, Steady, Step, NEW fs, Nested(fs, ifs), Settled(fs), fs # <<>>,
         fs[Len(fs)].kind = "mask", fs[Len(fs)].branch = "then", frames = WithElse(fs),
         Turning(fs, fs[Len(fs)])
  PROVE  Steady' /\ GoesOn(fs)
<1> DEFINE n == Len(fs)
           f == fs[n]
<1>1. /\ Build(Head(todo)) /\ todo' = Tail(todo) /\ frames' = WithElse(fs) /\ ifs' = ifs
      /\ Nested(fs, ifs)' /\ Nested(WithElse(fs), ifs)' /\ ifs \in 0 .. MaxIfs
  BY Runs, NestedElse DEF FramesInv
<1>2. /\ n \in Nat /\ n > 0 /\ n - 1 \in Nat /\ n \in 1 .. n /\ f \in Frame /\ f.kind = "mask" /\ f.branch = "then"
      /\ Outside(Cond(fs, n - 1), f.cmp)
      /\ Cond(fs, n) = Cond(fs, n - 1) \cup {Cmp(f.cmp)}
  <2>1. Literal(f) = Cmp(f.cmp)
    BY DEF Literal
  <2> QED
    BY <2>1, TopBlocks
<1>3. /\ Len(WithElse(fs)) = n /\ Elsed(f) \in Frame /\ Literal(Elsed(f)) = Wrap(Cmp(f.cmp))
  <2>1. Elsed(f).cmp = f.cmp /\ Elsed(f).branch = "else"
    BY <1>2, ElsedType
  <2> QED
    BY <1>1, <2>1, NestedElse DEF Literal
<1>4. /\ Known("exec") /\ "exec" \in Preds /\ "exec" \in Regs
      /\ f.save \in Regs /\ (\A k \in 1 .. n : fs[k].kind = "mask" => fs[k].save \notin Preds)
  BY <1>2, SavesOf, ExecKnown DEF Known
<1>5. Known(f.save) /\ exec_registers[f.save] = Cond(fs, n - 1)
  BY <1>2, <1>4 DEF Known, Settled, Here, Within, Held, SavesKnown
<1>6. CASE todo = <<ElseIR(f.save), UseMask>> /\ ExecIs(Cond(fs, Len(fs)))
  <2> HIDE DEF n, f
  <2>1. SXor("exec", f.save, "exec") /\ todo' = <<UseMask>>
    BY <1>1, <1>6, BuildOf
  <2> DEFINE C == Cond(fs, n - 1) \cup {Wrap(Cmp(f.cmp))}
             D == exec_registers[f.save]
             E == exec_registers["exec"]
  <2>2. D = Cond(fs, n - 1) /\ E = D \cup {Cmp(f.cmp)} /\ Outside(D, f.cmp)
    BY <1>2, <1>5, <1>6 DEF ExecIs, n
  <2>3. xor_defined(D, E) /\ ExecXor(D, E) = C
    <3>1. PICK A, i : A = Cond(fs, n - 1) /\ i = f.cmp
      OBVIOUS
    <3>2. Outside(A, i) /\ D = A /\ E = A \cup {Cmp(i)} /\ C = A \cup {Wrap(Cmp(i))}
      BY <2>2, <3>1
    <3>3. xor_defined(A, A \cup {Cmp(i)}) /\ ExecXor(A, A \cup {Cmp(i)}) = A \cup {Wrap(Cmp(i))}
      BY <3>2, XorTurns
    <3> QED
      BY <3>2, <3>3
  <2>4. Writes("exec", top(C), C) /\ top(C) \in Text
    BY <1>4, <1>5, <2>1, <2>3, XorWrites
  <2>5. C = Cond(fs, Len(fs) - 1) \cup {Literal(Elsed(f))}
    BY <1>3 DEF n
  <2> HIDE DEF C
  <2>6. Settled(fs)' /\ Steady' /\ WritesDone("exec", top(C), C)
    BY <1>1, <1>4, <2>4, WritesSettled DEF n
  <2>7. Turning(fs, f)'
    BY <2>1, <2>5, <2>6 DEF Turning, ExecIs, WritesDone
  <2>8. Switching(fs)'
    BY <1>1, <1>2, <2>7 DEF Switching, n, f
  <2> QED
    BY <1>1, <2>6, <2>8 DEF Lags, GoesOn
<1>7. CASE todo = <<UseMask>> /\ ExecIs(Cond(fs, Len(fs) - 1) \cup {Literal(Elsed(f))})
  <2> DEFINE gs == WithElse(fs)
  <2>1. ChangeMask("exec") /\ todo' = <<>>
    BY <1>1, <1>7, BuildOf
  <2>2. Settled(gs)' /\ Steady' /\ ExecIs(Cond(gs, Len(fs)))'
    BY <1>1, <1>2, <1>7, <2>1, MaskTurns
  <2>3. Len(gs) = Len(fs)
    BY <1>3
  <2> HIDE DEF gs, n, f
  <2>4. Level(gs)'
    BY <1>1, <2>1, <2>2, <2>3 DEF Level, ExecIs, gs
  <2>5. Lags(gs)'
    BY <1>1, <2>2, <2>4 DEF Lags, gs
  <2> QED
    BY <2>1, <2>2, <2>5 DEF GoesOn
<1> QED
  BY <1>6, <1>7 DEF Turning

------------------------------------------------------------------------------
(***************************************************************************)
(* The end of a conditional with a mask.                                   *)
(***************************************************************************)
\* gs is fs without the innermost conditional; q of them are left.
Leaves(fs, gs, n, q) ==
  /\ q \in Nat /\ q = n - 1 /\ n = q + 1 /\ n \in 1 .. n /\ fs[n] \in Frame /\ Len(gs) = q
  /\ \A k \in 1 .. q : gs[k] = fs[k] /\ k \in 1 .. n /\ k \in 0 .. n /\ k - 1 \in 0 .. q
  /\ \A k \in 0 .. q : Cond(gs, k) = Cond(fs, k) /\ Masks(gs, k) = Masks(fs, k) /\ k \in 0 .. n

LEMMA InnermostLeft ==
  ASSUME NEW fs, NEW m, Nested(fs, m), fs # <<>>
  PROVE  \E q : Leaves(fs, Front(fs), Len(fs), q)
<1> DEFINE n == Len(fs)
           gs == Front(fs)
<1>1. n \in Nat /\ n > 0 /\ fs[n] \in Frame /\ Len(gs) = n - 1 /\ \A k \in 1 .. n - 1 : gs[k] = fs[k]
  BY FrontProperties DEF Nested
<1> HIDE DEF n, gs
<1>2. PICK q \in Nat : q = n - 1 /\ n = q + 1
  BY <1>1
<1>3. n \in 1 .. n /\ (\A k \in 1 .. q : k \in 1 .. n /\ k \in 0 .. n /\ k - 1 \in 0 .. q) /\ \A k \in 0 .. q : k \in 0 .. n
  BY <1>2
<1>4. \A k \in 1 .. q : gs[k] = fs[k]
  BY <1>1, <1>2
<1>5. ASSUME NEW k \in 0 .. q PROVE Cond(gs, k) = Cond(fs, k) /\ Masks(gs, k) = Masks(fs, k)
  <2>1. k \in 0 .. q
    BY <1>5
  <2> QED
    BY <1>4, <2>1, Agree
<1>6. Len(gs) = q /\ fs[n] \in Frame
  BY <1>1, <1>2
<1>7. Leaves(fs, gs, n, q)
  BY <1>2, <1>3, <1>4, <1>5, <1>6 DEF Leaves
<1> QED
  BY <1>7 DEF n, gs

\* The change of the mask closes the topmost mask of the stack, and no other.
LEMMA MaskCloses ==
  ASSUME TypeInv, Steady, ifs' = ifs, NEW fs, NEW m, Nested(fs, m), fs # <<>>,
         fs[Len(fs)].kind = "mask", Settled(fs), ExecIs(Cond(fs, Len(fs) - 1)), ChangeMask("exec")
  PROVE  LET C == exec_registers["exec"]
         IN  /\ Settled(Front(fs))' /\ Steady' /\ ExecIs(Cond(Front(fs), Len(Front(fs))))'
             /\ Kept(C) = Len(masked_blocks) - 1
             /\ EmitNode("change_mask", ParentsOfClosed(parents, C), state[last_node], versions, C)
             /\ masked_blocks' = SubSeq(masked_blocks, 1, Len(masked_blocks) - 1)
             /\ from_node' = from_node
<1> DEFINE n == Len(fs)
           gs == Front(fs)
           L == Len(masked_blocks)
           C == exec_registers["exec"]
<1>0. PICK q : Leaves(fs, gs, n, q)
  BY InnermostLeft
<1>1. /\ q \in Nat /\ q = n - 1 /\ n = q + 1 /\ n \in 1 .. n /\ fs[n] \in Frame /\ Len(gs) = q
      /\ \A k \in 1 .. q : gs[k] = fs[k] /\ k \in 1 .. n /\ k \in 0 .. n /\ k - 1 \in 0 .. q
      /\ \A k \in 0 .. q : Cond(gs, k) = Cond(fs, k) /\ Masks(gs, k) = Masks(fs, k) /\ k \in 0 .. n
  BY <1>0 DEF Leaves
<1>2. /\ L \in Nat /\ L - 1 \in 1 .. L
      /\ Masks(fs, n - 1) = L - 2 /\ Masks(fs, n - 1) \in Nat
      /\ Cond(fs, n) = Cond(fs, n - 1) \cup {Literal(fs[n])}
      /\ Outside(Cond(fs, n - 1), fs[n].cmp) /\ Literal(fs[n]) \in {Cmp(fs[n].cmp), Wrap(Cmp(fs[n].cmp))}
      /\ mask[last_node] = Cond(fs, n)
      /\ Within(fs, n, masked_blocks[L].change_mask)
      /\ Within(fs, n - 1, masked_blocks[L - 1].change_mask)
  BY TopBlocks
<1>3. TypeOK /\ RestType /\ C \in Condition /\ C = Cond(fs, n - 1)
  BY TypeParts, KernelRegs DEF TypeInv, RestType, ExecIs
<1>4. Within(fs, n, last_node)
  BY DEF Settled, Here
<1> HIDE DEF n, gs, L, C
<1>5. q \in 0 .. q /\ n - 1 = q /\ Cond(gs, q) = C
  BY <1>1, <1>3
<1>6. StrictSubset(C, mask[last_node])
  <2>1. PICK D, i, c : D = Cond(fs, n - 1) /\ i = fs[n].cmp /\ c = Literal(fs[n])
    OBVIOUS
  <2>2. Outside(D, i) /\ c \in {Cmp(i), Wrap(Cmp(i))} /\ C = D /\ mask[last_node] = D \cup {c}
    BY <1>2, <1>3, <2>1
  <2>3. StrictSubset(D, D \cup {c})
    BY <2>2, OrRestores
  <2> QED
    BY <2>2, <2>3
<1>7. Kept(C) = L - 1
  <2>1. /\ Kept(C) \in 1 .. L
        /\ Kept(C) > 1 => ~Closable(Kept(C), C)
        /\ \A i \in Kept(C) + 1 .. L : Closable(i, C)
    BY <1>3, KeptType DEF L
  <2>2. Closable(L, C)
    BY <1>2, <1>6 DEF Closable, Within
  <2>3. ~Closable(L - 1, C)
    BY <1>2, <1>3 DEF Closable, Within, StrictSubset
  <2>4. Kept(C) # L
    <3>1. L > 1
      BY <1>2
    <3> QED
      BY <2>1, <2>2, <3>1
  <2>5. L - 1 \notin Kept(C) + 1 .. L
    BY <2>1, <2>3
  <2> QED
    BY <1>2, <2>1, <2>4, <2>5
<1>8. /\ EmitNode("change_mask", ParentsOfClosed(parents, C), state[last_node], versions, C)
      /\ masked_blocks' = SubSeq(masked_blocks, 1, L - 1)
      /\ exec_registers' = exec_registers /\ exec_known' = exec_known
      /\ to_node' = to_node /\ from_node' = from_node /\ outcome' = outcome
  <2>1. CloseMask(C) /\ UNCHANGED <<execs, jumps, outcome>>
    BY <1>6 DEF ChangeMask, StrictSubset, C
  <2> QED
    BY <1>7, <2>1 DEF CloseMask, execs, jumps
<1>9. Grown(C, state[last_node])
  <2>1. /\ ParentsOfClosed(parents, C) \in Seq(Nodes) /\ state[last_node] \in [Regs -> RegState]
        /\ "change_mask" \in Opcodes
    BY <1>3, ShortParents, ParentsOfClosedType, LastTypes DEF Opcodes
  <2> QED
    BY <1>3, <1>8, <2>1, EmitGrown
<1>10. Steady'
  <2>1. \A p \in Preds : Present(state[last_node], p)
    BY PredsHere
  <2> QED
    BY <1>8, <1>9, <2>1, SteadyKept
<1>11. \A k \in 0 .. q : \A x : Within(fs, k, x) => WithinNext(gs, k, x)
  <2>1. \A k \in 0 .. q : \A x : Within(fs, k, x) => WithinNext(fs, k, x)
    BY <1>9, WithinKept
  <2>2. ASSUME NEW k \in 0 .. q PROVE \A x : WithinNext(gs, k, x) <=> WithinNext(fs, k, x)
    <3>1. q \in Nat /\ k \in 0 .. q /\ \A j \in 1 .. q : gs[j] = fs[j]
      BY <1>1, <2>2
    <3> QED
      BY <3>1, Agree
  <2> QED
    BY <2>1, <2>2
<1>12. WithinNext(gs, q, last_node')
  <2>1. \A j \in 1 .. q : gs[j].kind = "mask" => Present(state[last_node], gs[j].save) /\ gs[j].save \in Regs
    <3>1. \A j \in 1 .. n : fs[j].kind = "mask" => Present(state[last_node], fs[j].save) /\ fs[j].save \in Regs
      BY <1>4, SavesOf DEF Within, Held, n
    <3> QED
      BY <1>1, <3>1
  <2>2. /\ last_node' \in Nodes' /\ mask'[last_node'] = C
        /\ \A r \in Regs : Present(state[last_node], r) => Present(state'[last_node'], r)
    BY <1>9 DEF Grown
  <2> QED
    BY <1>5, <2>1, <2>2 DEF WithinNext
<1>13. Here(gs)'
  BY <1>1, <1>12 DEF Here, Within, WithinNext, Held
<1>14. SavesKnown(gs)'
  <2>1. \A k \in 1 .. n : fs[k].kind = "mask" => fs[k].save \in exec_known /\ exec_registers[fs[k].save] = Cond(fs, k - 1)
    BY DEF Settled, SavesKnown, n
  <2> QED
    BY <1>1, <1>8, <2>1 DEF SavesKnown
<1>15. BlocksOpen(gs)'
  <2>1. Len(masked_blocks') = L - 1 /\ \A b \in 1 .. L - 1 : masked_blocks'[b] = masked_blocks[b]
    <3>1. L - 1 \in 1 .. Len(masked_blocks)
      BY <1>2 DEF L
    <3> QED
      BY <1>3, <1>8, <3>1, PrefixType DEF RestType
  <2>2. \A k \in 0 .. q : Masks(gs, k) = Masks(fs, k) /\ Masks(fs, k) + 1 \in 1 .. L - 1
    <3>1. \A k \in 0 .. q : Masks(fs, k) \in Nat /\ Masks(fs, k) <= Masks(fs, q)
      BY <1>1, MasksRange
    <3>2. Masks(fs, q) = L - 2
      BY <1>2, <1>5
    <3> SUFFICES ASSUME NEW k \in 0 .. q
                 PROVE  Masks(gs, k) = Masks(fs, k) /\ Masks(fs, k) + 1 \in 1 .. L - 1
      OBVIOUS
    <3>3. Masks(gs, k) = Masks(fs, k)
      BY <1>1
    <3> QED
      BY <1>2, <3>1, <3>2, <3>3
  <2>3. \A k \in 0 .. q : WithinNext(gs, k, masked_blocks'[Masks(gs, k) + 1].change_mask)
    <3>1. \A k \in 0 .. q : Within(fs, k, masked_blocks[Masks(fs, k) + 1].change_mask)
      BY <1>1 DEF Settled, BlocksOpen, n
    <3> QED
      BY <1>11, <2>1, <2>2, <3>1
  <2>4. L - 1 = Masks(gs, q) + 1
    BY <1>1, <1>2, <1>5
  <2> QED
    BY <1>1, <2>1, <2>3, <2>4 DEF BlocksOpen, Within, WithinNext, Held
<1>16. LabelsWait(gs)'
  <2>1. \A k \in 1 .. q : fs[k].kind = "branch" =>
          /\ from_node[fs[k].label] # <<>> /\ WithinNext(gs, k - 1, Last(from_node[fs[k].label]))
          /\ fs[k].branch = "then" => to_node[fs[k].label + 1] = 0
    BY <1>1, <1>11 DEF Settled, LabelsWait, Waits, n
  <2> QED
    BY <1>1, <1>8, <2>1 DEF LabelsWait, Waits, Within, WithinNext, Held
<1>17. ExecIs(Cond(gs, q))'
  BY <1>5, <1>8 DEF ExecIs, C
<1> QED
  BY <1>1, <1>7, <1>8, <1>10, <1>13, <1>14, <1>15, <1>16, <1>17 DEF Settled, gs, C, L

\* The copy of the saved exec, or the or with it, and the change of the mask.
LEMMA RestoringStep ==
  ASSUME TypeInv, FramesInv, Steady, Step, NEW fs, Nested(fs, ifs), Settled(fs), fs # <<>>,
         fs[Len(fs)].kind = "mask", frames = Front(fs), Restoring(fs, fs[Len(fs)])
  PROVE  Steady' /\ GoesOn(fs)
<1> DEFINE n == Len(fs)
           f == fs[n]
<1>1. /\ Build(Head(todo)) /\ todo' = Tail(todo) /\ frames' = Front(fs) /\ ifs' = ifs
      /\ Nested(fs, ifs)' /\ Nested(Front(fs), ifs)'
  BY Runs DEF FramesInv
<1>2. /\ n \in Nat /\ n > 0 /\ n \in 1 .. n /\ f \in Frame /\ f.kind = "mask"
      /\ Outside(Cond(fs, n - 1), f.cmp) /\ Literal(f) \in {Cmp(f.cmp), Wrap(Cmp(f.cmp))}
      /\ Cond(fs, n) = Cond(fs, n - 1) \cup {Literal(f)}
  BY TopBlocks
<1>3. /\ Known("exec") /\ "exec" \in Preds /\ "exec" \in Regs
      /\ f.save \in Regs /\ (\A k \in 1 .. n : fs[k].kind = "mask" => fs[k].save \notin Preds)
  BY <1>2, SavesOf, ExecKnown DEF Known
<1>4. Known(f.save) /\ exec_registers[f.save] = Cond(fs, n - 1)
  BY <1>2, <1>3 DEF Known, Settled, Here, Within, Held, SavesKnown
<1> HIDE DEF n, f
<1>5. CASE (\E ir \in RestoreIRs(f.save) : todo = <<ir, UseMask>>) /\ ExecIs(Cond(fs, Len(fs)))
  <2>1. PICK ir \in RestoreIRs(f.save) : todo = <<ir, UseMask>>
    BY <1>5
  <2>2. Build(ir) /\ todo' = <<UseMask>>
    BY <1>1, <2>1
  <2> DEFINE D == exec_registers[f.save]
             E == exec_registers["exec"]
  <2>3. ExecOr(E, D) = D
    <3>1. PICK A, i : A = Cond(fs, n - 1) /\ i = f.cmp
      OBVIOUS
    <3>0. PICK c \in {Cmp(i), Wrap(Cmp(i))} : c = Literal(f)
      BY <1>2, <3>1
    <3>2. Outside(A, i) /\ D = A /\ E = A \cup {c}
      BY <1>2, <1>4, <1>5, <3>1, <3>0 DEF ExecIs, n
    <3> HIDE DEF D, E
    <3>3. ExecOr(A \cup {c}, A) = A
      BY <3>2, OrRestores
    <3> QED
      BY <3>2, <3>3
  <2>4. \E txt \in Text : Writes("exec", txt, D)
    <3>1. CASE ir = IR("mov", "exec", f.save, f.save)
      BY <1>3, <1>4, <2>2, <3>1, BuildOf, MovWrites
    <3>2. CASE ir = IR("or", "exec", "exec", f.save)
      BY <1>3, <1>4, <2>2, <2>3, <3>2, BuildOf, OrWrites
    <3> QED
      BY <3>1, <3>2 DEF RestoreIRs
  <2>5. PICK txt \in Text : Writes("exec", txt, D)
    BY <2>4
  <2> HIDE DEF D
  <2>6. Settled(fs)' /\ Steady' /\ WritesDone("exec", txt, D)
    BY <1>1, <1>3, <2>5, WritesSettled DEF n
  <2>7. Restoring(fs, f)'
    BY <1>4, <2>2, <2>6 DEF Restoring, ExecIs, WritesDone, n, D
  <2>8. Closing(fs)'
    BY <1>1, <1>2, <2>7 DEF Closing, n, f
  <2> QED
    BY <1>1, <2>6, <2>8 DEF Lags, GoesOn
<1>6. CASE todo = <<UseMask>> /\ ExecIs(Cond(fs, Len(fs) - 1))
  <2>1. ChangeMask("exec") /\ todo' = <<>>
    BY <1>1, <1>6, BuildOf
  <2>2. Settled(Front(fs))' /\ Steady' /\ ExecIs(Cond(Front(fs), Len(Front(fs))))'
    BY <1>1, <1>6, <2>1, MaskCloses
  <2>3. Level(Front(fs))'
    BY <1>1, <2>1, <2>2 DEF Level
  <2> QED
    BY <1>1, <2>1, <2>2, <2>3 DEF Lags, GoesOn
<1> QED
  BY <1>5, <1>6 DEF Restoring, f, n

------------------------------------------------------------------------------
(***************************************************************************)
(* Conditionals that branch.  They leave the masks alone.                  *)
(***************************************************************************)
\* In the next state branches wait for the label of conditional f, the last one from within k.
WaitsNext(fs, k, f) ==
  /\ from_node'[f.label] # <<>> /\ WithinNext(fs, k, Last(from_node'[f.label]))
  /\ f.branch = "then" => to_node'[f.label + 1] = 0

\* From fs to gs: the first q conditionals stay, and at most one that branches is left, and at
\* most one is entered.
LEMMA BranchesMove ==
  ASSUME NEW fs, NEW m, Nested(fs, m), Settled(fs),
         NEW q \in Nat, q = Len(fs) \/ (Len(fs) = q + 1 /\ fs[q + 1].kind = "branch"),
         NEW gs, Len(gs) = q \/ (Len(gs) = q + 1 /\ gs[q + 1].kind = "branch" /\ WaitsNext(fs, q, gs[q + 1])),
         \A k \in 1 .. q : gs[k] = fs[k],
         NEW mk, NEW st, Grown(mk, st), WithinNext(fs, q, last_node'),
         masked_blocks' = masked_blocks, exec_registers' = exec_registers, exec_known' = exec_known,
         \A k \in 1 .. q : fs[k].kind = "branch" =>
           /\ from_node'[fs[k].label] = from_node[fs[k].label]
           /\ fs[k].branch = "then" => to_node'[fs[k].label + 1] = to_node[fs[k].label + 1]
  PROVE  Settled(gs)' /\ Cond(gs, Len(gs)) = Cond(fs, q) /\ Cond(fs, Len(fs)) = Cond(fs, q)
<1> DEFINE n == Len(fs)
           p == Len(gs)
<1>1. /\ (q = n \/ (n = q + 1 /\ fs[q + 1].kind = "branch"))
      /\ (p = q \/ (p = q + 1 /\ gs[q + 1].kind = "branch" /\ WaitsNext(fs, q, gs[q + 1])))
  OBVIOUS
<1> HIDE DEF n, p
<1>2. /\ n \in Nat /\ q \in 0 .. q /\ (\A k \in 1 .. q : k \in 1 .. n /\ k \in 0 .. n /\ k - 1 \in 0 .. q)
      /\ (\A k \in 0 .. q : k \in 0 .. n) /\ (\A k \in 1 .. p : k \in 1 .. q \/ (k = q + 1 /\ k = p))
      /\ (\A k \in 0 .. p : k \in 0 .. q \/ (k = q + 1 /\ k = p)) /\ q + 1 - 1 = q
  BY <1>1
<1>3. ASSUME NEW k \in 0 .. q
      PROVE  /\ Cond(gs, k) = Cond(fs, k) /\ Masks(gs, k) = Masks(fs, k)
             /\ \A x : WithinNext(gs, k, x) <=> WithinNext(fs, k, x)
  <2>1. q \in Nat /\ k \in 0 .. q /\ \A j \in 1 .. q : gs[j] = fs[j]
    BY <1>3
  <2> QED
    BY <2>1, Agree
<1>4. /\ Cond(gs, q) = Cond(fs, q) /\ Masks(gs, q) = Masks(fs, q)
      /\ \A x : WithinNext(gs, q, x) <=> WithinNext(fs, q, x)
  BY <1>2, <1>3
<1>5. Cond(fs, n) = Cond(fs, q) /\ Masks(fs, n) = Masks(fs, q)
  BY <1>1, CondNext, MasksCount
<1>6. Cond(gs, p) = Cond(fs, q) /\ Masks(gs, p) = Masks(fs, q)
  BY <1>1, <1>4, CondNext, MasksCount
<1>7. \A x : WithinNext(fs, q, x) => WithinNext(gs, p, x)
  <2>1. CASE p = q
    BY <1>4, <2>1
  <2>2. CASE p = q + 1 /\ gs[q + 1].kind = "branch"
    <3>1. \A j \in 1 .. p : gs[j].kind = "mask" => j \in 1 .. q
      BY <1>2, <2>2
    <3> QED
      BY <1>4, <1>6, <3>1 DEF WithinNext
  <2> QED
    BY <1>1, <2>1, <2>2
<1>8. \A k \in 0 .. q : \A x : Within(fs, k, x) => WithinNext(gs, k, x)
  <2>1. \A k \in 0 .. q : \A x : Within(fs, k, x) => WithinNext(fs, k, x)
    BY WithinKept
  <2> QED
    BY <1>3, <2>1
<1>9. Here(gs)'
  <2>1. WithinNext(gs, p, last_node')
    BY <1>7
  <2> QED
    BY <2>1 DEF Here, Within, WithinNext, Held, p
<1>10. SavesKnown(gs)'
  <2>1. \A k \in 1 .. q : fs[k].kind = "mask" => fs[k].save \in exec_known /\ exec_registers[fs[k].save] = Cond(fs, k - 1)
    BY <1>2 DEF Settled, SavesKnown, n
  <2>2. \A k \in 1 .. q : Cond(gs, k - 1) = Cond(fs, k - 1)
    BY <1>2, <1>3
  <2>3. \A k \in 1 .. p : gs[k].kind = "mask" => k \in 1 .. q
    BY <1>1, <1>2
  <2> QED
    BY <2>1, <2>2, <2>3 DEF SavesKnown, p
<1>11. BlocksOpen(gs)'
  <2>1. /\ Len(masked_blocks) = Masks(gs, p) + 1
        /\ \A k \in 0 .. q : Within(fs, k, masked_blocks[Masks(fs, k) + 1].change_mask)
    BY <1>2, <1>5, <1>6 DEF Settled, BlocksOpen, n
  <2>2. \A k \in 0 .. q : WithinNext(gs, k, masked_blocks[Masks(gs, k) + 1].change_mask)
    BY <1>3, <1>8, <2>1
  <2>3. WithinNext(gs, p, masked_blocks[Masks(gs, p) + 1].change_mask)
    <3>1. Within(fs, q, masked_blocks[Masks(gs, p) + 1].change_mask)
      BY <1>2, <1>6, <2>1
    <3>2. WithinNext(fs, q, masked_blocks[Masks(gs, p) + 1].change_mask)
      BY <3>1, WithinKept
    <3> QED
      BY <1>7, <3>2
  <2>4. \A k \in 0 .. p : WithinNext(gs, k, masked_blocks[Masks(gs, k) + 1].change_mask)
    BY <1>2, <2>2, <2>3
  <2> QED
    BY <2>1, <2>4 DEF BlocksOpen, Within, WithinNext, Held, p
<1>12. LabelsWait(gs)'
  <2>1. \A k \in 1 .. q : gs[k].kind = "branch" => WaitsNext(gs, k - 1, gs[k])
    <3>1. \A k \in 1 .. q : fs[k].kind = "branch" =>
            /\ Waits(fs, k - 1, fs[k].label)
            /\ fs[k].branch = "then" => to_node[fs[k].label + 1] = 0
      BY <1>2 DEF Settled, LabelsWait, n
    <3> QED
      BY <1>2, <1>8, <3>1 DEF Waits, WaitsNext
  <2>2. p = q + 1 => WaitsNext(gs, q, gs[q + 1])
    BY <1>1, <1>4 DEF WaitsNext
  <2>3. \A k \in 1 .. p : gs[k].kind = "branch" => WaitsNext(gs, k - 1, gs[k])
    BY <1>2, <2>1, <2>2
  <2> QED
    BY <2>3 DEF LabelsWait, Waits, WaitsNext, Within, WithinNext, Held, p
<1> QED
  BY <1>5, <1>6, <1>9, <1>10, <1>11, <1>12 DEF Settled, n, p

\* A branch to a label that has not been met waits for it.
LEMMA BranchWaits ==
  ASSUME TypeInv, Steady, ifs' = ifs, NEW op \in Opcodes, NEW l \in Labels, BranchTo(op, l), to_node[l] = 0
  PROVE  /\ Grown(mask[last_node], state[last_node]) /\ Steady'
         /\ to_node' = to_node /\ masked_blocks' = masked_blocks
         /\ exec_registers' = exec_registers /\ exec_known' = exec_known
         /\ from_node'[l] # <<>> /\ Last(from_node'[l]) = last_node'
         /\ \A x \in Labels \ {l} : from_node'[x] = from_node[x]
<1>1. Grown(mask[last_node], state[last_node])
  BY BranchGrown
<1>2. /\ from_node' = [from_node EXCEPT ![l] = Append(@, last_node + 1)]
      /\ to_node' = to_node /\ masked_blocks' = masked_blocks /\ outcome' = outcome
      /\ exec_registers' = exec_registers /\ exec_known' = exec_known
  BY DEF BranchTo, execs
<1>3. from_node \in [Labels -> Seq(Nodes)] /\ Nodes \subseteq Nat /\ last_node + 1 = last_node' /\ last_node' \in Nat
  BY <1>1, TypeParts DEF TypeInv, RestType, Grown
<1>4. from_node[l] \in Seq(Nat)
  BY <1>3, SeqMonotonic
<1>5. from_node'[l] = Append(from_node[l], last_node') /\ \A x \in Labels \ {l} : from_node'[x] = from_node[x]
  BY <1>2, <1>3
<1>6. from_node'[l] # <<>> /\ Last(from_node'[l]) = last_node'
  <2>1. /\ Len(Append(from_node[l], last_node')) = Len(from_node[l]) + 1 /\ Len(from_node[l]) \in Nat
        /\ Append(from_node[l], last_node')[Len(from_node[l]) + 1] = last_node'
    BY <1>3, <1>4, AppendProperties, LenProperties
  <2>2. Len(from_node'[l]) # 0
    BY <1>5, <2>1
  <2> QED
    BY <1>5, <2>1, <2>2 DEF Last
<1>7. Steady'
  <2>1. \A p \in Preds : Present(state[last_node], p)
    BY PredsHere
  <2> QED
    BY <1>1, <1>2, <2>1, SteadyKept
<1> QED
  BY <1>1, <1>2, <1>5, <1>6, <1>7

\* s_cmp and the branch to the first of the labels.
LEMMA BranchingStep ==
  ASSUME TypeInv, FramesInv, Steady, Step, NEW fs, Nested(fs, ifs), Settled(fs),
         NEW f \in Frame, f.kind = "branch", f.branch = "then", frames = Append(fs, f), Branching(fs, f)
  PROVE  Steady' /\ GoesOn(fs)
<1> DEFINE n == Len(fs)
           gs == Append(fs, f)
<1>1. /\ Build(Head(todo)) /\ todo' = Tail(todo) /\ frames' = gs /\ ifs' = ifs
      /\ Nested(fs, ifs)' /\ Nested(gs, ifs) /\ fs \in Seq(Frame)
  BY Runs DEF FramesInv, Nested
<1>2. /\ n \in Nat /\ Len(gs) = n + 1 /\ gs[n + 1] = f /\ (\A k \in 1 .. n : gs[k] = fs[k])
      /\ f.label \in Labels /\ (\A k \in 1 .. n : fs[k].kind = "branch" => fs[k].label # f.label)
      /\ f.cmp \in Comparisons
  BY <1>1, Opened, FrameType
<1>3. PICK ir \in BranchIRs(f.label) : todo = <<FlagIR(f.cmp), ir>> \/ todo = <<ir>>
  BY DEF Branching
<1>4. ExecIs(Cond(fs, n)) /\ to_node[f.label] = 0 /\ to_node[f.label + 1] = 0
  BY DEF Branching
<1> HIDE DEF n, gs
<1>5. CASE todo = <<FlagIR(f.cmp), ir>>
  <2>1. VCmp("scc", f.cmp) /\ todo' = <<ir>>
    BY <1>1, <1>5, BuildOf
  <2>2. "scc" \in Preds /\ "scc" \in Regs /\ "exec" \in Regs
    BY <1>2, LabelsType, KernelRegs
  <2>3. Writes("scc", Cmp(f.cmp), {Cmp(f.cmp)}) /\ Cmp(f.cmp) \in Text
    BY <1>2, <2>1, <2>2, CmpWrites
  <2>4. Settled(fs)' /\ Steady' /\ WritesDone("scc", Cmp(f.cmp), {Cmp(f.cmp)})
    <3>1. \A k \in 1 .. Len(fs) : fs[k].kind = "mask" => fs[k].save # "scc"
      BY <2>2, SavesOf
    <3> QED
      BY <1>1, <2>2, <2>3, <3>1, WritesSettled
  <2>5. to_node' = to_node
    BY <2>3 DEF Writes, jumps
  <2>6. Branching(fs, f)'
    BY <1>3, <1>4, <2>1, <2>2, <2>4, <2>5 DEF Branching, ExecIs, WritesDone, n
  <2>7. Opening(fs)'
    BY <1>1, <2>6, StillOpening DEF gs
  <2> QED
    BY <1>1, <2>4, <2>7 DEF Lags, GoesOn
<1>6. CASE todo = <<ir>>
  <2>1. Build(ir) /\ todo' = <<>>
    BY <1>1, <1>6
  <2>2. PICK op \in {"s_br", "s_nbr"} : BranchTo(op, f.label)
    BY <2>1, BuildOf
  <2>3. op \in Opcodes
    BY DEF Opcodes
  <2>4. /\ Grown(mask[last_node], state[last_node]) /\ Steady'
        /\ to_node' = to_node /\ masked_blocks' = masked_blocks
        /\ exec_registers' = exec_registers /\ exec_known' = exec_known
        /\ from_node'[f.label] # <<>> /\ Last(from_node'[f.label]) = last_node'
        /\ \A x \in Labels \ {f.label} : from_node'[x] = from_node[x]
    BY <1>1, <1>2, <1>4, <2>2, <2>3, BranchWaits
  <2>5. WithinNext(fs, n, last_node')
    <3>1. Within(fs, n, last_node) /\ n \in 0 .. Len(fs)
      BY <1>2 DEF Settled, Here, n
    <3> QED
      BY <2>4, <3>1, WithinNew
  <2>6. Settled(gs)' /\ Cond(gs, Len(gs)) = Cond(fs, n)
    <3>1. WaitsNext(fs, n, f)
      BY <1>4, <2>4, <2>5 DEF WaitsNext
    <3>2. \A k \in 1 .. n : fs[k].kind = "branch" => fs[k].label \in Labels \ {f.label}
      BY <1>2, SavesOf DEF n
    <3>3. /\ n \in Nat /\ n = Len(fs) /\ Len(gs) = n + 1 /\ gs[n + 1].kind = "branch"
          /\ WaitsNext(fs, n, gs[n + 1]) /\ \A k \in 1 .. n : gs[k] = fs[k]
      BY <1>2, <3>1 DEF n
    <3>4. \A k \in 1 .. n : fs[k].kind = "branch" =>
            /\ from_node'[fs[k].label] = from_node[fs[k].label]
            /\ fs[k].branch = "then" => to_node'[fs[k].label + 1] = to_node[fs[k].label + 1]
      BY <2>4, <3>2
    <3>5. masked_blocks' = masked_blocks /\ exec_registers' = exec_registers /\ exec_known' = exec_known
      BY <2>4
    <3>6. Grown(mask[last_node], state[last_node])
      BY <2>4
    <3> QED
      BY <2>5, <3>3, <3>4, <3>5, <3>6, BranchesMove
  <2>7. Level(gs)'
    <3>1. ExecIs(Cond(gs, Len(gs)))'
      BY <1>4, <2>4, <2>6 DEF ExecIs
    <3> QED
      BY <1>1, <2>1, <3>1 DEF Level
  <2>8. Nested(gs, ifs)'
    BY <1>1
  <2>9. Lags(gs)'
    BY <2>6, <2>7, <2>8 DEF Lags
  <2> QED
    BY <2>1, <2>4, <2>9 DEF GoesOn
<1> QED
  BY <1>3, <1>5, <1>6

\* The labels of conditionals are different from each other, and those that have been given out.
LEMMA LabelsApart ==
  ASSUME NEW fs, NEW m \in 0 .. MaxIfs, Nested(fs, m), NEW k \in 1 .. Len(fs), fs[k].kind = "branch"
  PROVE  /\ fs[k].label \in Labels /\ fs[k].label \in Nat /\ fs[k].label <= 2 * m
         /\ fs[k].branch = "then" => fs[k].label + 1 \in Labels /\ fs[k].label + 1 <= 2 * m
         /\ \A j \in 1 .. k - 1 : fs[j].kind = "branch" =>
              /\ fs[j].label \in Labels /\ fs[j].label < fs[k].label
              /\ fs[j].branch = "then" => fs[j].label + 1 \in Labels /\ fs[j].label + 1 < fs[k].label
<1>1. Len(fs) \in Nat /\ \A j \in 1 .. Len(fs) : fs[j] \in Frame
  BY SavesOf
<1>2. ASSUME NEW j \in 1 .. Len(fs), fs[j].kind = "branch"
      PROVE  /\ fs[j].label \in Labels /\ fs[j].label \in Nat /\ First(fs[j]) \in Int
             /\ fs[j].label \in {First(fs[j]), First(fs[j]) + 1}
             /\ fs[j].branch = "then" => fs[j].label = First(fs[j])
             /\ First(fs[j]) + 1 <= 2 * m /\ 1 <= First(fs[j])
             /\ First(fs[j]) + 1 \in Labels
  <2>1. /\ fs[j].label \in Labels /\ fs[j].label \in Nat /\ First(fs[j]) \in Int
        /\ fs[j].label \in {First(fs[j]), First(fs[j]) + 1}
        /\ fs[j].branch = "then" => fs[j].label = First(fs[j])
    <3>1. fs[j] \in Frame
      BY <1>1
    <3> QED
      BY <1>2, <3>1, FirstLabel, FrameType
  <2>2. First(fs[j]) + 1 <= 2 * m /\ 1 <= First(fs[j])
    BY <1>2 DEF Nested
  <2>3. Labels = 1 .. 2 * MaxIfs /\ MaxIfs \in Nat
    BY <2>1, LabelsType
  <2> QED
    BY <2>1, <2>2, <2>3
<1>3. \A j \in 1 .. k - 1 : j \in 1 .. Len(fs) /\ (fs[j].kind = "branch" => First(fs[j]) + 1 < First(fs[k]))
  BY <1>1 DEF Nested
<1>4. m \in Nat
  BY LabelsType
<1>5. /\ fs[k].label \in Labels /\ fs[k].label \in Nat /\ fs[k].label <= 2 * m /\ First(fs[k]) <= fs[k].label
      /\ fs[k].branch = "then" => fs[k].label + 1 \in Labels /\ fs[k].label + 1 <= 2 * m
      /\ First(fs[k]) \in Int
  BY <1>2, <1>4
<1>6. ASSUME NEW j \in 1 .. k - 1, fs[j].kind = "branch"
      PROVE  /\ fs[j].label \in Labels /\ fs[j].label < fs[k].label
             /\ fs[j].branch = "then" => fs[j].label + 1 \in Labels /\ fs[j].label + 1 < fs[k].label
  <2>1. j \in 1 .. Len(fs) /\ First(fs[j]) + 1 < First(fs[k])
    BY <1>3, <1>6
  <2>2. /\ fs[j].label \in Labels /\ fs[j].label \in Nat /\ First(fs[j]) \in Int
        /\ fs[j].label \in {First(fs[j]), First(fs[j]) + 1}
        /\ fs[j].branch = "then" => fs[j].label = First(fs[j])
        /\ First(fs[j]) + 1 \in Labels
    BY <1>2, <1>6, <2>1
  <2> QED
    BY <1>5, <2>1, <2>2
<1> QED
  BY <1>5, <1>6

\* A label that has branches waiting continues within the conditionals of the last of them.
LEMMA LabelContinues ==
  ASSUME TypeInv, Steady, ifs' = ifs, ifs \in Nat, NEW l \in Labels, l <= 2 * ifs, Label(l),
         NEW fs, NEW m, Nested(fs, m), NEW k \in 0 .. Len(fs), Waits(fs, k, l)
  PROVE  /\ \E mk, st : Grown(mk, st)
         /\ WithinNext(fs, k, last_node') /\ Steady'
         /\ masked_blocks' = masked_blocks /\ exec_registers' = exec_registers /\ exec_known' = exec_known
         /\ from_node' = from_node /\ \A x \in Labels \ {l} : to_node'[x] = to_node[x]
<1> DEFINE from == Last(from_node[l])
<1>1. Grown(mask[from], state[from]) /\ from \in Nodes
  BY LabelGrown DEF Waits
<1>2. /\ to_node' = [to_node EXCEPT ![l] = last_node + 1] /\ from_node' = from_node
      /\ masked_blocks' = masked_blocks /\ outcome' = outcome
      /\ exec_registers' = exec_registers /\ exec_known' = exec_known
  BY DEF Label, execs
<1>3. \A x \in Labels \ {l} : to_node'[x] = to_node[x]
  <2>1. to_node \in [Labels -> Nodes \cup {0}]
    BY TypeParts DEF TypeInv, RestType
  <2> QED
    BY <1>2, <2>1
<1>4. Within(fs, k, from)
  BY DEF Waits
<1> HIDE DEF from
<1>5. WithinNext(fs, k, last_node')
  BY <1>1, <1>4, WithinNew
<1>6. Steady'
  <2>1. \A p \in Preds : Present(state[from], p)
    BY <1>1 DEF Steady
  <2>2. \A x \in Labels : x > 2 * ifs => x # l
    BY LabelsType
  <2> QED
    BY <1>1, <1>2, <1>3, <2>1, <2>2, SteadyKept
<1> QED
  BY <1>1, <1>2, <1>3, <1>5, <1>6

\* A node within a conditional that branches is within those around it.
LEMMA WithinAround ==
  ASSUME NEW fs, NEW n \in Nat, n > 0, fs[n].kind = "branch", NEW x, Within(fs, n, x)
  PROVE  Within(fs, n - 1, x)
<1>1. PICK q \in Nat : q = n - 1 /\ n = q + 1
  OBVIOUS
<1>2. Cond(fs, n) = Cond(fs, q)
  BY <1>1, CondNext
<1>3. \A j \in 1 .. q : j \in 1 .. n
  BY <1>1
<1> QED
  BY <1>1, <1>2, <1>3 DEF Within, Held

\* The jump to the end, and the label of the else.
LEMMA JumpingStep ==
  ASSUME TypeInv, FramesInv, Steady, Step, NEW fs, Nested(fs, ifs), Settled(fs), fs # <<>>,
         fs[Len(fs)].kind = "branch", fs[Len(fs)].branch = "then", frames = WithElse(fs),
         Jumping(fs, fs[Len(fs)])
  PROVE  Steady' /\ GoesOn(fs)
<1> DEFINE n == Len(fs)
           f == fs[n]
           l == f.label
           gs == WithElse(fs)
<1>1. /\ Build(Head(todo)) /\ todo' = Tail(todo) /\ frames' = gs /\ ifs' = ifs
      /\ Nested(fs, ifs)' /\ Nested(gs, ifs)' /\ ifs \in 0 .. MaxIfs
  BY Runs, NestedElse DEF FramesInv
<1>2. n \in Nat /\ n > 0 /\ n \in 1 .. n /\ n \in 0 .. n /\ f \in Frame /\ f.kind = "branch" /\ f.branch = "then"
  BY FrontProperties DEF Nested
<1>3. /\ Len(gs) = n /\ gs[n] = Elsed(f) /\ \A k \in 1 .. n - 1 : gs[k] = fs[k]
  BY <1>1, NestedElse
<1>4. /\ l \in Labels /\ l \in Nat /\ l <= 2 * ifs /\ l + 1 \in Labels
      /\ \A j \in 1 .. n - 1 : fs[j].kind = "branch" =>
           /\ fs[j].label \in Labels \ {l} /\ fs[j].label # l + 1
           /\ fs[j].branch = "then" => fs[j].label + 1 \in Labels \ {l}
  <2>1. /\ l \in Labels /\ l \in Nat /\ l <= 2 * ifs /\ l + 1 \in Labels
        /\ \A j \in 1 .. n - 1 : fs[j].kind = "branch" =>
             /\ fs[j].label \in Labels /\ fs[j].label < l
             /\ fs[j].branch = "then" => fs[j].label + 1 \in Labels /\ fs[j].label + 1 < l
    <3>1. n \in 1 .. Len(fs) /\ fs[n].kind = "branch" /\ fs[n].branch = "then"
      BY <1>2
    <3> QED
      BY <1>1, <3>1, LabelsApart
  <2>2. Labels \subseteq Nat
    BY LabelsType
  <2> HIDE DEF n, l
  <2> QED
    BY <2>1, <2>2
<1>5. /\ Elsed(f).kind = "branch" /\ Elsed(f).branch = "else" /\ Elsed(f).label = l + 1
  BY <1>2, <1>4, ElsedType
<1>6. ExecIs(Cond(fs, n))
  BY DEF Jumping
<1>7. /\ Within(fs, n, last_node) /\ Waits(fs, n - 1, l) /\ to_node[l + 1] = 0
  BY <1>2 DEF Settled, Here, LabelsWait
<1> HIDE DEF n, f, l, gs
<1>8. CASE todo = <<JumpIR(l + 1), LabelIR(l)>>
  <2>1. BranchTo("s_branch", l + 1) /\ todo' = <<LabelIR(l)>>
    BY <1>1, <1>8, BuildOf
  <2>2. "s_branch" \in Opcodes
    BY DEF Opcodes
  <2>3. /\ Grown(mask[last_node], state[last_node]) /\ Steady'
        /\ to_node' = to_node /\ masked_blocks' = masked_blocks
        /\ exec_registers' = exec_registers /\ exec_known' = exec_known
        /\ from_node'[l + 1] # <<>> /\ Last(from_node'[l + 1]) = last_node'
        /\ \A x \in Labels \ {l + 1} : from_node'[x] = from_node[x]
    BY <1>1, <1>4, <1>7, <2>1, <2>2, BranchWaits
  <2>4. WithinNext(fs, n, last_node') /\ WithinNext(fs, n - 1, last_node')
    <3>1. Within(fs, n - 1, last_node) /\ n \in 0 .. Len(fs) /\ n - 1 \in 0 .. Len(fs)
      BY <1>2, <1>7, WithinAround DEF f, n
    <3>2. Grown(mask[last_node], state[last_node]) /\ Nested(fs, ifs)
      BY <2>3
    <3> QED
      BY <1>7, <3>1, <3>2, WithinNew
  <2>5. Settled(fs)'
    <3>1. \A k \in 1 .. n : fs[k].kind = "branch" => fs[k].label \in Labels \ {l + 1}
      <4>1. \A k \in 1 .. n : k \in 1 .. n - 1 \/ k = n
        BY <1>2
      <4>2. fs[n].label = l /\ l # l + 1
        BY <1>4 DEF l, f
      <4> QED
        BY <1>4, <4>1, <4>2
    <3>2. \A k \in 1 .. Len(fs) : fs[k].kind = "branch" =>
            /\ from_node'[fs[k].label] = from_node[fs[k].label]
            /\ to_node'[fs[k].label + 1] = to_node[fs[k].label + 1]
      BY <2>3, <3>1 DEF n
    <3>3. \A k \in 1 .. Len(fs) : fs[k].kind = "mask" =>
            fs[k].save \in exec_known' /\ exec_registers'[fs[k].save] = exec_registers[fs[k].save]
      BY <2>3 DEF Settled, SavesKnown
    <3>4. WithinNext(fs, Len(fs), last_node')
      BY <2>4 DEF n
    <3> QED
      BY <2>3, <3>2, <3>3, <3>4, SettledKept
  <2>6. Jumping(fs, f)'
    <3>1. Waits(fs, n - 1, l + 1)'
      BY <2>3, <2>4 DEF Waits, Within, WithinNext, Held
    <3>2. ExecIs(Cond(fs, n))'
      BY <1>6, <2>3 DEF ExecIs
    <3> QED
      BY <2>1, <3>1, <3>2 DEF Jumping, n, l
  <2>7. Switching(fs)'
    BY <1>1, <1>2, <2>6 DEF Switching, gs, f, n
  <2> QED
    BY <1>1, <2>3, <2>5, <2>7 DEF Lags, GoesOn
<1>9. CASE todo = <<LabelIR(l)>> /\ Waits(fs, n - 1, l + 1)
  <2>1. Label(l) /\ todo' = <<>>
    BY <1>1, <1>9, BuildOf
  <2>0. n = Len(fs)
    BY DEF n
  <2>2. PICK q \in Nat : q = n - 1 /\ n = q + 1 /\ q \in 0 .. Len(fs)
    BY <1>2, <2>0
  <2>3. /\ \E mk, st : Grown(mk, st)
        /\ WithinNext(fs, q, last_node') /\ Steady'
        /\ masked_blocks' = masked_blocks /\ exec_registers' = exec_registers /\ exec_known' = exec_known
        /\ from_node' = from_node /\ \A x \in Labels \ {l} : to_node'[x] = to_node[x]
    <3>1. Waits(fs, q, l) /\ ifs \in Nat /\ Nested(fs, ifs)
      BY <1>1, <1>7, <2>2, LabelsType
    <3> QED
      BY <1>1, <1>4, <2>1, <2>2, <3>1, LabelContinues
  <2>4. PICK mk, st : Grown(mk, st)
    BY <2>3
  <2>5. WaitsNext(fs, q, gs[q + 1])
    <3>1. from_node[l + 1] # <<>> /\ Within(fs, q, Last(from_node[l + 1]))
      BY <1>9, <2>2 DEF Waits
    <3>2. WithinNext(fs, q, Last(from_node[l + 1]))
      BY <2>4, <3>1, WithinKept
    <3> QED
      BY <1>3, <1>5, <2>2, <2>3, <3>1, <3>2 DEF WaitsNext
  <2>6. Settled(gs)' /\ Cond(gs, Len(gs)) = Cond(fs, q) /\ Cond(fs, Len(fs)) = Cond(fs, q)
    <3>1. Len(fs) = q + 1 /\ fs[q + 1].kind = "branch" /\ Len(gs) = q + 1 /\ gs[q + 1].kind = "branch"
      BY <1>2, <1>3, <1>5, <2>2 DEF n, f
    <3>2. \A k \in 1 .. q : gs[k] = fs[k]
      BY <1>3, <2>2
    <3>3. \A k \in 1 .. q : fs[k].kind = "branch" =>
            /\ from_node'[fs[k].label] = from_node[fs[k].label]
            /\ fs[k].branch = "then" => to_node'[fs[k].label + 1] = to_node[fs[k].label + 1]
      BY <1>4, <2>2, <2>3
    <3> QED
      BY <2>3, <2>4, <2>5, <3>1, <3>2, <3>3, BranchesMove
  <2>7. Level(gs)'
    BY <1>1, <1>6, <2>1, <2>3, <2>6 DEF Level, ExecIs, n
  <2> QED
    BY <1>1, <2>1, <2>3, <2>6, <2>7 DEF Lags, GoesOn
<1> QED
  BY <1>8, <1>9 DEF Jumping, l, f, n

\* The label of the end.
LEMMA LabellingStep ==
  ASSUME TypeInv, FramesInv, Steady, Step, NEW fs, Nested(fs, ifs), Settled(fs), fs # <<>>,
         fs[Len(fs)].kind = "branch", frames = Front(fs), Labelling(fs, fs[Len(fs)])
  PROVE  Steady' /\ GoesOn(fs)
<1> DEFINE n == Len(fs)
           l == fs[n].label
           gs == Front(fs)
<1>1. /\ Build(Head(todo)) /\ todo' = Tail(todo) /\ frames' = gs /\ ifs' = ifs
      /\ Nested(gs, ifs)' /\ ifs \in 0 .. MaxIfs
  BY Runs DEF FramesInv
<1>2. PICK q : Leaves(fs, gs, n, q)
  BY InnermostLeft
<1>3. /\ q \in Nat /\ n = q + 1 /\ Len(gs) = q /\ fs[n].kind = "branch" /\ q \in 0 .. Len(fs) /\ n \in 1 .. Len(fs)
      /\ \A k \in 1 .. q : gs[k] = fs[k]
  BY <1>2 DEF Leaves
<1>4. /\ l \in Labels /\ l \in Nat /\ l <= 2 * ifs
      /\ \A j \in 1 .. n - 1 : (fs[j].kind = "branch" /\ fs[j].branch = "then") =>
           fs[j].label + 1 \in Labels /\ fs[j].label + 1 < l
  BY <1>1, <1>3, LabelsApart
<1>5. /\ ExecIs(Cond(fs, n)) /\ todo = <<LabelIR(l)>> /\ Waits(fs, n - 1, l)
  BY <1>3 DEF Labelling, Settled, LabelsWait
<1> HIDE DEF n, l, gs
<1>6. Label(l) /\ todo' = <<>>
  BY <1>1, <1>5, BuildOf
<1>7. /\ \E mk, st : Grown(mk, st)
      /\ WithinNext(fs, q, last_node') /\ Steady'
      /\ masked_blocks' = masked_blocks /\ exec_registers' = exec_registers /\ exec_known' = exec_known
      /\ from_node' = from_node /\ \A x \in Labels \ {l} : to_node'[x] = to_node[x]
  <2>1. Waits(fs, q, l) /\ ifs \in Nat /\ Nested(fs, ifs)
    <3>1. n - 1 = q
      BY <1>3
    <3> QED
      BY <1>1, <1>5, <3>1, LabelsType
  <2> QED
    BY <1>1, <1>3, <1>4, <1>6, <2>1, LabelContinues
<1>8. PICK mk, st : Grown(mk, st)
  BY <1>7
<1>9. Settled(gs)' /\ Cond(gs, Len(gs)) = Cond(fs, q) /\ Cond(fs, Len(fs)) = Cond(fs, q)
  <2>1. \A k \in 1 .. q : k \in 1 .. n - 1
    BY <1>3
  <2>2. \A k \in 1 .. q : fs[k].kind = "branch" =>
          /\ from_node'[fs[k].label] = from_node[fs[k].label]
          /\ fs[k].branch = "then" => to_node'[fs[k].label + 1] = to_node[fs[k].label + 1]
    <3>1. \A x \in Labels : x < l => x \in Labels \ {l}
      BY <1>4
    <3>2. \A k \in 1 .. q : (fs[k].kind = "branch" /\ fs[k].branch = "then") => fs[k].label + 1 \in Labels \ {l}
      BY <1>4, <2>1, <3>1
    <3> QED
      BY <1>7, <3>2
  <2>3. /\ q \in Nat /\ Len(fs) = q + 1 /\ fs[q + 1].kind = "branch"
        /\ Len(gs) = q /\ \A k \in 1 .. q : gs[k] = fs[k]
    BY <1>3 DEF n
  <2>4. /\ WithinNext(fs, q, last_node') /\ masked_blocks' = masked_blocks
        /\ exec_registers' = exec_registers /\ exec_known' = exec_known
    BY <1>7
  <2> QED
    BY <1>8, <2>2, <2>3, <2>4, BranchesMove
<1>10. Level(gs)'
  <2>1. ExecIs(Cond(gs, Len(gs)))'
    BY <1>5, <1>7, <1>9 DEF ExecIs, n
  <2> QED
    BY <1>1, <1>6, <2>1 DEF Level
<1> QED
  BY <1>1, <1>6, <1>7, <1>9, <1>10 DEF Lags, GoesOn

------------------------------------------------------------------------------
(***************************************************************************)
(* Computations, stores and the end of the program.                        *)
(***************************************************************************)
\* A node that changes neither masks nor labels.
LEMMA PlainNode ==
  ASSUME TypeInv, Steady, ifs' = ifs, NEW fs, NEW m, Nested(fs, m), Settled(fs),
         Grown(mask[last_node], state[last_node]), UNCHANGED <<execs, jumps, masked_blocks, outcome>>
  PROVE  Settled(fs)' /\ Steady' /\ exec_registers' = exec_registers
<1>1. /\ exec_registers' = exec_registers /\ exec_known' = exec_known /\ to_node' = to_node
      /\ from_node' = from_node /\ masked_blocks' = masked_blocks /\ outcome' = outcome
  BY DEF execs, jumps
<1>2. Steady'
  <2>1. \A p \in Preds : Present(state[last_node], p)
    BY PredsHere
  <2> QED
    BY <1>1, <2>1, SteadyKept
<1>3. WithinNext(fs, Len(fs), last_node')
  <2>1. Within(fs, Len(fs), last_node) /\ Len(fs) \in 0 .. Len(fs)
    BY SavesOf DEF Settled, Here
  <2> QED
    BY <2>1, WithinNew
<1>4. Settled(fs)'
  <2>1. \A k \in 1 .. Len(fs) : fs[k].kind = "mask" =>
          fs[k].save \in exec_known' /\ exec_registers'[fs[k].save] = exec_registers[fs[k].save]
    BY <1>1 DEF Settled, SavesKnown
  <2> QED
    BY <1>1, <1>3, <2>1, SettledKept
<1> QED
  BY <1>1, <1>2, <1>4

LEMMA BodyStep ==
  ASSUME TypeInv, FramesInv, Steady, Step, NEW fs, Nested(fs, ifs), Settled(fs), Level(fs)
  PROVE  Steady' /\ ((Ended /\ todo = <<>>)' \/ GoesOn(fs))
<1>1. /\ Build(Head(todo)) /\ todo' = Tail(todo) /\ frames' = fs /\ ifs' = ifs /\ Nested(fs, ifs)' /\ todo # <<>>
  BY Runs DEF Level, Step
<1>2. PICK ir \in BodyIRs : todo = <<ir>>
  BY <1>1 DEF Level
<1>3. Build(ir) /\ todo' = <<>> /\ ExecIs(Cond(fs, Len(fs)))
  BY <1>1, <1>2 DEF Level
<1>4. TypeOK /\ RestType /\ state[last_node] \in [Regs -> RegState] /\ mask[last_node] \in Condition
  BY TypeParts, LastTypes DEF TypeInv
<1>5. ASSUME Grown(mask[last_node], state[last_node]), UNCHANGED <<execs, jumps, masked_blocks, outcome>>
      PROVE  Steady' /\ GoesOn(fs)
  <2>1. Settled(fs)' /\ Steady' /\ exec_registers' = exec_registers
    BY <1>1, <1>5, PlainNode
  <2>2. Level(fs)'
    BY <1>1, <1>3, <2>1 DEF Level, ExecIs
  <2> QED
    BY <1>1, <1>3, <2>1, <2>2 DEF Lags, GoesOn
<1>6. ASSUME NEW v \in Data, ir = IR("arith", v, v, v)
      PROVE  Steady' /\ GoesOn(fs)
  <2>1. Arith(v) /\ v \in ScalarSet /\ v \in Regs
    BY <1>3, <1>6, KernelRegs DEF Build, IR
  <2>2. Define("arith", v, Value(last_node + 1)) /\ UNCHANGED <<execs, jumps, masked_blocks, outcome>>
    BY <2>1 DEF Arith
  <2>3. "arith" \in Opcodes /\ Value(last_node + 1) \in Text
    BY <1>4, LenProperties DEF Opcodes, Value, Text, Kinds, TypeOK, last_node
  <2>4. Grown(mask[last_node], state[last_node])
    BY <2>1, <2>2, <2>3, DefineGrown
  <2> QED
    BY <1>5, <2>2, <2>4
<1>7. ASSUME ir = IR("store", "exec", "exec", "exec")
      PROVE  Steady' /\ GoesOn(fs)
  <2>1. Plain
    BY <1>3, <1>7 DEF Build, IR
  <2>2. /\ EmitNode("plain", parents, state[last_node], versions, mask[last_node])
        /\ UNCHANGED <<execs, jumps, masked_blocks, outcome>>
    BY <2>1 DEF Plain
  <2>3. Grown(mask[last_node], state[last_node])
    <3>1. "plain" \in Opcodes /\ parents \in Seq(Nodes)
      BY <1>4, ShortParents DEF Opcodes
    <3> QED
      BY <1>4, <2>2, <3>1, EmitGrown
  <2> QED
    BY <1>5, <2>2, <2>3
<1>8. ASSUME ir = IR("endpgm", "exec", "exec", "exec")
      PROVE  Steady' /\ (Ended /\ todo = <<>>)'
  <2>1. EndPgm
    BY <1>3, <1>8 DEF Build, IR
  <2>2. /\ EmitNode("s_endpgm", ParentsOfClosed(parents, {}), state[last_node], versions, {})
        /\ exec_known' = exec_known /\ to_node' = to_node /\ outcome' = outcome
    BY <2>1 DEF EndPgm, CloseAll, execs, jumps
  <2>3. Grown({}, state[last_node]) /\ instruction'[last_node'] = "s_endpgm"
    <3>1. "s_endpgm" \in Opcodes /\ ParentsOfClosed(parents, {}) \in Seq(Nodes) /\ {} \in Condition
      BY <1>4, ShortParents, ParentsOfClosedType DEF Opcodes, Condition
    <3> QED
      BY <1>4, <2>2, <3>1, EmitGrown
  <2>4. Steady'
    <3>1. \A p \in Preds : Present(state[last_node], p)
      BY PredsHere
    <3> QED
      BY <1>1, <2>2, <2>3, <3>1, SteadyKept
  <2> QED
    BY <1>3, <2>3, <2>4 DEF Ended
<1> QED
  BY <1>2, <1>6, <1>7, <1>8 DEF BodyIRs

------------------------------------------------------------------------------
(***************************************************************************)
(* The machine instructions.                                               *)
(***************************************************************************)
\* Once all instructions are in the graph, the decompiler knows what the machine is at.
LEMMA ReadyLevel ==
  ASSUME MasksInv, Ready
  PROVE  Nested(frames, ifs) /\ Settled(frames) /\ Level(frames)
<1>1. todo = <<>> /\ ~Ended
  BY DEF Ready
<1>2. PICK fs : Lags(fs)
  BY <1>1 DEF MasksInv
<1>3. ~Opening(fs) /\ ~Switching(fs) /\ ~Closing(fs)
  BY <1>1 DEF Opening, Masking, Branching, Switching, Turning, Jumping, Closing, Restoring, Labelling
<1>4. Level(fs) /\ fs = frames
  BY <1>2, <1>3 DEF Lags, Level
<1> QED
  BY <1>2, <1>4 DEF Lags

LEMMA SettledStays ==
  ASSUME UNCHANGED vars, NEW fs
  PROVE  /\ Settled(fs) => Settled(fs)' /\ \A C : ExecIs(C) => ExecIs(C)'
         /\ to_node' = to_node /\ running' = running /\ Ended' = Ended /\ last_node' = last_node
<1>1. /\ instruction' = instruction /\ mask' = mask /\ state' = state /\ outcome' = outcome
      /\ exec_registers' = exec_registers /\ exec_known' = exec_known /\ to_node' = to_node
      /\ from_node' = from_node /\ masked_blocks' = masked_blocks /\ Nodes' = Nodes /\ last_node' = last_node
  BY DEF vars, graph, execs, jumps, Nodes, last_node
<1>2. Settled(fs) => Settled(fs)'
  BY <1>1 DEF Settled, Here, SavesKnown, BlocksOpen, LabelsWait, Waits, Within, Held
<1> QED
  BY <1>1, <1>2 DEF ExecIs, running, Ended

\* More conditionals do not make those that are open less nested.
LEMMA NestedMore ==
  ASSUME NEW fs, NEW m \in Nat, Nested(fs, m), NEW k \in Nat, m <= k
  PROVE  Nested(fs, k)
<1>1. \A j \in 1 .. Len(fs) : fs[j].kind = "branch" => First(fs[j]) \in Int
  BY SavesOf, FrameType
<1> QED
  BY <1>1 DEF Nested

\* Every machine instruction starts one of the phases.
LEMMA IssuesLag ==
  ASSUME MasksInv, Ready, Issues, UNCHANGED vars, [KernelNext]_kvars
  PROVE  Steady' /\ \E fs : fs = frames /\ Lags(fs)'
<1>1. /\ TypeInv /\ FramesInv /\ Steady /\ ifs \in 0 .. MaxIfs /\ MaxIfs \in Nat
      /\ FramesInv' /\ ifs' \in 0 .. MaxIfs
  BY FramesKept, LabelsType DEF MasksInv, FramesInv
<1>2. PICK fs : fs = frames
  OBVIOUS
<1>3. Nested(fs, ifs) /\ Settled(fs) /\ ExecIs(Cond(fs, Len(fs)))
  BY <1>2, ReadyLevel DEF Level
<1>4. /\ Settled(fs)' /\ (\A C : ExecIs(C) => ExecIs(C)') /\ to_node' = to_node
      /\ ExecIs(Cond(fs, Len(fs)))'
  BY <1>3, SettledStays
<1>5. fs \in Seq(Frame) /\ Len(fs) \in Nat
  BY <1>3, SavesOf
<1>6. ifs' = ifs \/ ifs' = ifs + 1
  BY DEF Issues, If, UniformIf, Open, Else, EndIf, UniformElse, UniformEndIf
<1>7. Nested(fs, ifs)' /\ Steady'
  <2>1. Nested(fs, ifs')
    BY <1>1, <1>3, <1>6, NestedMore
  <2>2. \A l \in Labels : l > 2 * ifs' => l > 2 * ifs
    <3>1. Labels \subseteq Nat
      BY LabelsType
    <3>2. ifs \in Nat /\ ifs' \in Nat /\ ifs <= ifs'
      BY <1>1, <1>6
    <3>3. \A i, j, l \in Nat : (i <= j /\ l > 2 * j) => l > 2 * i
      OBVIOUS
    <3> QED
      BY <3>1, <3>2, <3>3
  <2>3. Steady'
    <3>1. /\ exec_known' = exec_known /\ state' = state /\ Nodes' = Nodes /\ running' = running
      BY DEF vars, graph, execs, Nodes, running
    <3> QED
      BY <1>1, <1>4, <2>2, <3>1 DEF Steady, Present
  <2> QED
    BY <2>1, <2>3
<1>8. ASSUME Opening(fs)' \/ Switching(fs)' \/ Closing(fs)' \/ Level(fs)'
      PROVE  \E gs : gs = frames /\ Lags(gs)'
  BY <1>2, <1>4, <1>7, <1>8 DEF Lags
<1>9. CASE \E i \in Comparisons : /\ If(i)
                                  /\ todo' = <<CmpIR(i), SaveIR(MaskFrame(i).save), NarrowIR, UseMask>>
  <2>1. PICK i \in Comparisons : If(i) /\ todo' = <<CmpIR(i), SaveIR(MaskFrame(i).save), NarrowIR, UseMask>>
    BY <1>9
  <2>2. PICK f : f = MaskFrame(i)
    OBVIOUS
  <2>3. f \in Frame /\ frames' = Append(fs, f) /\ f.branch = "then" /\ f.kind = "mask" /\ f.cmp = i
    BY <1>1, <1>2, <2>1, <2>2, IfOpens DEF Opens, MaskFrame
  <2>4. Masking(fs, f)'
    BY <1>4, <2>1, <2>2, <2>3 DEF Masking
  <2> QED
    BY <1>5, <1>7, <1>8, <2>3, <2>4, StillOpening
<1>10. CASE \E i \in Comparisons, ir \in BranchIRs(2 * ifs + 1) : UniformIf(i) /\ todo' = <<FlagIR(i), ir>>
  <2>1. PICK i \in Comparisons, ir \in BranchIRs(2 * ifs + 1) : UniformIf(i) /\ todo' = <<FlagIR(i), ir>>
    BY <1>10
  <2>2. PICK f : f = BranchFrame(i)
    OBVIOUS
  <2>3. /\ f \in Frame /\ frames' = Append(fs, f) /\ f.branch = "then" /\ f.kind = "branch" /\ f.cmp = i
        /\ f.label = 2 * ifs + 1 /\ f.label \in Labels
    BY <1>1, <1>2, <2>1, <2>2, UniformIfOpens DEF Opens, BranchFrame
  <2>4. to_node[f.label] = 0 /\ to_node[f.label + 1] = 0
    <3>1. f.label + 1 \in Labels /\ f.label > 2 * ifs /\ f.label + 1 > 2 * ifs
      <4>1. ifs < MaxIfs
        BY <2>1 DEF UniformIf, Open
      <4>2. Labels = 1 .. 2 * MaxIfs
        BY <2>3, LabelsType
      <4> QED
        BY <1>1, <2>3, <4>1, <4>2
    <3> QED
      BY <1>1, <2>3, <3>1 DEF Steady
  <2>5. Branching(fs, f)'
    BY <1>4, <2>1, <2>3, <2>4 DEF Branching
  <2> QED
    BY <1>5, <1>7, <1>8, <2>3, <2>5, StillOpening
<1>11. CASE Else /\ todo' = <<ElseIR(Top.save), UseMask>>
  <2>1. /\ fs # <<>> /\ fs[Len(fs)].branch = "then" /\ frames' = WithElse(fs) /\ fs[Len(fs)].kind = "mask"
    BY <1>1, <1>2, <1>11, ElseTurns DEF Turns, Else, InBranchOf, Top
  <2>2. todo' = <<ElseIR(fs[Len(fs)].save), UseMask>>
    BY <1>2, <1>11 DEF Top
  <2>3. Switching(fs)'
    BY <1>4, <2>1, <2>2 DEF Switching, Turning
  <2> QED
    BY <1>7, <1>8, <2>3
<1>12. CASE \E ir \in RestoreIRs(Top.save) : EndIf /\ todo' = <<ir, UseMask>>
  <2>1. fs # <<>> /\ frames' = Front(fs) /\ fs[Len(fs)].kind = "mask"
    BY <1>1, <1>2, <1>12, EndIfCloses DEF Closes, EndIf, InBranchOf, Top
  <2>2. \E ir \in RestoreIRs(fs[Len(fs)].save) : todo' = <<ir, UseMask>>
    BY <1>2, <1>12 DEF Top
  <2>3. Closing(fs)'
    BY <1>4, <2>1, <2>2 DEF Closing, Restoring
  <2> QED
    BY <1>7, <1>8, <2>3
<1>13. CASE UniformElse /\ todo' = <<JumpIR(Top.label + 1), LabelIR(Top.label)>>
  <2>1. /\ fs # <<>> /\ fs[Len(fs)].branch = "then" /\ frames' = WithElse(fs) /\ fs[Len(fs)].kind = "branch"
    BY <1>1, <1>2, <1>13, ElseTurns DEF Turns, UniformElse, InBranchOf, Top
  <2>2. todo' = <<JumpIR(fs[Len(fs)].label + 1), LabelIR(fs[Len(fs)].label)>>
    BY <1>2, <1>13 DEF Top
  <2>3. Switching(fs)'
    BY <1>4, <2>1, <2>2 DEF Switching, Jumping
  <2> QED
    BY <1>7, <1>8, <2>3
<1>14. CASE UniformEndIf /\ todo' = <<LabelIR(Top.label)>>
  <2>1. fs # <<>> /\ frames' = Front(fs) /\ fs[Len(fs)].kind = "branch"
    BY <1>1, <1>2, <1>14, EndIfCloses DEF Closes, UniformEndIf, InBranchOf, Top
  <2>2. todo' = <<LabelIR(fs[Len(fs)].label)>>
    BY <1>2, <1>14 DEF Top
  <2>3. Closing(fs)'
    BY <1>4, <2>1, <2>2 DEF Closing, Labelling
  <2> QED
    BY <1>7, <1>8, <2>3
<1>15. CASE \E ir \in BodyIRs : todo' = <<ir>> /\ UNCHANGED <<frames, ifs, hw, waves>>
  <2>1. frames' = fs
    BY <1>2, <1>15
  <2>2. Level(fs)'
    BY <1>4, <1>15, <2>1 DEF Level
  <2> QED
    BY <1>7, <1>8, <2>2
<1> QED
  BY <1>2, <1>7, <1>9, <1>10, <1>11, <1>12, <1>13, <1>14, <1>15 DEF Issues

------------------------------------------------------------------------------
(***************************************************************************)
(* The invariant.                                                          *)
(***************************************************************************)
LEMMA StutterLags ==
  ASSUME UNCHANGED kvars, NEW fs, Lags(fs)
  PROVE  Lags(fs)'
<1>1. UNCHANGED vars /\ todo' = todo /\ frames' = frames /\ ifs' = ifs
  BY DEF kvars, hardware
<1>2. /\ instruction' = instruction /\ state' = state /\ exec_registers' = exec_registers
      /\ exec_known' = exec_known /\ to_node' = to_node /\ from_node' = from_node /\ mask' = mask
      /\ last_node' = last_node /\ Nodes' = Nodes /\ Top' = Top
  BY <1>1 DEF vars, graph, execs, jumps, last_node, Nodes, Top
<1>3. Settled(fs)' /\ Nested(fs, ifs)'
  BY <1>1, SettledStays DEF Lags
<1>4. \A f : Masking(fs, f) => Masking(fs, f)'
  BY <1>1, <1>2 DEF Masking, ExecIs, SaveDone, Present
<1>5. \A f : /\ Turning(fs, f) => Turning(fs, f)'
             /\ Restoring(fs, f) => Restoring(fs, f)'
             /\ Branching(fs, f) => Branching(fs, f)'
             /\ Labelling(fs, f) => Labelling(fs, f)'
  BY <1>1, <1>2 DEF Turning, Restoring, Branching, Labelling, ExecIs
<1>6. \A f : Jumping(fs, f) => Jumping(fs, f)'
  BY <1>1, <1>2 DEF Jumping, ExecIs, Waits, Within, Held, Present
<1>7. Opening(fs) => Opening(fs)'
  BY <1>1, <1>2, <1>4, <1>5 DEF Opening
<1>8. Switching(fs) => Switching(fs)'
  BY <1>1, <1>5, <1>6 DEF Switching
<1>9. Closing(fs) => Closing(fs)'
  BY <1>1, <1>5 DEF Closing
<1>10. Level(fs) => Level(fs)'
  BY <1>1, <1>2 DEF Level, ExecIs
<1> QED
  BY <1>3, <1>7, <1>8, <1>9, <1>10 DEF Lags

\* Every IR instruction continues the phase or ends it.
LEMMA StepLags ==
  ASSUME MasksInv, Step, NEW fs, Lags(fs)
  PROVE  Steady' /\ ((Ended /\ todo = <<>>)' \/ GoesOn(fs))
<1>1. TypeInv /\ FramesInv /\ Steady
  BY DEF MasksInv
<1>3. Nested(fs, ifs) /\ Settled(fs)
  BY DEF Lags
<1>4. CASE Opening(fs)
  <2>1. PICK f : f = Top
    OBVIOUS
  <2>2. frames = Append(fs, f) /\ f.branch = "then" /\ f \in Frame
    BY <1>1, <1>4, <2>1, FrontProperties DEF Opening, FramesInv, Nested, Top
  <2>3. \/ f.kind = "mask" /\ Masking(fs, f)
        \/ f.kind = "branch" /\ Branching(fs, f)
    BY <1>4, <2>1 DEF Opening
  <2> QED
    BY <1>1, <1>3, <2>2, <2>3, MaskingStep, BranchingStep
<1>5. CASE Switching(fs)
  BY <1>1, <1>3, <1>5, TurningStep, JumpingStep DEF Switching
<1>6. CASE Closing(fs)
  BY <1>1, <1>3, <1>6, RestoringStep, LabellingStep DEF Closing
<1>7. CASE Level(fs)
  BY <1>1, <1>3, <1>7, BodyStep
<1> QED
  BY <1>4, <1>5, <1>6, <1>7 DEF Lags

LEMMA MasksKept == MasksInv /\ TypeInv' /\ [KernelNext]_kvars => MasksInv'
<1> SUFFICES ASSUME MasksInv, TypeInv', [KernelNext]_kvars PROVE MasksInv'
  OBVIOUS
<1>1. FramesInv' /\ HwInv'
  BY FramesKept, HwKept DEF MasksInv
<1>2. CASE Step
  <2>1. PICK fs : Lags(fs)
    BY <1>2 DEF MasksInv, Step
  <2>2. Steady' /\ ((Ended /\ todo = <<>>)' \/ GoesOn(fs))
    BY <1>2, <2>1, StepLags
  <2> QED
    BY <1>1, <2>2 DEF MasksInv, GoesOn
<1>3. CASE UNCHANGED kvars
  <2>1. UNCHANGED vars /\ todo' = todo /\ ifs' = ifs
    BY <1>3 DEF kvars, hardware
  <2>2. Steady'
    <3>1. /\ exec_known' = exec_known /\ state' = state /\ Nodes' = Nodes /\ running' = running /\ to_node' = to_node
      BY <2>1 DEF vars, graph, execs, jumps, Nodes, running
    <3> QED
      BY <2>1, <3>1 DEF MasksInv, Steady, Present
  <2>3. Ended' = Ended
    BY <2>1 DEF Ended, last_node, vars, graph
  <2>4. (\E fs : Lags(fs)) => \E fs : Lags(fs)'
    BY <1>3, StutterLags
  <2> QED
    BY <1>1, <2>1, <2>2, <2>3, <2>4 DEF MasksInv
<1>4. CASE Ready /\ Issues /\ UNCHANGED vars
  BY <1>1, <1>4, IssuesLag DEF MasksInv
<1> QED
  BY <1>2, <1>3, <1>4, StepsIssue

LEMMA MasksInit == KernelInit /\ TypeInv => MasksInv
<1> SUFFICES ASSUME KernelInit, TypeInv PROVE MasksInv
  OBVIOUS
<1>1. FramesInv /\ HwInv /\ Init /\ todo = <<>> /\ frames = <<>> /\ ifs = 0
  BY HwInit DEF KernelInit
<1>2. /\ last_node = 1 /\ Nodes = {1} /\ state[1] = InitialState /\ mask[1] = {}
      /\ exec_known = Preds /\ exec_registers = [r \in Regs |-> {}]
      /\ masked_blocks = <<OpenMask(1, no_parent)>> /\ to_node = [l \in Labels |-> 0] /\ running
  BY <1>1 DEF Init, last_node, Nodes, running
<1>3. \A p \in Preds : p \in Regs /\ Present(state[1], p)
  BY <1>2, KernelRegs DEF InitialState, Present
<1>4. Steady
  BY <1>2, <1>3 DEF Steady
<1>5. PICK fs : fs = <<>>
  OBVIOUS
<1>6. /\ Len(fs) = 0 /\ Cond(fs, 0) = {} /\ Masks(fs, 0) = 0 /\ 1 .. 0 = {} /\ \A k \in 0 .. 0 : k = 0
  BY <1>5, MasksCount DEF Cond
<1>7. Nested(fs, ifs)
  BY <1>1, <1>5 DEF FramesInv
<1>8. Within(fs, 0, 1)
  BY <1>2, <1>6 DEF Within, Held
<1>9. Settled(fs)
  <2>1. Len(masked_blocks) = 1 /\ masked_blocks[1].change_mask = 1
    BY <1>2 DEF OpenMask
  <2>2. Here(fs) /\ SavesKnown(fs) /\ LabelsWait(fs)
    BY <1>2, <1>6, <1>8 DEF Here, SavesKnown, LabelsWait
  <2>3. BlocksOpen(fs)
    BY <1>6, <1>8, <2>1 DEF BlocksOpen
  <2> QED
    BY <2>2, <2>3 DEF Settled
<1>10. Level(fs)
  BY <1>1, <1>2, <1>5, <1>6, KernelRegs DEF Level, ExecIs
<1> QED
  BY <1>1, <1>4, <1>7, <1>9, <1>10 DEF MasksInv, Lags

\* For every kernel of nested conditionals the decompiler knows, at every instruction, which
\* of them are open.
THEOREM MasksCorrect == KernelSpec => []MasksInv
<1>1. KernelInit /\ TypeInv => MasksInv
  BY MasksInit
<1>2. MasksInv /\ TypeInv' /\ [KernelNext]_kvars => MasksInv'
  BY MasksKept
<1> QED
  BY <1>1, <1>2, KernelIsInstructionList, TypeCorrect, PTL DEF KernelSpec

------------------------------------------------------------------------------
(***************************************************************************)
(* What follows for kernels of any size.                                   *)
(***************************************************************************)
\* A structured kernel never trips over a missing register (KeyError of exec_registers or of
\* node.state) or over the asserts of __xor__ and xor of src/src/logical_variable.py.
THEOREM NoExceptionCorrect == KernelSpec => []NoException
<1>1. MasksInv => NoException
  BY DEF MasksInv, Steady, NoException
<1> QED
  BY <1>1, MasksCorrect, PTL

\* The condition of "$MASK" at the newest node denotes the exec mask of the hardware whenever
\* the graph has caught up: saveexec, andn2, or and mov of exec, lowered to IR and run through
\* the algebra of conditions, mean what the hardware does.
THEOREM MaskDenotesExecCorrect == KernelSpec => []MaskDenotesExec
<1>1. MasksInv => MaskDenotesExec
  <2> SUFFICES ASSUME MasksInv, Ready
               PROVE  {l \in waves : Satisfies(l, mask[last_node])} = hw["exec"] \cap waves
    BY DEF MaskDenotesExec
  <2>1. mask[last_node] = Cond(frames, Len(frames))
    BY ReadyLevel DEF Settled, Here, Within
  <2>2. \A l \in waves : l \in hw["exec"] <=> Satisfies(l, Cond(frames, Len(frames)))
    BY DEF MasksInv, HwInv, ExecRight
  <2> QED
    BY <2>1, <2>2
<1> QED
  BY <1>1, MasksCorrect, PTL

\* The condition of a conditional with a mask is stricter than that around it.
LEMMA CondGrows ==
  ASSUME NEW fs, NEW m, Nested(fs, m), NEW k \in 1 .. Len(fs), fs[k].kind = "mask"
  PROVE  StrictSubset(Cond(fs, k - 1), Cond(fs, k))
<1>1. PICK q \in Nat : q = k - 1 /\ k = q + 1
  BY SavesOf
<1>2. Cond(fs, k) = Cond(fs, q) \cup {Literal(fs[k])}
  BY <1>1, CondNext
<1>3. /\ Outside(Cond(fs, k - 1), fs[k].cmp)
      /\ Literal(fs[k]) \in {Cmp(fs[k].cmp), Wrap(Cmp(fs[k].cmp))}
  BY CondOutside
<1>4. PICK C, i : C = Cond(fs, q) /\ i = fs[k].cmp
  OBVIOUS
<1>5. PICK c \in {Cmp(i), Wrap(Cmp(i))} : c = Literal(fs[k])
  BY <1>3, <1>4
<1>6. Outside(C, i)
  BY <1>1, <1>3, <1>4
<1>7. StrictSubset(C, C \cup {c})
  BY <1>6, OrRestores
<1> QED
  BY <1>1, <1>2, <1>4, <1>5, <1>7

\* masked_blocks is the stack of the open conditionals with a mask: as many entries, ever
\* stricter conditions from the bottom up, the topmost one in force (cfg.py pops and pushes
\* exactly what the machine instructions end and begin).
THEOREM StackMirrorsFramesCorrect == KernelSpec => []StackMirrorsFrames
<1>1. MasksInv => StackMirrorsFrames
  <2> DEFINE n == Len(frames)
             L == Len(masked_blocks)
  <2> SUFFICES ASSUME MasksInv, Ready
               PROVE  /\ L = Cardinality({k \in DOMAIN frames : frames[k].kind = "mask"}) + 1
                      /\ mask[masked_blocks[L].change_mask] = mask[last_node]
                      /\ \A b \in 2 .. L : StrictSubset(mask[masked_blocks[b - 1].change_mask],
                                                        mask[masked_blocks[b].change_mask])
    BY DEF StackMirrorsFrames
  <2>1. Nested(frames, ifs) /\ Settled(frames)
    BY ReadyLevel
  <2>2. n \in Nat /\ DOMAIN frames = 1 .. n
    BY <2>1, SavesOf, LenProperties
  <2>3. /\ L = Masks(frames, n) + 1 /\ mask[last_node] = Cond(frames, n)
        /\ \A k \in 0 .. n : mask[masked_blocks[Masks(frames, k) + 1].change_mask] = Cond(frames, k)
    BY <2>1 DEF Settled, Here, BlocksOpen, Within
  <2>4. Masks(frames, n) = Cardinality({k \in DOMAIN frames : frames[k].kind = "mask"})
    BY <2>2 DEF Masks
  <2>5. \A k \in 1 .. n : frames[k].kind = "mask" => StrictSubset(Cond(frames, k - 1), Cond(frames, k))
    BY <2>1, CondGrows
  <2> HIDE DEF n, L
  <2>6. ASSUME NEW b \in 2 .. L
        PROVE  StrictSubset(mask[masked_blocks[b - 1].change_mask], mask[masked_blocks[b].change_mask])
    <3>1. PICK c \in Nat : c = b - 1 /\ c \in 1 .. Masks(frames, n) /\ c - 1 + 1 = b - 1 /\ c + 1 = b
      <4>1. Masks(frames, n) \in Nat
        BY <2>2, MasksCount
      <4> QED
        BY <2>3, <2>6, <4>1
    <3>2. PICK k \in 1 .. n : frames[k].kind = "mask" /\ Masks(frames, k) = c /\ Masks(frames, k - 1) = c - 1
      BY <2>2, <3>1, MaskOf
    <3>3. k \in 0 .. n /\ k - 1 \in 0 .. n
      BY <2>2
    <3>4. /\ mask[masked_blocks[b].change_mask] = Cond(frames, k)
          /\ mask[masked_blocks[b - 1].change_mask] = Cond(frames, k - 1)
      <4>1. Masks(frames, k) + 1 = b /\ Masks(frames, k - 1) + 1 = b - 1
        BY <3>1, <3>2
      <4> QED
        BY <2>3, <3>3, <4>1
    <3> QED
      BY <2>5, <3>2, <3>4
  <2>7. n \in 0 .. n
    BY <2>2
  <2> QED
    BY <2>3, <2>4, <2>6, <2>7
<1> QED
  BY <1>1, MasksCorrect, PTL
==============================================================================
