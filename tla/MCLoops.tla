------------------------------- MODULE MCLoops -------------------------------
(* Kernels with loops.  Structured ones: a loop is a label, a body and a       *)
(* conditional branch back to the label; a break is a branch to a label behind *)
(* the loop, which is also the end of the if around the loop unless FreeBreaks *)
(* holds.  And any program of plain instructions, branches, jumps and labels.  *)
EXTENDS Loops

CONSTANTS
  AnyNodes,     \* bound on the nodes of any other program
  MaxLoops,     \* bound on the loops of a structured kernel
  MaxBranches,  \* bound on its conditional branches
  FreeBreaks    \* a break may leave a loop with no if around it

VARIABLES
  structured,  \* the program is a structured kernel
  frames       \* its open constructs: [kind, label, out], out the label of the breaks, 0 if none

allvars == <<vars, rvars, lvars, structured, frames>>

NoScalars == <<>>

Used == UNION {{frames[i].label, frames[i].out} : i \in DOMAIN frames}
Fresh == {l \in Labels : to_node[l] = 0 /\ from_node[l] = <<>> /\ l \notin Used}
NewLabel == CHOOSE l \in Fresh : TRUE

Top == Last(frames)
Within(kind) == frames # <<>> /\ Top.kind = kind
Guarded == Len(frames) > 1 /\ frames[Len(frames) - 1].kind = "if"
AfterPlain == instruction[last_node] = "plain"
Branches == Cardinality({n \in Nodes : instruction[n] \in {"s_br", "s_nbr"}})
OpenLoops == Cardinality({i \in DOMAIN frames : frames[i].kind = "loop"})
Push(kind, l) == frames' = Append(frames, [kind |-> kind, label |-> l, out |-> 0])
Pop == frames' = Front(frames)

Compute == ~Within("out") /\ Plain /\ UNCHANGED frames

Loop ==
  /\ AfterPlain /\ Fresh # {} /\ OpenLoops = 0
  /\ Cardinality(back_edges) < MaxLoops
  /\ Label(NewLabel) /\ Push("loop", NewLabel)

BreakTo(l) == BranchNot(l) /\ frames' = [frames EXCEPT ![Len(frames)].out = l]
Break ==
  /\ Within("loop") /\ AfterPlain /\ Branches < MaxBranches
  /\ \/ Top.out # 0 /\ BreakTo(Top.out)
     \/ Top.out = 0 /\ Guarded /\ BreakTo(frames[Len(frames) - 1].label)
     \/ Top.out = 0 /\ ~Guarded /\ FreeBreaks /\ Fresh # {} /\ BreakTo(NewLabel)

EndLoop ==
  /\ Within("loop") /\ AfterPlain
  /\ Branch(Top.label)
  /\ frames' = IF Top.out = 0 THEN Front(frames)
               ELSE [frames EXCEPT ![Len(frames)].kind = "out"]

\* The label of the breaks, and of the if around the loop.
EndBreaks ==
  /\ Within("out") /\ Label(Top.out)
  /\ frames' = IF Guarded THEN Front(Front(frames)) ELSE Front(frames)

If ==
  /\ AfterPlain /\ OpenLoops = 0 /\ Fresh # {} /\ Branches < MaxBranches
  /\ Branch(NewLabel) /\ Push("if", NewLabel)
EndIf == Within("if") /\ instruction[last_node] # "s_br" /\ Label(Top.label) /\ Pop

Structured ==
  \/ Compute \/ Loop \/ Break \/ EndLoop \/ EndBreaks \/ If \/ EndIf
  \/ frames = <<>> /\ EndPgm /\ UNCHANGED frames

\* Any other program has two labels.
AnyInstruction ==
  /\ last_node < AnyNodes
  /\ last_node = 1 => Plain
  /\ Plain \/ EndPgm \/ \E l \in Labels \cap {1, 2} : Branch(l) \/ Jump(l) \/ Label(l)
  /\ UNCHANGED frames

Reading ==
  /\ instruction[last_node] # "s_endpgm"
  /\ IF structured THEN Structured ELSE AnyInstruction
  /\ UNCHANGED <<rvars, lvars>>

Regioning == Assembled /\ NoDeadCode /\ LoopsStep /\ UNCHANGED frames

MCInit == Init /\ LoopsInit /\ frames = <<>> /\ structured \in BOOLEAN
MCNext == (Reading \/ Regioning) /\ UNCHANGED structured

\* The pass is one sequential program: while it has a step to take, it takes it.  Weak fairness
\* of Regioning, with Busy for its enabling condition.
Busy == Assembled /\ NoDeadCode /\ phase # "folded" /\ NoLoopException
MCSpec == MCInit /\ [][MCNext]_allvars /\ (<>[]Busy => []<><<Regioning>>_allvars)

(* A structured kernel is reduced and folded without an exception, and control *)
(* flows through its text as through its graph (functions_for_regions.py       *)
(* process_region_graph).                                                      *)
KernelsFolded == structured => NoLoopException
KernelsPrinted == structured => FlowPrinted

(* A structured kernel is printed at last: the search for loops, the reduction *)
(* of their bodies and the walks through their nodes come to an end, and not   *)
(* in an exception (functions_for_regions.py find_loops, process_loop).  Of    *)
(* other programs this is not true: the walk through a loop never leaves a     *)
(* loop inside, because the first child of a branch back is its label.         *)
KernelsEnd == (structured /\ phase = "make") ~> (phase = "folded")

(* The same of any program, if no code is lost. *)
ProgramsPrinted == ~structured => CompleteIsRight
==============================================================================
