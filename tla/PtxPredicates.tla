---------------------------- MODULE PtxPredicates ----------------------------
(***************************************************************************)
(* Predicates of PTX instructions: the lowering of guarded instructions    *)
(* (src/src/ir/asm_to_ir/ptx), the pass that turns runs of them into       *)
(* masked regions (src/src/ir/passes/ptx/predicates.py), and the masked    *)
(* program it leaves, executed.  A mask is the value its predicate had     *)
(* when it was opened: the text is an if around the region.                *)
(***************************************************************************)
EXTENDS Integers, Sequences, SequencesExt, FiniteSets

CONSTANTS
  Predicates,
  Labels,
  MaxEffects,
  MaxCode,   \* bound on the instructions of a kernel
  MaxJumps   \* bound on its branches

ASSUME MaxCodeAssumption == MaxCode \in Nat

VARIABLES
  code,         \* the instructions of the kernel as PTX has them
  next,         \* the first one the pass has not seen
  instructions, \* what it has made so far; n is the instruction it comes from
  open,         \* open_predicate
  declared,     \* kernel.predicates
  outcome,      \* "running", "done", or the exception that ended the pass
  pc, value, mask, log  \* the result, executed

pass == <<code, next, instructions, open, declared, outcome>>
run == <<pc, value, mask, log>>
vars == <<pass, run>>

None == <<>>
NotOf(p) == Append(p, "Not")

\* A branch takes its predicate as an operand; only other instructions are guarded.
is_control_flow(i) == i.op \in {"bra", "label"}
Unguarded(i) == i.predicate = None \/ is_control_flow(i)

Masked(i, n) == [op |-> i.op, predicate |-> None, negated |-> FALSE, name |-> i.name, n |-> n]
Plain(i, n) == [Masked(i, n) EXCEPT !.predicate = i.predicate, !.negated = i.negated]
ChangeMask(p) == [op |-> "change_mask", predicate |-> None, negated |-> FALSE, name |-> p, n |-> 0]
Unmask == [op |-> "unmask", predicate |-> None, negated |-> FALSE, name |-> None, n |-> 0]

------------------------------------------------------------------------------
(***************************************************************************)
(* The pass.                                                               *)
(***************************************************************************)
Closing == IF open = None THEN <<>> ELSE <<Unmask>>

\* Mutant: a mask that is open serves every predicate.
Opening_any(p) == IF open # None THEN <<>> ELSE <<ChangeMask(p)>>
Opening(p) == IF open = p THEN <<>> ELSE Append(Closing, ChangeMask(p))

Reading == outcome = "running" /\ next <= Len(code)
Advance == next' = next + 1 /\ UNCHANGED <<code, run>>

\* An instruction without a guard, a branch or a label closes the mask.
\* Mutant: a label leaves it open.
CloseBefore_label(i) == IF i.op = "label" THEN <<>> ELSE Closing
CloseBefore(i) == Closing

PassOver ==
  /\ Reading /\ Unguarded(code[next])
  /\ instructions' = instructions \o CloseBefore(code[next]) \o <<Plain(code[next], next)>>
  /\ open' = None
  /\ UNCHANGED <<declared, outcome>>
  /\ Advance

Cover ==
  /\ Reading /\ ~Unguarded(code[next]) /\ ~code[next].negated
  /\ LET p == code[next].predicate IN
     /\ instructions' = instructions \o Opening(p) \o <<Masked(code[next], next)>>
     /\ open' = p
  /\ UNCHANGED <<declared, outcome>>
  /\ Advance

\* The negation of the predicate is created without the type Not asks for.
CoverNegated ==
  /\ Reading /\ ~Unguarded(code[next]) /\ code[next].negated
  /\ declared' = declared \cup {NotOf(code[next].predicate)}
  /\ outcome' = "TypeError"
  /\ UNCHANGED <<code, next, instructions, open, run>>

Finish ==
  /\ outcome = "running" /\ next > Len(code)
  /\ instructions' = instructions \o Closing
  /\ open' = None
  /\ outcome' = "done"
  /\ UNCHANGED <<code, next, declared, run>>

Pass == PassOver \/ Cover \/ CoverNegated \/ Finish

------------------------------------------------------------------------------
(***************************************************************************)
(* The program the pass leaves, as the text executes it.                   *)
(***************************************************************************)
Current == instructions[pc]
Executing == outcome = "done" /\ pc <= Len(instructions)
Position(label) == CHOOSE k \in DOMAIN instructions : instructions[k].op = "label" /\ instructions[k].name = label
Passes(i) == mask /\ (i.predicate # None => value[i.predicate] # i.negated)

Switch ==
  /\ Executing /\ Current.op \in {"change_mask", "unmask"}
  /\ mask' = (Current.op = "change_mask" => value[Current.name])
  /\ pc' = pc + 1
  /\ UNCHANGED <<value, log>>

Execute ==
  /\ Executing /\ Current.op \notin {"change_mask", "unmask"} /\ Len(log) < MaxEffects
  /\ IF ~Passes(Current) THEN pc' = pc + 1 /\ UNCHANGED <<value, log>>
     ELSE /\ log' = IF Current.op \in {"setp", "do"} THEN Append(log, Current.n) ELSE log
          /\ \/ Current.op = "setp" /\ \E b \in BOOLEAN : value' = [value EXCEPT ![Current.name] = b]
             \/ Current.op # "setp" /\ UNCHANGED value
          /\ pc' = IF Current.op = "bra" THEN Position(Current.name) ELSE pc + 1
  /\ UNCHANGED mask

Run == (Switch \/ Execute) /\ UNCHANGED pass

------------------------------------------------------------------------------
(***************************************************************************)
(* Kernels.  A guarded comparison that sets its own guard leaves the mask  *)
(* of the run it is in out of date.                                        *)
(***************************************************************************)
Registers == {<<p>> : p \in Predicates}
Guards == {None} \cup Registers
Kinds ==
  {i \in [op : {"do"}, predicate : Guards, negated : BOOLEAN, name : {None}]
          \cup [op : {"setp"}, predicate : Guards, negated : {FALSE}, name : Registers]
          \cup [op : {"bra"}, predicate : Guards, negated : BOOLEAN, name : Labels]
          \cup [op : {"label"}, predicate : {None}, negated : {FALSE}, name : Labels] :
     i.negated => i.predicate # None}

SetsOwnGuard(c, n) ==
  /\ c[n].op = "setp" /\ c[n].name = c[n].predicate
  /\ n < Len(c) /\ ~Unguarded(c[n + 1]) /\ c[n + 1].predicate = c[n].predicate

Count(c, S) == Cardinality({n \in DOMAIN c : c[n].op \in S})
WellFormed(c) ==
  /\ Count(c, {"bra"}) <= MaxJumps
  /\ \A m, n \in DOMAIN c : (c[m].op = "label" /\ c[n].op = "label" /\ c[m].name = c[n].name) => m = n
  /\ \A n \in DOMAIN c : c[n].op = "bra" => \E k \in DOMAIN c : c[k].op = "label" /\ c[k].name = c[n].name
  /\ \A n \in DOMAIN c : ~SetsOwnGuard(c, n)

Init ==
  /\ code \in {c \in [1 .. MaxCode -> Kinds] : WellFormed(c)}
  /\ next = 1 /\ instructions = <<>> /\ open = None /\ outcome = "running"
  /\ declared = Registers
  /\ pc = 1 /\ mask = TRUE /\ log = <<>>
  /\ value = [p \in Registers |-> FALSE]

Next == Pass \/ Run

\* The pass is one loop, and the text it leaves is executed to the end.
Spec == Init /\ [][Next]_vars /\ WF_vars(Next)

------------------------------------------------------------------------------
(***************************************************************************)
(* Properties.                                                             *)
(***************************************************************************)
\* The instruction of the source that is executed next.
Ahead == {instructions[k].n : k \in pc .. Len(instructions)} \ {0}
SourcePc ==
  IF outcome # "done" THEN 1
  ELSE IF Ahead = {} THEN Len(code) + 1
  ELSE CHOOSE n \in Ahead : \A m \in Ahead : n <= m

Source == INSTANCE PredicatedCode
            WITH Predicates <- Registers, pc <- SourcePc

\* The masked program does what the predicated one does: each instruction has its effect exactly
\* when its own guard holds where it stands, and the program goes on to its end unless the pass
\* failed (predicates.py PTXPredicatesPass).
MasksTakeItsSteps == Source!Steps
MasksImplementPredicates == MasksTakeItsSteps /\ (<>(outcome = "TypeError") \/ Source!Progress)

\* A mask is closed before control can leave its region or enter it: an if in the text has no
\* branch into it or out of it (predicates.py:20, cfg.py closes every mask at an Unmask).
MaskedRunsAreStraight ==
  \A j, k \in DOMAIN instructions :
    (j < k /\ instructions[j].op = "change_mask" /\ is_control_flow(instructions[k])) =>
      \E m \in j .. k : instructions[m].op = "unmask"
==============================================================================
