---------------------------- MODULE PredicatedCode ----------------------------
(***************************************************************************)
(* What PTX code with predicates does: an instruction guarded by @p or @!p *)
(* has its effect only if p holds, or does not hold, when it is reached.   *)
(* The effects are logged; a comparison may come out either way.           *)
(***************************************************************************)
EXTENDS Integers, Sequences

CONSTANTS
  Predicates,  \* the predicate registers of the source
  MaxEffects   \* bound on the effects of a behaviour

Always == <<>>  \* the guard of an instruction that has none

VARIABLES
  code,   \* the instructions: [op, predicate, negated, name], name what it sets, or a label
  pc,     \* the instruction to execute
  value,  \* predicate register -> BOOLEAN
  log     \* the instructions that had their effect, in order

machine == <<code, pc, value, log>>

End == Len(code) + 1
Guarded(i) == i.predicate # Always
Passes(i) == Guarded(i) => value[i.predicate] # i.negated
Position(label) == CHOOSE n \in DOMAIN code : code[n].op = "label" /\ code[n].name = label

Start == pc = 1 /\ value = [p \in Predicates |-> FALSE] /\ log = <<>>

Skip(i) == ~Passes(i) /\ pc' = pc + 1 /\ UNCHANGED <<value, log>>

Effect(i) ==
  /\ Passes(i)
  /\ log' = IF i.op \in {"setp", "do"} THEN Append(log, pc) ELSE log
  /\ \/ i.op = "setp" /\ \E b \in BOOLEAN : value' = [value EXCEPT ![i.name] = b]
     \/ i.op # "setp" /\ UNCHANGED value
  /\ pc' = IF i.op = "bra" THEN Position(i.name) ELSE pc + 1

Execute ==
  /\ pc < End /\ Len(log) < MaxEffects
  /\ Skip(code[pc]) \/ Effect(code[pc])
  /\ UNCHANGED code

Steps == Start /\ [][Execute]_machine

\* The hardware does not stop in the middle.
Progress == WF_machine(Execute)
==============================================================================
