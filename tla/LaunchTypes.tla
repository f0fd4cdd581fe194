----------------------------- MODULE LaunchTypes -----------------------------
(***************************************************************************)
(* The types by which the decompiler knows that a register holds a launch  *)
(* quantity (src/register_type.py), and the sums it recognises by the      *)
(* types of their operands: those of an addition (v_add.py) and those of a *)
(* content that keeps the types of all its operands                        *)
(* (operation_register_content.py).                                        *)
(***************************************************************************)
EXTENDS Integers, Sequences, FiniteSets, TLC, SequencesExt

CONSTANT Launch  \* dimension -> [group, size, item, offset, groups] of the work item

ASSUME LaunchAssumption ==
  /\ "none" \notin DOMAIN Launch
  /\ \A d \in DOMAIN Launch : /\ Launch[d].size \in Nat /\ Launch[d].item \in 0 .. Launch[d].size - 1
                              /\ Launch[d].groups \in Nat /\ Launch[d].group \in 0 .. Launch[d].groups - 1
                              /\ Launch[d].offset \in Nat

----------------------------------------------------------------------------
\* What UNKNOWN, INT32, an argument's value and a combined content have in
\* common: nothing is recognised by them.
Plain == <<"PLAIN", "none">>

AddressTypes == {"ADDRESS_KERNEL_ARGUMENT", "LOCAL_DATA_POINTER"}

(* The launch quantities that types stand for.                              *)
Meaning(l) ==
  [WORK_GROUP_ID                   |-> l.group,
   LOCAL_SIZE                      |-> l.size,
   WORK_ITEM_ID                    |-> l.item,
   GLOBAL_OFFSET                   |-> l.offset,
   NUM_GROUPS                      |-> l.groups,
   WORK_GROUP_ID_LOCAL_SIZE        |-> l.group * l.size,
   WORK_GROUP_ID_LOCAL_SIZE_OFFSET |-> l.group * l.size + l.offset,
   WORK_GROUP_ID_WORK_ITEM_ID      |-> l.group * l.size + l.item,
   GLOBAL_ID                       |-> l.group * l.size + l.item + l.offset,
   GLOBAL_SIZE                     |-> l.groups * l.size]

Quantities ==
  {"WORK_GROUP_ID", "LOCAL_SIZE", "WORK_ITEM_ID", "GLOBAL_OFFSET", "NUM_GROUPS",
   "WORK_GROUP_ID_LOCAL_SIZE", "WORK_GROUP_ID_LOCAL_SIZE_OFFSET", "WORK_GROUP_ID_WORK_ITEM_ID",
   "GLOBAL_ID", "GLOBAL_SIZE"}
RegisterTypes == (({"PLAIN"} \cup AddressTypes) \X {"none"}) \cup (Quantities \X DOMAIN Launch)

Named(type) == type[2] \in DOMAIN Launch
Denoted(type) == Meaning(Launch[type[2]])[type[1]]

----------------------------------------------------------------------------
(* Contents that keep the types of several operands.                       *)

SumSimplifyCombinations ==
  <<[of |-> <<"GLOBAL_OFFSET", "WORK_ITEM_ID", "WORK_GROUP_ID_LOCAL_SIZE">>, to |-> "GLOBAL_ID"],
    [of |-> <<"GLOBAL_OFFSET", "WORK_GROUP_ID_WORK_ITEM_ID">>,               to |-> "GLOBAL_ID"],
    [of |-> <<"WORK_ITEM_ID", "WORK_GROUP_ID_LOCAL_SIZE_OFFSET">>,           to |-> "GLOBAL_ID"],
    [of |-> <<"NUM_GROUPS", "WORK_GROUP_ID_LOCAL_SIZE">>,                    to |-> "GLOBAL_SIZE"]>>

Dimensions == <<"X", "Y", "Z">>

\* The types a combination consumes, and what is left of the types without them.
Consumed(c, d) == [n \in DOMAIN c.of |-> <<c.of[n], d>>]
Without(types, gone) ==
  LET rest[n \in 0 .. Len(gone)] == IF n = 0 THEN types ELSE RemoveFirst(rest[n - 1], gone[n])
  IN  rest[Len(gone)]

(* One round of maybe_simplify: the first combination whose types all occur *)
(* is replaced by one type.                                                *)
Reduced(types) ==
  LET Applies(c, d) == \A t \in ToSet(Consumed(c, d)) : t \in ToSet(types)
      found == {p \in (DOMAIN SumSimplifyCombinations) \X (DOMAIN Dimensions) :
                  Applies(SumSimplifyCombinations[p[1]], Dimensions[p[2]])}
      first == CHOOSE p \in found :
                 \A q \in found : p[1] < q[1] \/ (p[1] = q[1] /\ p[2] <= q[2])
      c     == SumSimplifyCombinations[first[1]]
      d     == Dimensions[first[2]]
  IN  IF Len(types) = 1 \/ found = {} THEN types
      ELSE Append(Without(types, Consumed(c, d)), <<c.to, d>>)

\* Every round shortens the list, so there are no more rounds than types.
Simplified(types) ==
  LET rounds[n \in 0 .. Len(types)] == IF n = 0 THEN types ELSE Reduced(rounds[n - 1])
  IN  rounds[Len(types)]

\* Mutant: a sum simplified to one type stays a sum.
CombinedTypes_stays_sum(operation, a, b) ==
  LET nested == {c \in {a, b} : c.operation # "none"}
      same   == \A c \in nested : c.operation = operation
      Types(c) == IF c.operation = "none" \/ same THEN c.types ELSE <<Plain>>
      all    == Types(a) \o Types(b)
  IN  [operation |-> operation, types |-> IF operation = "+" THEN Simplified(all) ELSE all]

(* The operands of operands with the same operation are the operation's     *)
(* own; with one type it is an ordinary content again.                     *)
CombinedTypes(operation, a, b) ==
  LET nested == {c \in {a, b} : c.operation # "none"}
      same   == \A c \in nested : c.operation = operation
      Types(c) == IF c.operation = "none" \/ same THEN c.types ELSE <<Plain>>
      all    == Types(a) \o Types(b)
      types  == IF operation = "+" THEN Simplified(all) ELSE all
  IN  [operation |-> IF Len(types) = 1 THEN "none" ELSE operation, types |-> types]

----------------------------------------------------------------------------
(* Additions of two registers.                                             *)

\* The sums of two types, in either order, that get a type of their own.
SumPatterns ==
  [GLOBAL_ID |-> {{"WORK_GROUP_ID_LOCAL_SIZE_OFFSET", "WORK_ITEM_ID"},
                  {"GLOBAL_OFFSET", "WORK_GROUP_ID_WORK_ITEM_ID"}},
   WORK_GROUP_ID_WORK_ITEM_ID      |-> {{"WORK_GROUP_ID_LOCAL_SIZE", "WORK_ITEM_ID"}},
   WORK_GROUP_ID_LOCAL_SIZE_OFFSET |-> {{"WORK_GROUP_ID_LOCAL_SIZE", "GLOBAL_OFFSET"}}]

\* Mutant: an offset in the global work size is taken for the position in it.
TypeOfSum_offset(t, u) ==
  LET sum == IF Named(t) /\ t[2] = u[2] /\ \E k \in DOMAIN SumPatterns : {t[1], u[1]} \in SumPatterns[k]
             THEN <<CHOOSE k \in DOMAIN SumPatterns : {t[1], u[1]} \in SumPatterns[k], t[2]>>
             ELSE Plain
  IN  IF sum[1] = "WORK_GROUP_ID_LOCAL_SIZE_OFFSET" THEN <<"GLOBAL_ID", sum[2]>> ELSE sum

TypeOfSum(t, u) ==
  IF Named(t) /\ t[2] = u[2] /\ \E k \in DOMAIN SumPatterns : {t[1], u[1]} \in SumPatterns[k]
  THEN <<CHOOSE k \in DOMAIN SumPatterns : {t[1], u[1]} \in SumPatterns[k], t[2]>>
  ELSE Plain
=============================================================================
