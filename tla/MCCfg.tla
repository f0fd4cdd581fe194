-------------------------------- MODULE MCCfg --------------------------------
(* Any instruction list over two predicates, one other register and two labels. *)
(* Two restrictions of it allow longer lists: instructions on masks, and flow   *)
(* of control around one register.                                              *)
EXTENDS Cfg

CONSTANTS
  AnyNodes,   \* bound on the nodes of an unrestricted list
  FlowNodes   \* bound on the nodes of one about flow of control

VARIABLE about  \* "any", "masks" or "flow"

MCScalars == <<"s">>

MaskNext ==
  \/ \E i \in Comparisons : VCmp("exec", i)
  \/ VCmp("vcc", 2)
  \/ SAnd("exec", "exec", "vcc")
  \/ SNot("exec", "exec")
  \/ ChangeMask("exec")
  \/ Unmask
  \/ EndPgm

FlowNext ==
  \/ Arith("s")
  \/ Plain
  \/ \E l \in Labels : Branch(l) \/ Jump(l) \/ Label(l)

MCInit == Init /\ about \in {"any", "masks", "flow"}

MCNext ==
  /\ \/ about = "any" /\ last_node < AnyNodes /\ Next
     \/ about = "masks" /\ MaskNext
     \/ about = "flow" /\ last_node < FlowNodes /\ FlowNext
  /\ UNCHANGED about

MCSpec == MCInit /\ [][MCNext]_<<vars, about>>
==============================================================================
