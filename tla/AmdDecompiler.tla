---------------------------- MODULE AmdDecompiler ----------------------------
(***************************************************************************)
(* A structured GCN kernel (AmdKernel) on its way through the decompiler:  *)
(* when its graph is complete the regions are built and folded (Regions)   *)
(* and the kernel is printed.                                              *)
(***************************************************************************)
EXTENDS AmdKernel, Regions

dvars == <<kvars, rvars>>

DecompilerInit == KernelInit /\ RegionInit

DecompilerNext ==
  \/ KernelNext /\ UNCHANGED rvars
  \/ Ended /\ RegionStep /\ UNCHANGED hardware

DecompilerSpec == DecompilerInit /\ [][DecompilerNext]_dvars

\* The passes are one sequential program: while there is a step to take, it is taken.  Written
\* out, with Busy for the enabling condition of RegionStep.
Busy == Ended /\ phase \notin {"folded", "ValueError"}
FairDecompilerSpec == DecompilerSpec /\ (<>[]Busy => []<><<TRUE>>_rvars)

------------------------------------------------------------------------------
Executes(l, visit) ==
  \A w \in visit.when : Satisfies(l, Condition_of(w[1])) <=> w[2]

\* The computations and stores the printed text executes for a lane, in its order, and those
\* the hardware executes.
Printed(l) ==
  LET visited_effects == SelectSeq(make_output_from_region(improve_cfg),
                                   LAMBDA v : v.node \in Effects \cup {0} /\ Executes(l, v))
  IN  [i \in DOMAIN visited_effects |-> visited_effects[i].node]
Executed(l) == SetToSortSeq({n \in Effects : l \in active[n]}, LAMBDA a, b : a < b)

\* The printed program executes for every lane the computations and stores that the hardware
\* executes for it, each once and in the same order.
PrintedRight == phase = "folded" => \A l \in Lanes : Printed(l) = Executed(l)

\* The region graph of every structured kernel is folded to the end: the fold terminates,
\* although it adds regions to the graph it walks, and no lookup of a region fails.
AlwaysFolded == Ended ~> phase = "folded"
==============================================================================
