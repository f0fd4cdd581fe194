---------------------------- MODULE MCAmdVersions ----------------------------
(***************************************************************************)
(* One kernel, whose register v holds three values that are not alive      *)
(* together:                                                               *)
(*   if (a) v = 1; else if (b) v = 2; else if (c) { v = 3; store v; }      *)
(*   else store;                                                           *)
(***************************************************************************)
EXTENDS AmdKernel

VARIABLE at  \* how many of its machine instructions have been issued

MCScalars == <<"s0", "s1", "s2", "v">>
MCSaves == <<"s0", "s1", "s2">>

\* The else of the inner conditionals is entered by the wave, the others by lanes.
Issued ==
  CASE at = 0  -> If(1)
    [] at = 1  -> Compute("v")
    [] at = 2  -> Else
    [] at = 3  -> UniformIf(2)
    [] at = 4  -> Compute("v")
    [] at = 5  -> UniformElse
    [] at = 6  -> If(3)
    [] at = 7  -> Compute("v")
    [] at = 8  -> Store
    [] at = 9  -> Else
    [] at = 10 -> Store
    [] at = 11 -> EndIf
    [] at = 12 -> UniformEndIf
    [] at = 13 -> EndIf
    [] at = 14 -> s_endpgm
    [] OTHER   -> FALSE

MCInit == KernelInit /\ at = 0
MCNext == (Step /\ UNCHANGED at) \/ (Issued /\ at' = at + 1)
MCSpec == MCInit /\ [][MCNext]_<<kvars, at>>
==============================================================================
