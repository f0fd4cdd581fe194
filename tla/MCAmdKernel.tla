----------------------------- MODULE MCAmdKernel -----------------------------
(* Structured kernels with conditionals nested two deep and one data register. *)
EXTENDS AmdKernel

MCScalars == <<"s0", "s1", "v">>
MCSaves == <<"s0", "s1">>
==============================================================================
