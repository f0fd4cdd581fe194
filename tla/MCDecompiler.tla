---------------------------- MODULE MCDecompiler ----------------------------
(***************************************************************************)
(* Structured kernels, up to three conditionals deep, from the assembly to *)
(* the text.  With a third conditional there is one store only.            *)
(* Comparisons are alike, so the tests of a kernel take them in order.     *)
(***************************************************************************)
EXTENDS AmdDecompiler

MCScalars == <<"s0", "s1", "s2">>
MCSaves == <<"s0", "s1", "s2">>

Tested == {state[n][p].text.id : n \in Nodes, p \in {"vcc", "scc"}} \cup {0}
Small ==
  /\ ifs' <= 2 \/ ops' <= 1
  /\ ifs' > ifs => Last(frames').cmp - 1 \in Tested
  /\ (ifs' = 3 /\ ifs = 2) => Len(frames') > 1

MCSpec == DecompilerInit /\ [][DecompilerNext /\ Small]_dvars /\ (<>[]Busy => []<><<TRUE>>_rvars)
=============================================================================
