----------------------------- MODULE EnvHeapMC -----------------------------
(* Names, and addresses, are interchangeable: a name is only compared with *)
(* another one, and a free cell holds none.                                *)
EXTENDS EnvHeap, TLC

Symmetry == Permutations(Names) \cup Permutations(Cells)
=============================================================================
