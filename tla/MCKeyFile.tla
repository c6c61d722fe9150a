------------------------------ MODULE MCKeyFile ------------------------------
(* A few processes, started again and again; symmetry for the runs that have *)
(* no property over steps.                                                   *)
EXTENDS KeyFile, TLC

Symmetry == Permutations(Process) \cup Permutations(Key)
==============================================================================
