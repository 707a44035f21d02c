----------------------------- MODULE MCDynamic ------------------------------
(***************************************************************************)
(* Instances of Dynamic for TLC: TaskRuns, cloud instances and workers as  *)
(* model values.                                                           *)
(***************************************************************************)
EXTENDS Dynamic, TLC

\* All three are interchangeable; used only where no liveness is checked.
Symmetry == Permutations(Workers) \cup Permutations(Tasks)
            \cup Permutations(Instances)
=============================================================================
