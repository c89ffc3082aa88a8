--------------------------- MODULE MC_ExecutionJournal --------------------------
(***************************************************************************)
(* Two processes and one plan of ExecutionJournal.                         *)
(***************************************************************************)
EXTENDS ExecutionJournal, TLC

Symmetry == Permutations(Processes)

================================================================================
