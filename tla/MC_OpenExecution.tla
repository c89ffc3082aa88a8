--------------------------- MODULE MC_OpenExecution ----------------------------
(***************************************************************************)
(* Small instances of OpenExecution. Its symbols are interchangeable.      *)
(***************************************************************************)
EXTENDS OpenExecution, TLC

SymbolSymmetry == Permutations(Symbols)

================================================================================
