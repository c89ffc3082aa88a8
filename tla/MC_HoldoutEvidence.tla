-------------------------- MODULE MC_HoldoutEvidence --------------------------
(* Two observations of one repository, one of a second checkout whose output paths are the *)
(* first one's, exchanged.                                                                  *)
EXTENDS HoldoutEvidence

CONSTANTS o1, o2, x, here, there, a, b

MCRuns == {o1, o2, x}
MCRootOf == [p \in MCRuns |-> IF p = x THEN there ELSE here]
MCReplayOf == [r \in {here, there} |-> IF r = here THEN a ELSE b]
MCDecisionOf == [r \in {here, there} |-> IF r = here THEN b ELSE a]
MCRank == [c \in {here, there, a, b} |->
              CASE c = a -> 1 [] c = here -> 2 [] c = b -> 3 [] OTHER -> 4]

================================================================================
