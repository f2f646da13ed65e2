--------------------------- MODULE MCModelRegistry ---------------------------
(* Small instances of ModelRegistry for TLC. *)
EXTENDS ModelRegistry, TLC

CONSTANTS imported, longer, saved, n1, f1, f2, c1, c2, x, y

MCRunOf == [m \in Models |-> IF m = saved THEN "run" ELSE Nothing]
\* The suffix of longer begins as that of imported does.
MCShares == [m \in Models |-> IF m = imported THEN Models \ {saved} ELSE {m}]
MCNodeOf == [c \in Callers |-> n1]
MCWeightSets == {{}, {f1, f2}}

\* The callers share a machine; files and codes are told apart by nothing else.
MCSymmetry == Permutations({c1, c2}) \cup Permutations({f1, f2}) \cup Permutations({x, y})
=============================================================================
