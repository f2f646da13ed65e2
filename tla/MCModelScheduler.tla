--------------------------- MODULE MCModelScheduler ---------------------------
(* Small instances of ModelScheduler for TLC. *)
EXTENDS ModelScheduler

CONSTANTS base, chat, image, n1, n2, gpu

\* chat talks to base; image takes a whole node.
MCRequires == [m \in Models |-> IF m = chat THEN {base} \cap Models ELSE {}]
MCNeed == [m \in Models |-> [r \in Resources |-> IF m = image THEN 2 ELSE 1]]
MCCapacity == [n \in Nodes |-> [r \in Resources |-> IF n = n1 THEN 2 ELSE 1]]
=============================================================================
