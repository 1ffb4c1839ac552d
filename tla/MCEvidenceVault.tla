--------------------------- MODULE MCEvidenceVault ---------------------------
(* Small instances of EvidenceVault for TLC.                               *)
EXTENDS EvidenceVault, TLC

CONSTANTS u1, u2, g1, g2, a, b

\* The second collection of a job finds something else.
MCContentOf == [p \in Writer |-> IF p \in {u1, g1} THEN a ELSE b]
=============================================================================
