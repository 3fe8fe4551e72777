----------------------------- MODULE MCWorkflow ------------------------------
(* Small instances of Workflow for TLC: c joins a and b, and a may be      *)
(* tried twice.                                                            *)
EXTENDS Workflow, TLC

CONSTANTS a, b, c

MCDeps        == [t \in Tasks |-> IF t = c THEN {a, b} ELSE {}]
MCMaxAttempts == [t \in Tasks |-> IF t = a THEN 2 ELSE 1]
MCSymmetry    == Permutations(Workers)
=============================================================================
