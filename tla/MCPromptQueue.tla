--------------------------- MODULE MCPromptQueue ----------------------------
(* Small instances of PromptQueue for TLC.                                 *)
EXTENDS PromptQueue
=============================================================================
