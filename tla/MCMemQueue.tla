---------------------------- MODULE MCMemQueue -----------------------------
(* Small instances of MemQueue for TLC.                                    *)
EXTENDS MemQueue

MCFallbacks == <<"gemini">>
=============================================================================
