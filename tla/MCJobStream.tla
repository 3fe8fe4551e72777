---------------------------- MODULE MCJobStream -----------------------------
(* Small instances of JobStream for TLC: windows and slices of a few       *)
(* events stand for 4096, 4608 and 256.                                    *)
EXTENDS JobStream
=============================================================================
