------------------------------- MODULE MCJobs -------------------------------
(* Small instances of Jobs for TLC.  An execution that fails is recorded   *)
(* like one that succeeds, so "done" stands for both.                      *)
EXTENDS Jobs

MCOutcomes == {"done", "cancelled"}
=============================================================================
