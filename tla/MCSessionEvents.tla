-------------------------- MODULE MCSessionEvents ---------------------------
(* Small instances of SessionEvents for TLC: a buffer of two events stands *)
(* for one of 200.  One session logs two events and the server may send    *)
(* two without an id, so buffers are cut and the cursor's event can be     *)
(* pushed out; the other logs one, with an id the first has too.           *)
EXTENDS SessionEvents, TLC

CONSTANTS s1, s2

MCSessions == {s1, s2}
MCMaxLog == s1 :> 2 @@ s2 :> 1
=============================================================================
