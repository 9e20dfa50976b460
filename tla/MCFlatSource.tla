---------------------------- MODULE MCFlatSource ----------------------------
(***************************************************************************)
(* Model checking FlatSource: one file with two contents, two dates, two   *)
(* writes and one fault, append mode, and a queue of one.                  *)
(***************************************************************************)
EXTENDS FlatSource

CONSTANT f1

OneFile == {f1}
=============================================================================
