---------------------------- MODULE MCTableSink ----------------------------
(***************************************************************************)
(* The table sink on a small instance: a sink that maps columns from the   *)
(* headers and one with declared columns, each shared by two writers; a    *)
(* file that is registered, one that is registered without a key and one   *)
(* that is new.                                                            *)
(***************************************************************************)
EXTENDS TableSink

CONSTANTS s1, s2, w1, w2, w3, w4, known, legacy, new

TwoSinks == {s1, s2}
FourWriters == {w1, w2, w3, w4}
ThreeFiles == {known, legacy, new}

TwoPerSink == [w \in FourWriters |-> IF w \in {w1, w2} THEN s1 ELSE s2]

Headers == [f \in ThreeFiles |-> IF f = new THEN {"temp", "rpm"} ELSE {"temp"}]

OneOfEach ==
    [f \in ThreeFiles |-> CASE f = known -> 1 [] f = legacy -> NoKey [] f = new -> NoRow]
=============================================================================
