------------------------------- MODULE MCQpack ------------------------------
(* A table with room for two small entries or one big one, so that every   *)
(* insert may evict; names and a whole field in the static table; a        *)
(* sensitive twin of a field that is stored.                               *)
EXTENDS Qpack

Field(n, v, s) == [name |-> n, value |-> v, sensitive |-> s]

MCFields == {Field(2, 0, FALSE), Field(2, 30, FALSE), Field(1, 1, FALSE),
             Field(3, 1, FALSE), Field(3, 0, FALSE), Field(2, 0, TRUE)}
MCStaticNames == {1, 3}
MCStaticFields == {[name |-> 3, value |-> 0]}
=============================================================================
