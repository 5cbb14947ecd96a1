------------------------------- MODULE MCHpack ------------------------------
(* Tables of two small entries, of one, and of none; a value that fits     *)
(* only the larger table; a name in the static table; a sensitive field    *)
(* whose name and value may be in the dynamic table.                       *)
EXTENDS Hpack

Field(n, v, s) == [name |-> n, value |-> v, sensitive |-> s]

MCFields == {Field(1, 1, FALSE), Field(2, 0, FALSE), Field(2, 30, FALSE),
             Field(3, 0, FALSE), Field(3, 0, TRUE)}
MCStaticTable == <<[name |-> 1, value |-> 0], [name |-> 4, value |-> 0]>>
=============================================================================
