------------------------------ MODULE MCHistory ------------------------------
(* Instances of History for TLC. A call treats each row by itself, and so a  *)
(* few rows do; every query and every deletion asks for all of them.         *)
EXTENDS History

MCSelects == [q \in Queries |-> Rows]
MCKeys == {Rows}
=============================================================================
