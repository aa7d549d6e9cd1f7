------------------------------- MODULE MCOta --------------------------------
(* Ota for TLC: the factory image has one page, the newer ones two and one. *)
EXTENDS Ota

CONSTANTS v0, v1, v2

MCImages == {v0, v1, v2}
MCLength == [i \in MCImages |-> IF i = v1 THEN 2 ELSE 1]
=============================================================================
