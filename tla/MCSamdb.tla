------------------------------ MODULE MCSamdb -------------------------------
(* Samdb for TLC: a proper string and a value without a NUL.                *)
EXTENDS Samdb

MCData == {<<1, 0>>, <<1, 1>>}
=============================================================================
