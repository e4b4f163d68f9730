------------------------- MODULE MCReorganization --------------------------
(* Reorganization instantiated for TLC: two difficulties (targets 1 and 4, *)
(* exponent 3) so that branches of equal length differ in work, and a      *)
(* small block source.                                                     *)
EXTENDS Reorganization

MCCoinbaseValues == {1, 2}
MCSpendValues == {1}
MCBits == {50331649, 50331652}   \* 0x03000001 and 0x03000004
=============================================================================
