---------------------------- MODULE MCUtxoLedger ----------------------------
(***************************************************************************)
(* Model-checking instance of UtxoLedger.  Amounts are scaled so that a    *)
(* few blocks reach every case: a subsidy of 2 halving every 2 blocks, a   *)
(* coinbase that may over-claim by one, and spends whose output may be     *)
(* negative, below, equal to or above what the inputs hold.                *)
(***************************************************************************)
EXTENDS UtxoLedger

MCCoinbaseValues == {0, 1, 2, 3}
MCSpendValues == {-1, 1, 2}
MCBits == {50331649}   \* 0x03000001
=============================================================================
