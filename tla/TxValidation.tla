---------------------------- MODULE TxValidation ----------------------------
(***************************************************************************)
(* The transaction predicates of src/src/transaction.rs: check_transaction *)
(* (structure), check_tx_inputs (input resolution and fee against a UTXO   *)
(* set) and is_coinbase.  Pure operators, no state: UtxoLedger calls them  *)
(* from connect_block.                                                     *)
(*                                                                         *)
(* A transaction is a record                                               *)
(*   [version, inputs, outputs, lock_time]                                 *)
(* with inputs a sequence of [prevout |-> OutPoint, script_sig |-> tag]    *)
(* and outputs a sequence of [value |-> Int].  An OutPoint is              *)
(* [hash |-> txid, index |-> Nat].  A UTXO set is a function from          *)
(* OutPoints to [value, height].  Scripts are left out: no predicate here  *)
(* reads them (the size check counts inputs and outputs only).             *)
(***************************************************************************)
EXTENDS Integers, Sequences, Functions

CONSTANTS
  MAX_MONEY,    \* constants.rs MAX_MONEY (scaled down in the MC modules)
  MAX_INPUTS,   \* constants.rs MAX_INPUTS
  MAX_OUTPUTS,  \* constants.rs MAX_OUTPUTS
  MAX_TX_SIZE,  \* constants.rs MAX_TX_SIZE
  NullHash,     \* the all-zero 32-byte hash of a coinbase prevout
  COINBASE_INDEX \* the prevout index 0xffffffff of a coinbase input: beyond
                 \* TLC's integers, and only ever compared, so a model value

ASSUME MAX_MONEY \in Nat /\ MAX_INPUTS \in Nat /\ MAX_OUTPUTS \in Nat

(* is_coinbase: exactly one input whose prevout is (0^32, 0xffffffff).     *)
IsCoinbase(tx) ==
  /\ Len(tx.inputs) = 1
  /\ tx.inputs[1].prevout.hash = NullHash
  /\ tx.inputs[1].prevout.index = COINBASE_INDEX

(* calculate_transaction_size: the simplified size, 41 bytes per input and *)
(* 9 per output whatever the scripts hold.                                 *)
CalculateTransactionSize(tx) ==
  4 + Len(tx.inputs) * 41 + Len(tx.outputs) * 9 + 4

OutputValueOK(o) == 0 <= o.value /\ o.value <= MAX_MONEY

\* Mutant: the output range check without its lower bound.
CheckTransactionNoNegCheck(tx) ==
  /\ tx.inputs # <<>> /\ tx.outputs # <<>>
  /\ \A i \in DOMAIN tx.outputs : tx.outputs[i].value <= MAX_MONEY
  /\ Len(tx.inputs) <= MAX_INPUTS
  /\ Len(tx.outputs) <= MAX_OUTPUTS
  /\ CalculateTransactionSize(tx) <= MAX_TX_SIZE

(* check_transaction: the five checks in the code's order, each an early   *)
(* return of Invalid.  There is no check that the outputs SUM to at most   *)
(* MAX_MONEY and none for duplicate inputs.                                *)
CheckTransaction(tx) ==
  /\ tx.inputs # <<>> /\ tx.outputs # <<>>
  /\ \A i \in DOMAIN tx.outputs : OutputValueOK(tx.outputs[i])
  /\ Len(tx.inputs) <= MAX_INPUTS
  /\ Len(tx.outputs) <= MAX_OUTPUTS
  /\ CalculateTransactionSize(tx) <= MAX_TX_SIZE

\* The total of a transaction's outputs (the iterator sum of line 87).
TotalOut(tx) == SumFunction([i \in DOMAIN tx.outputs |-> tx.outputs[i].value])

\* The total value of the inputs, a prevout counted once per input naming it.
TotalIn(tx, utxo) ==
  SumFunction([i \in DOMAIN tx.inputs |-> utxo[tx.inputs[i].prevout].value])

AllInputsFound(tx, utxo) ==
  \A i \in DOMAIN tx.inputs : tx.inputs[i].prevout \in DOMAIN utxo

Invalid == [valid |-> FALSE, fee |-> 0]

\* Mutant: the fee taken as the input total, the outputs not subtracted.
CheckTxInputsFeeIsInput(tx, utxo) ==
  IF IsCoinbase(tx) THEN [valid |-> TRUE, fee |-> 0]
  ELSE IF ~AllInputsFound(tx, utxo) THEN Invalid
  ELSE IF TotalIn(tx, utxo) < TotalOut(tx) THEN Invalid
  ELSE [valid |-> TRUE, fee |-> TotalIn(tx, utxo)]

(* check_tx_inputs: (Valid, 0) for a coinbase; Invalid if a prevout is     *)
(* missing; Invalid if the inputs are worth less than the outputs; else    *)
(* (Valid, in - out).  The height argument is unused: no coinbase maturity *)
(* check is made.                                                          *)
CheckTxInputs(tx, utxo) ==
  IF IsCoinbase(tx) THEN [valid |-> TRUE, fee |-> 0]
  ELSE IF ~AllInputsFound(tx, utxo) THEN Invalid
  ELSE IF TotalIn(tx, utxo) < TotalOut(tx) THEN Invalid
  ELSE [valid |-> TRUE, fee |-> TotalIn(tx, utxo) - TotalOut(tx)]

=============================================================================
