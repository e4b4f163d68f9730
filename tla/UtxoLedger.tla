----------------------------- MODULE UtxoLedger -----------------------------
(***************************************************************************)
(* The UTXO set as blocks are connected on top of the tip.                 *)
(*                                                                         *)
(* connect_block lives in src/block.rs, which is not part of this source   *)
(* tree: ConnectBlock and its helpers are written from spec sections 4.E,  *)
(* 4.F and 4.H, and call the transaction predicates of TxValidation, which *)
(* are translated from src/src/transaction.rs.                             *)
(*                                                                         *)
(* Blocks come from the block source (spec section 6), an environment that *)
(* offers every block built from a small set of transactions over the      *)
(* current UTXO set: a coinbase claiming some value and at most one        *)
(* transaction spending one or two prevouts (possibly the same one twice,  *)
(* possibly one that never existed) into one output.                       *)
(***************************************************************************)
EXTENDS TxValidation, TLC

CONSTANTS
  INITIAL_SUBSIDY,    \* constants.rs INITIAL_SUBSIDY (scaled)
  HALVING_INTERVAL,   \* constants.rs HALVING_INTERVAL (scaled)
  COINBASE_MATURITY,  \* constants.rs COINBASE_MATURITY (scaled)
  MaxHeight,          \* bound on the chain height explored
  CoinbaseValues,     \* values a coinbase output may claim
  SpendValues,        \* values a spending transaction's output may take
  Bits,               \* header bits a block may carry
  InputCounts,        \* how many prevouts a spending transaction may name (1, 2)
  Phantom             \* a txid no transaction has: a prevout never created

VARIABLES
  utxo,    \* the UtxoSet: OutPoint -> [value, height]
  height,  \* the height of the tip
  blocks   \* the connected blocks, blocks[k] at height k (genesis not included)

vars == <<utxo, height, blocks>>

(***************************************************************************)
(* Transactions and outpoints                                              *)
(***************************************************************************)

(* The txid is the double SHA-256 of the transaction (spec section 3): a   *)
(* hash without collisions, here the transaction itself.                   *)
TxId(tx) == tx

CoinbaseOutPoint == [hash |-> NullHash, index |-> COINBASE_INDEX]

(* A coinbase at height h.  Its script_sig carries the height, so two      *)
(* coinbases never share a txid.                                           *)
CoinbaseTx(h, v) ==
  [version |-> 1, lock_time |-> 0,
   inputs |-> <<[prevout |-> CoinbaseOutPoint, script_sig |-> h]>>,
   outputs |-> <<[value |-> v]>>]

SpendTx(prevouts, v) ==
  [version |-> 1, lock_time |-> 0,
   inputs |-> [i \in DOMAIN prevouts |-> [prevout |-> prevouts[i], script_sig |-> 0]],
   outputs |-> <<[value |-> v]>>]

(* GetBlockSubsidy (economic.rs, not in this tree; spec 4.F): the initial  *)
(* subsidy halved every HALVING_INTERVAL blocks, zero after 64 halvings.   *)
GetBlockSubsidy(h) ==
  LET halvings == h \div HALVING_INTERVAL
  IN IF halvings >= 64 THEN 0 ELSE INITIAL_SUBSIDY \div (2 ^ halvings)

\* Every prevout of the transaction names a different outpoint.
DistinctInputs(tx) ==
  \A i, j \in DOMAIN tx.inputs : i # j => tx.inputs[i].prevout # tx.inputs[j].prevout

\* The outputs of tx as fresh UTXO entries at height h.
NewOutputs(tx, h) ==
  [o \in {[hash |-> TxId(tx), index |-> i - 1] : i \in DOMAIN tx.outputs} |->
     [value |-> tx.outputs[o.index + 1].value, height |-> h]]

(* Spec 4.H step 1 and 2 for one transaction: remove each non-coinbase     *)
(* prevout, insert each output keyed (txid, index).                        *)
UpdateUtxo(tx, us, h) ==
  LET spent == IF IsCoinbase(tx) THEN {}
               ELSE {tx.inputs[i].prevout : i \in DOMAIN tx.inputs}
  IN Restrict(us, DOMAIN us \ spent) @@ NewOutputs(tx, h)

(* Connect the transactions of a block in order (spec 4.E ordering, 4.H):  *)
(* check_transaction, check_tx_inputs against the set as updated by the    *)
(* earlier transactions, then remove and insert.  A removal of a prevout   *)
(* that is no longer there (a duplicate input) fails the block.  The       *)
(* result is the new set and the fees, or ok = FALSE and the set given.    *)
RECURSIVE ApplyTxs(_, _, _, _)
ApplyTxs(txs, us, h, fees) ==
  IF txs = <<>> THEN [ok |-> TRUE, utxo |-> us, fees |-> fees]
  ELSE
    LET tx == Head(txs)
        r  == CheckTxInputs(tx, us)
    IN IF CheckTransaction(tx) /\ r.valid /\ DistinctInputs(tx)
       THEN ApplyTxs(Tail(txs), UpdateUtxo(tx, us, h), h, fees + r.fee)
       ELSE [ok |-> FALSE, utxo |-> us, fees |-> fees]

(* connect_block(block, utxo_set, h) (spec 4.F body rules and 4.H): the    *)
(* first transaction is the only coinbase, every transaction connects, and *)
(* the coinbase claims at most subsidy plus fees.  Result as ApplyTxs.     *)
ConnectBlockResult(block, us, h) ==
  LET r == ApplyTxs(block.txs, us, h, 0)
  IN IF /\ block.txs # <<>>
        /\ IsCoinbase(block.txs[1])
        /\ \A i \in 2..Len(block.txs) : ~IsCoinbase(block.txs[i])
        /\ r.ok
        /\ TotalOut(block.txs[1]) <= GetBlockSubsidy(h) + r.fees
     THEN r
     ELSE [ok |-> FALSE, utxo |-> us, fees |-> 0]

(***************************************************************************)
(* The block source                                                        *)
(***************************************************************************)

\* Prevout sequences over the given outpoints, of a length in InputCounts.
PrevoutSeqs(ops) ==
  (IF 1 \in InputCounts THEN {<<a>> : a \in ops} ELSE {})
  \cup (IF 2 \in InputCounts THEN {<<a, b>> : a, b \in ops} ELSE {})

\* The blocks offered for height h on top of the set us.
CandidateBlocks(us, h) ==
  LET ops == DOMAIN us \cup {[hash |-> Phantom, index |-> 0]}
      cbs == {CoinbaseTx(h, v) : v \in CoinbaseValues}
  IN {[bits |-> b, txs |-> <<cb>>] : b \in Bits, cb \in cbs}
     \cup {[bits |-> b, txs |-> <<cb, SpendTx(p, v)>>] :
             b \in Bits, cb \in cbs, p \in PrevoutSeqs(ops), v \in SpendValues}

(***************************************************************************)
(* The specification                                                       *)
(***************************************************************************)

Init ==
  /\ utxo = [o \in {} |-> [value |-> 0, height |-> 0]]
  /\ height = 0
  /\ blocks = <<>>

(* Connect a block on the tip: the whole of connect_block; a rejected      *)
(* block leaves the state as it was, so only accepted blocks are steps.    *)
ConnectBlock(block) ==
  LET r == ConnectBlockResult(block, utxo, height + 1)
  IN /\ r.ok
     /\ utxo' = r.utxo
     /\ height' = height + 1
     /\ blocks' = Append(blocks, block)

Next == \E block \in CandidateBlocks(utxo, height + 1) : ConnectBlock(block)

Spec == Init /\ [][Next]_vars

\* The explored chain heights.
HeightBound == height <= MaxHeight

(***************************************************************************)
(* Reference definitions and properties                                    *)
(***************************************************************************)

(* The UTXO set of a chain from scratch (spec section 3, lifecycle): every *)
(* output created by a block of the chain, at that block's height, that no *)
(* non-coinbase input of the chain spends.                                 *)
\* The transactions of a chain, each with the height of its block.
ChainTxs(chain) ==
  UNION {{<<chain[k].txs[t], k>> : t \in DOMAIN chain[k].txs} : k \in DOMAIN chain}

Created(chain) ==
  UNION {{<<[hash |-> TxId(p[1]), index |-> i - 1],
            [value |-> p[1].outputs[i].value, height |-> p[2]]>>
          : i \in DOMAIN p[1].outputs}
         : p \in ChainTxs(chain)}

Spent(chain) ==
  UNION {IF IsCoinbase(p[1]) THEN {}
         ELSE {p[1].inputs[i].prevout : i \in DOMAIN p[1].inputs}
         : p \in ChainTxs(chain)}

UtxoOf(chain) ==
  LET live == {c \in Created(chain) : c[1] \notin Spent(chain)}
  IN [o \in {c[1] : c \in live} |-> (CHOOSE c \in live : c[1] = o)[2]]

\* The coins ever issued up to height h.
CumulativeSubsidy(h) == SumFunction([k \in 1..h |-> GetBlockSubsidy(k)])

UtxoValue(us) == SumFunction([o \in DOMAIN us |-> us[o].value])

(* Type invariant; it includes the chain-state rule of spec section 3 that *)
(* no UTXO holds an amount outside [0, MAX_MONEY].                         *)
TypeOK ==
  /\ height \in Nat
  /\ Len(blocks) = height
  /\ \A o \in DOMAIN utxo :
       /\ utxo[o].value \in 0..MAX_MONEY
       /\ utxo[o].height \in 1..height

(* Spec section 3: the value held in the UTXO set never exceeds the        *)
(* subsidy issued so far.  Breaking it takes a transaction that creates    *)
(* value (check_tx_inputs letting outputs exceed inputs, a prevout counted *)
(* twice) or a coinbase over-claiming fees, then spending the proceeds.    *)
SupplyBounded == UtxoValue(utxo) <= CumulativeSubsidy(height)

(* The set connect_block maintains step by step is the UTXO set of the     *)
(* chain recomputed from scratch: every output created and not spent, at   *)
(* the height of its block, and nothing else.                              *)
UtxoMatchesChain == utxo = UtxoOf(blocks)

(* Spec 4.E: a coinbase output is spent only when the spending block is at *)
(* least COINBASE_MATURITY above the coinbase's block.  check_tx_inputs    *)
(* takes the height as _height and never reads it.                         *)
CoinbaseMaturity ==
  [][\A o \in DOMAIN utxo \ DOMAIN utxo' :
       IsCoinbase(o.hash) => height' - utxo[o].height >= COINBASE_MATURITY]_vars

=============================================================================
