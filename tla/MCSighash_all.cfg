CONSTANTS
  Txs <- MCTxs
  TypeBytes = {1}
SPECIFICATION Spec
INVARIANT SignatureBindsCovered
