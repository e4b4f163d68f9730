CONSTANTS
  Txs <- MCTxs
  TypeBytes = {129, 130, 131}
SPECIFICATION Spec
INVARIANTS TypeOK SignatureBindsCovered
