CONSTANTS
  MAX_MONEY = 6
  MAX_INPUTS = 1000
  MAX_OUTPUTS = 1000
  MAX_TX_SIZE = 1000000
  NullHash = NullHash
  COINBASE_INDEX = COINBASE_INDEX
  INITIAL_SUBSIDY = 2
  HALVING_INTERVAL = 2
  COINBASE_MATURITY = 2
  MaxHeight = 4
  CoinbaseValues <- MCCoinbaseValues
  SpendValues <- MCSpendValues
  Bits <- MCBits
  InputCounts = {1, 2}
  Phantom = Phantom
SPECIFICATION Spec
CONSTRAINT HeightBound
PROPERTY CoinbaseMaturity
