SPECIFICATION Spec
CONSTANTS
  Accounts = {}
  BlockIds = {}
  SafeMax = 2
  U32Max = 2
  I64Max = 3
  U64Max = 7
  U128Max = 15
  U256Max = 127
  DecimalCap = 1000
  RefBlockMod = 4
  ExpirationMs = 3
  Bs58 <- MCBs58
  Alphabet = {"0", "a", "A", "x", "wide"}
  MaxLen = 7
  Selector <- MCSelector
  PadLen = 1
  HashLen = 2
  AmountLen = 2
  Base58Len = 3
INVARIANTS
  SlicesInRange
  CalldataReadAlike
  CalldataIsFaithful
CHECK_DEADLOCK FALSE
