SPECIFICATION Spec
CONSTANTS
  Accounts = {}
  BlockIds = {}
  SafeMax = 2
  U32Max = 2
  I64Max = 3
  U64Max = 19
  U128Max = 99
  U256Max = 1989
  DecimalCap = 10000
  RefBlockMod = 4
  ExpirationMs = 3
  Alphabet = {"0", "1", "9", "+", "_", "-"}
  MaxLen = 6
  MAX_DECIMAL_LEN = 4
INVARIANTS
  AcceptedReadAlike
  NumeralsAreFaithful
CHECK_DEADLOCK FALSE
