SPECIFICATION Spec
CONSTANTS
  alice = alice
  bob = bob
  usdt = usdt
  blk = blk
  Accounts = {alice, bob, usdt}
  BlockIds = {blk}
  SafeMax = 2
  U32Max = 2
  I64Max = 3
  U64Max = 7
  U128Max = 15
  U256Max = 127
  DecimalCap = 1000
  RefBlockMod = 4
  ExpirationMs = 3
  Payloads <- MCFixturePayloads
  Foreign = {}
  Pins <- MCAllPins
  Clock <- MCAllClock
  MaxCompiles = 2
INVARIANTS
  Deterministic
