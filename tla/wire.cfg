SPECIFICATION Spec
CONSTANTS
  alice = alice
  bob = bob
  usdt = usdt
  blk = blk
  Accounts = {alice, bob, usdt}
  BlockIds = {blk}
  KeyHash <- MCKeyHash
  HashPart <- MCHashPart
  SafeMax = 2
  U32Max = 2
  I64Max = 10000
  U64Max = 20001
  U128Max = 20002
  U256Max = 1073741824
  DecimalCap = 2000000000
  RefBlockMod = 4096
  ExpirationMs = 300
  Payloads <- MCTronPayloads
  Foreign = {}
  Pins <- MCTronPins
  Clock <- MCTronClock
  MaxCompiles = 1
INVARIANTS
  NodeExecutesReviewed
  NodeKeepsHash
