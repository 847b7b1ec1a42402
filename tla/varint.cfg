SPECIFICATION FairSpec
CONSTANTS
  Base = 128
  Top = 1073741824
  Inputs = {0, 1, 127, 128, 255, 16383, 16384, 2097151, 2097152, 268435455, 268435456, 1073741823}
  MaxCalls = 3
  MaxBytes = 16
INVARIANTS
  VarintInv
  ReadsWhatWasSent
  Minimal
PROPERTY
  LoopsEnd
CHECK_DEADLOCK FALSE
