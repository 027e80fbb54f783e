\* Ten basis points instead of ten thousand; every remainder occurs.
CONSTANTS
  r1 = r1
  r2 = r2
  r3 = r3
  r4 = r4
  TotalBps = 10
  Splits <- AllSplits
  Amounts <- AllAmounts
SPECIFICATION Spec
INVARIANTS NoStroopLost HardestRoundedFirst LargerShareNeverLess
CHECK_DEADLOCK FALSE
