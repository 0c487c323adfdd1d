\* Signatures of every form, under every subset of the flags about them.
SPECIFICATION Spec
CONSTANTS
  Spends <- EncodingSpends
  Code <- MCCode
  MaxOps = 8
  MaxStack = 10
  MaxNum = 100
  MaxWide = 200
  LocktimeThreshold = 50
  MaxVerifications = 2
INVARIANT LowSNarrows
CHECK_DEADLOCK FALSE
