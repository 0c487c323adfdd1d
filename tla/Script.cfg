\* Conditionals of five instructions, standard outputs, pairs of sets of flags.
SPECIFICATION Spec
CONSTANTS
  Spends <- MCSpends
  Code <- MCCode
  MaxOps = 8
  MaxStack = 10
  MaxNum = 100
  MaxWide = 200
  LocktimeThreshold = 50
  MaxVerifications = 2
INVARIANTS TypeOK BranchesMatch MultisigExact StandardExact FlagsNarrow
CHECK_DEADLOCK FALSE
