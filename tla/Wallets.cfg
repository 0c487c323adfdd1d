\* A wallet of two copayers: two joins, an address, a key and a scan.
SPECIFICATION Spec
CONSTANTS
  w = w
  alice = alice
  bob = bob
  creation = creation
  joinA = joinA
  joinB = joinB
  addr1 = addr1
  key = key
  scan = scan
  NoRequest = NoRequest
  Wallet <- OneWalletSet
  Copayer <- TwoCopayers
  N = 2
  Single <- NoWallet
  Request <- SharedRequests
  Op <- SharedOps
  CanCrash <- Crashing
  Gap = 1
  ScanGap = 2
  Steps <- PowerSteps
  Used <- FirstUsed
  MaxKeys = 2
CONSTRAINT OneStops
INVARIANTS TypeOK FullRing NoHole LookupMatches
PROPERTY CopayersKept
CHECK_DEADLOCK FALSE
