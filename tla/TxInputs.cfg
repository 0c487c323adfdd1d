\* Two proposals of a 1-of-2 wallet that spend the same UTXO, with the monitor.
SPECIFICATION Spec
CONSTANTS
  alice = alice
  bob = bob
  carol = carol
  p = p
  q = q
  x = x
  r1 = r1
  r2 = r2
  NoRequest = NoRequest
  Copayer <- TwoCopayers
  M = 1
  TxpId <- TwoProposals
  Creator <- TwoCreators
  InputsOf <- SameInput
  Input <- Inputs
  Request <- TwoRequests
  Monitor <- TwoRequests
  CanExpire = FALSE
  MaxDocs = 2
SYMMETRY ProposalSymmetry
INVARIANTS BroadcastedOnNetwork InputsHeldOnce
CHECK_DEADLOCK FALSE
