\* One proposal of a 2-of-3 wallet, two requests; locks may expire.
SPECIFICATION Spec
CONSTANTS
  alice = alice
  bob = bob
  carol = carol
  p = p
  q = q
  x = x
  r1 = r1
  r2 = r2
  NoRequest = NoRequest
  Copayer <- ThreeCopayers
  M = 2
  TxpId <- OneProposal
  Creator <- OneCreator
  InputsOf <- OneInput
  Input <- Inputs
  Request <- TwoRequests
  Monitor = {}
  CanExpire = TRUE
  MaxDocs = 2
SYMMETRY Symmetry
INVARIANTS TypeOK DocsConsistent NetworkTxRecorded
PROPERTIES ForwardOnly
CHECK_DEADLOCK FALSE
