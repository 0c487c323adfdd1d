\* Two branches that overtake each other, one fault, one relayed transaction.
SPECIFICATION FairSpec
CONSTANTS
  b0 = b0
  b1 = b1
  b2 = b2
  b3 = b3
  c2 = c2
  c3 = c3
  t = t
  u = u
  v = v
  w = w
  Root = Root
  Absent = Absent
  Block <- Blocks
  Parent <- Parents
  Height <- Heights
  Weight <- Weights
  Tx <- Txs
  TxsOf <- BlockTxs
  Slot <- Slots
  Relayed <- OneRelayed
  MaxFaults = 1
INVARIANTS TypeOK FollowsNode ImportsOntoChain TxsMatchBlocks
PROPERTIES ConfirmedKept SyncRests
CHECK_DEADLOCK FALSE
