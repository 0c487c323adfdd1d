\* Blocks, a reorg and two faults, no relayed transactions.
SPECIFICATION FairSpec
CONSTANTS
  b1 = b1
  b2 = b2
  b3 = b3
  c3 = c3
  c4 = c4
  g = g
  t = t
  u = u
  v = v
  xg = xg
  yg = yg
  zg = zg
  xt = xt
  relay = relay
  Root = Root
  NoTx = NoTx
  Sync = Sync
  Absent = Absent
  Block <- Blocks
  Parent <- Parents
  Height <- BlockHeights
  Tx <- Txs
  TxsOf <- BlockTxs
  Coin <- Coins
  Minter <- Minters
  Spends <- TxSpends
  Relay = {}
  MaxFaults = 2
INVARIANTS TypeOK IndexExact FollowsPeer
PROPERTIES SyncEnds
CHECK_DEADLOCK FALSE
