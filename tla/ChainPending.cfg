\* As ChainMempool, where the child spends an output of the block too: refuted.
SPECIFICATION Spec
CONSTANTS
  b1 = b1
  b2 = b2
  b3 = b3
  c3 = c3
  c4 = c4
  g = g
  t = t
  u = u
  v = v
  xg = xg
  yg = yg
  zg = zg
  xt = xt
  relay = relay
  Root = Root
  NoTx = NoTx
  Sync = Sync
  Absent = Absent
  Block <- Blocks
  Parent <- Parents
  Height <- BlockHeights
  Tx <- Txs
  TxsOf <- BlockTxs
  Coin <- MoreCoins
  Minter <- MoreMinters
  Spends <- MoreSpends
  Relay <- OneRelay
  MaxFaults = 0
INVARIANTS PendingIsInMempool
CHECK_DEADLOCK FALSE
