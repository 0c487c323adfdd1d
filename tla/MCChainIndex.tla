---------------------------- MODULE MCChainIndex ----------------------------
(* ChainIndex on a chain with a fork of two blocks against one, and a few   *)
(* transactions: the values that the configurations give to its constants.  *)
EXTENDS ChainIndex, TLC

CONSTANTS b1, b2, b3, c3, c4,   \* blocks: c3 and c4 are a fork of b3
          g, t, u, v,           \* transactions: u replaces t, v is a child of t
          xg, yg, zg, xt,       \* outputs of g and of t
          relay                 \* a handler of relayed transactions

Blocks == {b1, b2, b3, c3, c4}
Parents == (b1 :> Root) @@ (b2 :> b1) @@ (b3 :> b2) @@ (c3 :> b2) @@ (c4 :> c3)
BlockHeights == (Root :> 0) @@ (b1 :> 1) @@ (b2 :> 2) @@ (b3 :> 3) @@ (c3 :> 3) @@ (c4 :> 4)

Txs == {g, t, u, v}
BlockTxs == (b1 :> {g}) @@ (b2 :> {}) @@ (b3 :> {t}) @@ (c3 :> {u}) @@ (c4 :> {})
Coins == {xg, yg, xt}
Minters == (xg :> g) @@ (yg :> g) @@ (xt :> t)
TxSpends == (g :> {}) @@ (t :> {xg, yg}) @@ (u :> {xg}) @@ (v :> {xt})

\* The child of t spends one more output of g.
MoreCoins == Coins \cup {zg}
MoreMinters == Minters @@ (zg :> g)
MoreSpends == (v :> {xt, zg}) @@ TxSpends

OneRelay == {relay}
=============================================================================
