----------------------------- MODULE MCEvmChain -----------------------------
(* EvmChain on a chain with a fork of two blocks against two, and four      *)
(* transactions: the values that the configuration gives to its constants.  *)
EXTENDS EvmChain, TLC

CONSTANTS b0, b1, b2, b3, c2, c3,   \* blocks: the fork is after b1
          t, u, v, w    \* transactions: t and u of one nonce, w on both branches

Blocks == {b0, b1, b2, b3, c2, c3}
Parents == (b0 :> Root) @@ (b1 :> b0) @@ (b2 :> b1) @@ (b3 :> b2)
           @@ (c2 :> b1) @@ (c3 :> c2)
Heights == (b0 :> 0) @@ (b1 :> 1) @@ (b2 :> 2) @@ (b3 :> 3)
           @@ (c2 :> 2) @@ (c3 :> 3)
Weights == (b0 :> 0) @@ (b1 :> 1) @@ (b2 :> 2) @@ (c2 :> 3) @@ (b3 :> 4)
           @@ (c3 :> 5)
Txs == {t, u, v, w}
BlockTxs == (b0 :> {}) @@ (b1 :> {v}) @@ (b2 :> {t, w}) @@ (b3 :> {})
            @@ (c2 :> {}) @@ (c3 :> {u, w})
Slots == (t :> 1) @@ (u :> 1) @@ (v :> 2) @@ (w :> 3)
OneRelayed == {t}
=============================================================================
