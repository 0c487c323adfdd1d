---------------------------- MODULE MCWalletLock ----------------------------
(***************************************************************************)
(* WalletLock on three calls: one may crash, two wait with no limit, as    *)
(* publishTx and joinWallet do, and the waiting time of the third runs     *)
(* out, as that of createTx does.                                          *)
(***************************************************************************)
EXTENDS WalletLock, TLC

CONSTANTS c1, c2, c3

Calls == {c1, c2, c3}
Patiences == (c1 :> Forever) @@ (c2 :> Forever) @@ (c3 :> 0)
Crashing == {c1}
=============================================================================
