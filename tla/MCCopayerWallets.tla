-------------------------- MODULE MCCopayerWallets --------------------------
(* CopayerWallets on a shared wallet of two copayers: the values that the   *)
(* configuration gives to its constants.                                    *)
EXTENDS CopayerWallets, TLC

CONSTANTS w,                     \* wallets
          alice, bob,            \* copayers
          creation, joinA, joinB, \* requests
          addr1, key, scan

Call(k, u, c) == [kind |-> k, wallet |-> u, copayer |-> c]

\* A wallet of two copayers, from its creation to its addresses.
SharedRequests == {creation, joinA, joinB, addr1, key, scan}
SharedOps == [r \in SharedRequests |->
    CASE r = creation -> Call("create", w, alice)
      [] r = joinA -> Call("join", w, alice)
      [] r = joinB -> Call("join", w, bob)
      [] r = addr1 -> Call("address", w, alice)
      [] r = key -> Call("access", w, bob)
      [] r = scan -> Call("scan", w, bob)]

OneWalletSet == {w}
TwoCopayers == {alice, bob}
NoWallet == {}
Crashing == {joinB, scan}
FirstUsed == {0, 2}
PowerSteps == <<2, 1>>

\* At most one process stops in a behaviour.
OneStops == Cardinality(down) <= 1
=============================================================================
