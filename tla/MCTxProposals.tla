--------------------------- MODULE MCTxProposals ---------------------------
(* TxProposals on small wallets: the values that the configurations give to *)
(* its constants.                                                           *)
EXTENDS TxProposals, TLC

CONSTANTS alice, bob, carol,   \* copayers
          p, q,                \* proposal ids
          x,                   \* a UTXO
          r1, r2               \* requests

ThreeCopayers == {alice, bob, carol}
OneProposal == {p}
OneCreator == p :> alice
OneInput == p :> {x}

TwoCopayers == {alice, bob}
TwoProposals == {p, q}
TwoCreators == (p :> alice) @@ (q :> alice)
SameInput == (p :> {x}) @@ (q :> {x})

Inputs == {x}
TwoRequests == {r1, r2}

\* Requests are interchangeable, and so are the copayers that create nothing.
Symmetry == Permutations(TwoRequests) \cup Permutations({bob, carol})
ProposalSymmetry == Permutations(TwoRequests) \cup Permutations(TwoProposals)
=============================================================================
