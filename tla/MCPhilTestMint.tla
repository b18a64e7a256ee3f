--------------------------- MODULE MCPhilTestMint ---------------------------
(* A small instance of PhilTestMint: one deployer who is also the first     *)
(* signer, one later owner, one later signer, one wallet, its smart account *)
(* and address(0) as destinations, one valid and one invalid traits.        *)
EXTENDS PhilTestMint

CONSTANTS deployer, nextOwner, nextKey, mint, factory, wallet, account, zero,
          goodTraits, badTraits, createHash

MCUsers == {deployer, nextOwner}
MCSigners == {deployer, nextKey}
MCConsumers == {mint, factory}
MCDestinations == {account, zero}
MCTraits == {goodTraits, badTraits}

(* Three mint claims that differ only in expiry (one never expires), one to *)
(* address(0), one with traits the contract refuses, one account creation.  *)
MCSignable ==
    {[kind |-> "mint", recipient |-> wallet, mintTo |-> account, traits |-> goodTraits, expiry |-> e] :
        e \in {0, 1, 2}}
    \cup {[kind |-> "mint", recipient |-> wallet, mintTo |-> zero, traits |-> goodTraits, expiry |-> 0],
          [kind |-> "mint", recipient |-> wallet, mintTo |-> account, traits |-> badTraits, expiry |-> 0],
          [kind |-> "action", recipient |-> wallet, actionType |-> 2, actionHash |-> createHash, expiry |-> 2]}
=============================================================================
