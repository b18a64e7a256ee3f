--------------------------- MODULE MCCadenceMint ---------------------------
(* A small instance of CadenceMint: one deployer who is the first owner and *)
(* the signer, one later owner, two wallets, two versions, two tokens.      *)
EXTENDS CadenceMint

CONSTANTS deployer, nextOwner, cadence, factory, alice, bob, createHash

MCUsers == {deployer, nextOwner}
MCSigners == {deployer}
MCConsumers == {cadence, factory}
MCRecipients == {alice, bob}
MCActionHashes == CadenceHashes \cup {createHash}

Signed(r, t, v, reserve, e) ==
    [kind |-> "action", recipient |-> r, actionType |-> IF reserve THEN 5 ELSE 4,
     actionHash |-> [minter |-> r, tokenId |-> t, versionId |-> v, reserve |-> reserve],
     expiry |-> e]

(* Claims for the first token (one of them twice, with different expiries), *)
(* for the second in either version and either way, for one past the supply *)
(* and for an account creation.                                             *)
MCSignable ==
    {Signed(alice, 0, 0, FALSE, 0), Signed(alice, 0, 0, FALSE, 1),
     Signed(bob, 0, 0, TRUE, 0),
     Signed(bob, 1, 1, FALSE, 0), Signed(bob, 1, 0, TRUE, 2),
     Signed(alice, 2, 1, FALSE, 0),
     [kind |-> "action", recipient |-> alice, actionType |-> 2,
      actionHash |-> createHash, expiry |-> 0]}
=============================================================================
