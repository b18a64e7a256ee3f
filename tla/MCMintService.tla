---------------------------- MODULE MCMintService ----------------------------
(* One allowlisted wallet, one outsider, up to two attestation keys, one    *)
(* traits value the contract accepts and one only the request schema does.  *)
EXTENDS MintService, TLC

CONSTANTS nobody, deployer, nextKey, mint, factory, wallet, outsider, account,
          otherAccount, zero, goodTraits, badTraits, createHash

MCSigners == {deployer, nextKey}
MCConsumers == {mint, factory}
MCRecipients == {wallet, outsider}
MCDestinations == {account, otherAccount}
MCTraits == {goodTraits, badTraits}
MCAccounts == [w \in {wallet, outsider} |-> IF w = wallet THEN account ELSE otherAccount]

(* The only claims signed outside /request-mint's mint path. *)
MCSignable ==
    {[kind |-> "action", recipient |-> wallet, actionType |-> 2,
      actionHash |-> createHash, expiry |-> 0]}

HandlerSymmetry == Permutations(Handlers)

(* A reachable state to start the concurrent run from: the gate set up, the *)
(* server booted on an empty drop, both wallets logged in.                  *)
LoggedIn ==
    /\ now = 0
    /\ owner = deployer /\ allowlistSigner = deployer
    /\ authorizedCaller = {mint, factory}
    /\ nullifierUsed = {} /\ attested = {}
    /\ MintInit
    /\ challenges = {} /\ opened = <<1, 1>>
    /\ sessions = {[token |-> 1, recipient |-> wallet, expires |-> 2],
                   [token |-> 2, recipient |-> outsider, expires |-> 0]}
    /\ up = TRUE /\ backendKey = allowlistSigner
    /\ remaining = NoRow /\ issued = {}
    /\ handler = [h \in Handlers |-> Idle]
    /\ sponsorships = {} /\ granted = {}
LoggedInSpec == LoggedIn /\ [][ServiceNext]_allVars
=============================================================================
