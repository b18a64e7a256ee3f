-------------------------- MODULE MCPhilMarketplace --------------------------
(* One token; alice mints it, bob owns the marketplace, the contract eve    *)
(* calls back and refuses payments, the artist only collects royalties.     *)
(* Ten percent of 10 is 1, of 5 it is rounded down to nothing.              *)
EXTENDS PhilMarketplace

CONSTANTS alice, bob, eve, artist, token

MCFirstOwner == [t \in {token} |-> alice]
MCFunds == [a \in {alice, bob, eve, artist} |-> CASE a = bob -> 10 [] a = eve -> 5 [] OTHER -> 0]
MCSmallFunds == [a \in {alice, bob, eve, artist} |-> IF a \in {bob, eve} THEN 5 ELSE 0]
====
