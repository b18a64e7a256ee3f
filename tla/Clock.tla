------------------------------- MODULE Clock -------------------------------
(* One clock for the chain and the server: block.timestamp and the server's *)
(* Date.now() in seconds are both read from `now`.                          *)
EXTENDS Integers, FiniteSets

CONSTANTS
    MaxTime,        \* bound: the last instant
    MaxExpiry       \* bound: the last expiry a record or a proof can carry

ASSUME ClockBounds == MaxTime \in Nat /\ MaxExpiry \in Nat /\ MaxTime <= MaxExpiry

VARIABLE now

Times == 0 .. MaxTime
Expiries == 0 .. MaxExpiry

AdvanceClock == now < MaxTime /\ now' = now + 1
=============================================================================
