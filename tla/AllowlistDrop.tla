---------------------------- MODULE AllowlistDrop ----------------------------
(***************************************************************************)
(* What a drop promises, whatever the server, the paymaster and the chain  *)
(* do in between: of Slots allowlist slots, each is granted at most once,  *)
(* a granted slot is redeemed by at most one token, and at most one gas    *)
(* sponsorship is paid for it.  A slot may be lost (granted, never         *)
(* redeemed); it is never given back and never used twice.                 *)
(***************************************************************************)
EXTENDS Naturals

CONSTANT Slots

VARIABLES granted, redeemed, sponsored

dropVars == <<granted, redeemed, sponsored>>

DropInit == granted = 0 /\ redeemed = 0 /\ sponsored = 0

Grant ==
    /\ granted < Slots
    /\ granted' = granted + 1
    /\ UNCHANGED <<redeemed, sponsored>>

Redeem ==
    /\ redeemed < granted
    /\ redeemed' = redeemed + 1
    /\ UNCHANGED <<granted, sponsored>>

Sponsor ==
    /\ sponsored < granted
    /\ sponsored' = sponsored + 1
    /\ UNCHANGED <<granted, redeemed>>

DropNext == Grant \/ Redeem \/ Sponsor
DropSpec == DropInit /\ [][DropNext]_dropVars
=============================================================================
