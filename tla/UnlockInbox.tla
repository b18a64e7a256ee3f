----------------------------- MODULE UnlockInbox -----------------------------
(***************************************************************************)
(* contracts/PhilUnlockInbox.sol: tickets that a Starknet verifier sends   *)
(* to L1 by message.  Messages may be consumed in any order, each once, by *)
(* anyone.  An inbox keeps vaults apart; these are the tickets of one.     *)
(***************************************************************************)
EXTENDS Clock

CONSTANTS
    Inboxes,        \* deployed inbox contracts
    L2Tickets       \* bound: inbox -> the tickets its L2 verifier sends

ASSUME TicketAssumption ==
    /\ DOMAIN L2Tickets = Inboxes
    /\ \A i \in Inboxes : \A t \in L2Tickets[i] : t.nonce \in Nat

VARIABLES
    messages,       \* inbox -> L2 messages not consumed yet
    lastNonce,      \* inbox -> lastNonce[vault]
    latestTicket    \* inbox -> _latestTicket[vault]

inboxVars == <<messages, lastNonce, latestTicket>>

AnyCall == [hash |-> 0]  \* constraintsHash 0
NoTicket == [nonce |-> 0, validAfter |-> 0, validUntil |-> 0, scope |-> {},
             constraints |-> AnyCall]

InboxInit ==
    /\ messages = L2Tickets
    /\ lastNonce = [i \in Inboxes |-> 0]
    /\ latestTicket = [i \in Inboxes |-> NoTicket]

EveryNonce(nonce, previous) == nonce > 0
NewNonce(nonce, previous) == nonce > previous

RecordTicket(i, ticket) ==
    /\ ticket \in messages[i]
    /\ NewNonce(ticket.nonce, lastNonce[i])
    /\ messages' = [messages EXCEPT ![i] = @ \ {ticket}]
    /\ lastNonce' = [lastNonce EXCEPT ![i] = ticket.nonce]
    /\ latestTicket' = [latestTicket EXCEPT ![i] = ticket]

InWindow(ticket) ==
    /\ ticket.validAfter = 0 \/ now >= ticket.validAfter
    /\ ticket.validUntil = 0 \/ now <= ticket.validUntil

(* Whatever the order in which the messages arrive, the ticket in force is  *)
(* the newest of those consumed: an older ticket that is still pending can  *)
(* no longer bring back a scope that a newer one took away.                 *)
NewestTicketInForce ==
    \A i \in Inboxes : \A t \in L2Tickets[i] \ messages[i] :
        t.nonce < latestTicket[i].nonce \/ t = latestTicket[i]
=============================================================================
