----------------------------- MODULE AuthSession -----------------------------
(***************************************************************************)
(* server-ts/src/routes/auth.ts over the auth tables of lib/db.ts: a       *)
(* wallet asks for a challenge, signs it and trades it for a bearer token. *)
(* better-sqlite3 is synchronous and /auth/verify never awaits, so a       *)
(* handler is one action; the tables survive a crash.                      *)
(*                                                                         *)
(* Nonces and tokens are random and taken to be fresh: nonce i is the i-th *)
(* drawn, and a token is named by the challenge it was opened with.        *)
(***************************************************************************)
EXTENDS Clock, Sequences

CONSTANTS
    Wallets,        \* addresses that ask for challenges
    ChallengeTtl,   \* CHALLENGE_TTL_SECONDS
    SessionTtl,     \* SESSION_TTL_SECONDS
    MaxChallenges   \* bound: challenges ever issued

ASSUME AuthBounds ==
    /\ ChallengeTtl \in Nat /\ SessionTtl \in Nat /\ MaxChallenges \in Nat
    /\ MaxTime + ChallengeTtl <= MaxExpiry
    /\ MaxTime + SessionTtl <= MaxExpiry

VARIABLES
    challenges,     \* table auth_challenges
    sessions,       \* table auth_sessions
    opened          \* history: opened[n] is the number of sessions nonce n opened

authVars == <<challenges, sessions, opened>>

Nonces == 1 .. MaxChallenges
Challenges == [nonce : Nonces, recipient : Wallets, expires : Expiries,
               consumed : BOOLEAN]
Sessions == [token : Nonces, recipient : Wallets, expires : Expiries]

AuthInit == now = 0 /\ challenges = {} /\ sessions = {} /\ opened = <<>>

LongExpiry == now + ChallengeTtl + SessionTtl
ChallengeExpiry == now + ChallengeTtl

(* POST /auth/challenge *)
CreateAuthChallenge(w) ==
    /\ Len(opened) < MaxChallenges
    /\ challenges' = challenges \cup {[nonce |-> Len(opened) + 1, recipient |-> w,
                                       expires |-> ChallengeExpiry, consumed |-> FALSE]}
    /\ opened' = Append(opened, 0)
    /\ UNCHANGED sessions

LiveChallenges == {c \in challenges : c.expires >= now /\ ~c.consumed}
LiveSessions == {s \in sessions : s.expires >= now}

ReadAuthChallenge(w, n, c) ==
    /\ c \in LiveChallenges /\ c.nonce = n /\ c.recipient = w
    /\ challenges' = LiveChallenges

ConsumeAuthChallenge(w, n, c) ==
    /\ c \in LiveChallenges /\ c.nonce = n /\ c.recipient = w
    /\ challenges' = (LiveChallenges \ {c}) \cup {[c EXCEPT !.consumed = TRUE]}

(* POST /auth/verify with a signature by the wallet the challenge names. *)
CreateAuthSession(w, n) ==
    /\ \E c \in challenges : ConsumeAuthChallenge(w, n, c)
    /\ sessions' = sessions \cup {[token |-> n, recipient |-> w, expires |-> now + SessionTtl]}
    /\ opened' = [opened EXCEPT ![n] = @ + 1]

(* POST /auth/verify with any other signature, or a crash before the        *)
(* session row is written: the challenge is spent all the same.             *)
WasteAuthChallenge(w, n) ==
    /\ \E c \in challenges : ConsumeAuthChallenge(w, n, c)
    /\ UNCHANGED <<sessions, opened>>

(* POST /auth/verify that finds no live challenge only purges the table. *)
RejectAuthChallenge(w, n) ==
    /\ ~ \E c \in LiveChallenges : c.nonce = n /\ c.recipient = w
    /\ challenges' = LiveChallenges
    /\ UNCHANGED <<sessions, opened>>

(* getAuthSession: every lookup purges, and finds s only while s lives. *)
GetAuthSession(s) ==
    /\ s \in LiveSessions
    /\ sessions' = LiveSessions
    /\ UNCHANGED <<challenges, opened>>

RejectAuthToken ==
    /\ sessions' = LiveSessions
    /\ UNCHANGED <<challenges, opened>>

AuthStep ==
    \/ \E w \in Wallets :
        \/ CreateAuthChallenge(w)
        \/ \E n \in Nonces :
            CreateAuthSession(w, n) \/ WasteAuthChallenge(w, n) \/ RejectAuthChallenge(w, n)
    \/ RejectAuthToken

AuthNext ==
    \/ AuthStep /\ UNCHANGED now
    \/ AdvanceClock /\ UNCHANGED authVars

AuthSpec == AuthInit /\ [][AuthNext]_<<now, authVars>>

-----------------------------------------------------------------------------
AuthTypeOK ==
    /\ now \in Times
    /\ challenges \subseteq Challenges
    /\ sessions \subseteq Sessions
    /\ opened \in Seq(Nat) /\ Len(opened) <= MaxChallenges

(* A signed challenge is worth one session: however often, and however      *)
(* late, its signature is posted to /auth/verify, with purges of the table  *)
(* and expiries in between, at most one token is ever handed out for it.    *)
OneSessionPerChallenge == \A n \in DOMAIN opened : opened[n] <= 1

(* A token is opened for the wallet its challenge was issued to, and while  *)
(* the challenge row exists the two stay paired; an open challenge has no   *)
(* token yet.                                                               *)
OpenChallengeHasNoSession ==
    \A c \in challenges :
        /\ ~c.consumed => opened[c.nonce] = 0
        /\ \A s \in sessions : s.token = c.nonce => s.recipient = c.recipient

(* A challenge answered right opens one session, for its own wallet only;  *)
(* answered wrong, expired or cut off by a crash it opens none.            *)
ChallengeOpensItsSession == OneSessionPerChallenge /\ OpenChallengeHasNoSession
=============================================================================
