------------------------------ MODULE AdminAuth ------------------------------
(***************************************************************************)
(* The tokens of the panel as the server keeps them (adminAuth.js, the     *)
(* login and logout of handlers/admin.js): a token says when it expires,   *)
(* in whole seconds, and logging out stores a row revoked:<jti> that has   *)
(* an expiry of its own, in milliseconds (botState.js).                    *)
(*                                                                         *)
(* The clock runs in halves of a second, the least that tells a second     *)
(* from a moment within it. Signatures, roles, TOKEN_VERSION and passwords *)
(* are those that pass; the counter of failed logins is left out.          *)
(***************************************************************************)
EXTENDS Integers

CONSTANTS
    Tokens,     \* tokens there will ever be
    NoToken,
    Life,       \* a token's seconds: 12 * 3600
    MinTTL,     \* the least seconds of a revocation: 60
    Leaps,      \* how far the clock goes between two things that happen
    MaxTime     \* bound on the clock, in halves of a second

ASSUME AuthAssumption ==
    /\ NoToken \notin Tokens
    /\ {Life, MinTTL, MaxTime} \subseteq Nat
    /\ Leaps \subseteq Nat \ {0}

VARIABLES
    now,        \* Date.now(), in halves of a second
    expiry,     \* expiry[t]: payload.exp of an issued token, else -1
    revoked,    \* revoked[t]: expires_at of its row in bot_state, else 0
    loggedOut   \* the tokens whose revocation has been stored

authVars == <<now, expiry, revoked, loggedOut>>

-----------------------------------------------------------------------------
\* Math.floor(Date.now() / 1000)
NowSec == now \div 2

Issued(t) == expiry[t] >= 0

\* A token was issued just now, or none (NoToken).
AuthInit(first) ==
    /\ now = 0
    /\ expiry = [t \in Tokens |-> IF t = first THEN Life ELSE -1]
    /\ revoked = [t \in Tokens |-> 0]
    /\ loggedOut = {}

\* signToken.
Issue(t) ==
    /\ ~Issued(t)
    /\ expiry' = [expiry EXCEPT ![t] = NowSec + Life]
    /\ UNCHANGED <<now, revoked, loggedOut>>

\* verifyToken: the token still counts in the second that it expires in.
Verified(t) == Issued(t) /\ NowSec <= expiry[t]

\* getBotState: a row is gone at the moment it expires; cleanup only removes rows
\* that are gone in this sense already.
Revoked(t) == revoked[t] > now

\* requireAdmin: a row that cannot be read counts as none (read is FALSE).
Admitted(t, read) == t # NoToken /\ Verified(t) /\ ~(read /\ Revoked(t))

\* Mutant for LoggedOutStaysOut: the bounds of the revocation swapped.
RevocationSecondsMin(t) == IF expiry[t] - NowSec < MinTTL THEN expiry[t] - NowSec ELSE MinTTL

\* Math.max(60, exp - nowSec)
RevocationSeconds(t) == IF expiry[t] - NowSec > MinTTL THEN expiry[t] - NowSec ELSE MinTTL

\* POST /logout of a token that is admitted; setBotState.
Revoke(t) ==
    /\ revoked' = [revoked EXCEPT ![t] = now + 2 * RevocationSeconds(t)]
    /\ loggedOut' = loggedOut \cup {t}
    /\ UNCHANGED <<now, expiry>>

TimePasses ==
    /\ \E d \in Leaps : now + d <= MaxTime /\ now' = now + d
    /\ UNCHANGED <<expiry, revoked, loggedOut>>

AuthTypeOK ==
    /\ now \in 0..MaxTime
    /\ expiry \in [Tokens -> Int]
    /\ revoked \in [Tokens -> Nat]
    /\ loggedOut \subseteq Tokens
=============================================================================
