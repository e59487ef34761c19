-------------------------------- MODULE Auth --------------------------------
(***************************************************************************)
(* Wallet login (src/hub/auth.rs, generateToken in mutation.rs) and what a *)
(* token is good for (src/hub/graphql/handler.rs, AuthGuard in types.rs).  *)
(*                                                                         *)
(* The hub keeps no record of challenges or tokens: a signed challenge can *)
(* be presented as often as one likes while its timestamp is in the        *)
(* window, and a token is valid by its expiry alone.  A WebSocket session  *)
(* is authenticated once, by its connection_init payload.                  *)
(*                                                                         *)
(* Cryptography is abstracted to what it guarantees: a signature verifies  *)
(* for exactly the message that was signed and recovers its signer, and a  *)
(* token cannot be forged.  Names stand for the strings a client may call  *)
(* its key by (address or uncompressed key, any case, 0x or not), all of   *)
(* the shape validate_public_key accepts.                                  *)
(*                                                                         *)
(* Timestamps are machine integers from -Half to Half - 1 (i64, of which   *)
(* Half is 2^63), and the arithmetic on them wraps, as it does in a        *)
(* release build.  The clock and the window are far from both ends.        *)
(***************************************************************************)
EXTENDS Integers, FiniteSets

CONSTANTS
    Keys,              \* the wallets
    Names,             \* strings that name a key
    Owner,             \* Owner[p]: the wallet that p names
    Chains,            \* chain ids
    HubChain,          \* the chain of this hub, cached at startup
    NoChain,           \* in a message of the format that names no chain
    Timestamps,        \* the timestamps wallets write into challenges
    Half,              \* the integers of a timestamp are -Half..(Half - 1)
    Window,            \* AUTH_TIMESTAMP_WINDOW_SECS
    Lifetime,          \* jwt_expiration_hours * 3600
    Leeway,            \* of jsonwebtoken's default Validation
    Sockets,           \* WebSocket connections
    MaxTime,           \* bound: the last second
    MaxSigned          \* bound: signatures

ASSUME AuthConstants ==
    /\ Owner \in [Names -> Keys]
    /\ HubChain \in Chains /\ NoChain \notin Chains
    /\ Half \in Nat /\ Window \in Nat /\ Lifetime \in Nat
    /\ Leeway \in Nat /\ MaxTime \in Nat /\ MaxSigned \in Nat
    /\ MaxTime + Window < Half
    /\ Timestamps \subseteq -Half..(Half - 1)

VARIABLES
    now,               \* server time, in seconds
    signed,            \* the signatures wallets have made
    tokens,            \* the tokens issued
    open,              \* the sockets past connection_init
    user               \* user[w]: the AuthUser in the data of socket w, if any

vars == <<now, signed, tokens, open, user>>

Message == [chain : Chains \cup {NoChain}, pk : Names, ts : Timestamps]
Signature == [by : Keys, over : Message]
Token == [pk : Names, exp : Nat]

AuthTypeOK ==
    /\ now \in 0..MaxTime
    /\ signed \subseteq Signature
    /\ tokens \subseteq Token
    /\ open \subseteq Sockets
    /\ user \in [Sockets -> SUBSET Names]
    /\ \A w \in Sockets : Cardinality(user[w]) <= (IF w \in open THEN 1 ELSE 0)

Init ==
    /\ now = 0
    /\ signed = {}
    /\ tokens = {}
    /\ open = {}
    /\ user = [w \in Sockets |-> {}]

-----------------------------------------------------------------------------
(***************************************************************************)
(* verify_auth_challenge.                                                  *)
(***************************************************************************)
Wrap(x) == ((x + Half) % (2 * Half)) - Half

\* i64::abs, which leaves the least integer as it is.
WrappingAbs(x) == IF x < 0 THEN Wrap(-x) ELSE x

\* Mutant: the distance is not made positive, as for a timestamp of the past.
InWindowOfThePast(ts) == Wrap(now - ts) <= Window

\* Mutant: the window is closed at its ends.
StrictlyInWindow(ts) == WrappingAbs(Wrap(now - ts)) < Window

InWindow(ts) == WrappingAbs(Wrap(now - ts)) <= Window

\* Mutant: the message of the old format.
MessageWithoutChain(pk, ts) == [chain |-> NoChain, pk |-> pk, ts |-> ts]

AuthChallengeMessage(pk, ts) == [chain |-> HubChain, pk |-> pk, ts |-> ts]

\* The key recovered from a signature is its signer's if the message is the
\* one that was signed, and nobody's otherwise.
VerifyKeyOwnership(pk, message, sig) == sig.over = message /\ sig.by = Owner[pk]

VerifyAuthChallenge(pk, ts, sig) ==
    /\ InWindow(ts)
    /\ VerifyKeyOwnership(pk, AuthChallengeMessage(pk, ts), sig)

\* The clock is read again for the token: a second may have passed.
Expiry(d) == now + d + Lifetime

\* Mutant: expiry is not validated.
AcceptsAnyExpiry(token) == TRUE

\* decode() of extract_auth_user_from_bearer: the token is the hub's own and
\* is not expired, with the leeway of the library.
Accepts(token) == token.exp >= now - Leeway

-----------------------------------------------------------------------------
\* A wallet signs a challenge, for this hub or for another one.
Sign(k, chain, pk, ts) ==
    /\ Cardinality(signed) < MaxSigned
    /\ Owner[pk] = k
    /\ signed' = signed \cup {[by |-> k, over |-> [chain |-> chain, pk |-> pk, ts |-> ts]]}
    /\ UNCHANGED <<now, tokens, open, user>>

\* generateToken: anybody who has a signature may present it, for any name and
\* timestamp, again and again.
GenerateToken(pk, ts, sig) ==
    /\ VerifyAuthChallenge(pk, ts, sig)
    /\ \E d \in {0, 1} : tokens' = tokens \cup {[pk |-> pk, exp |-> Expiry(d)]}
    /\ UNCHANGED <<now, signed, open, user>>

\* Mutant: the data of a socket is kept for the next connection.
CloseSocketOnly(w) ==
    /\ w \in open
    /\ open' = open \ {w}
    /\ UNCHANGED <<now, signed, tokens, user>>

\* connection_init: with a token that is accepted the socket's operations run
\* as its user from now on; with none, or a bad one, as nobody.
ConnectionInit(w) ==
    /\ w \notin open
    /\ open' = open \cup {w}
    /\ \/ \E token \in tokens : Accepts(token) /\ user' = [user EXCEPT ![w] = {token.pk}]
       \/ UNCHANGED user
    /\ UNCHANGED <<now, signed, tokens>>

CloseSocket(w) ==
    /\ w \in open
    /\ open' = open \ {w}
    /\ user' = [user EXCEPT ![w] = {}]
    /\ UNCHANGED <<now, signed, tokens>>

Tick ==
    /\ now < MaxTime
    /\ now' = now + 1
    /\ UNCHANGED <<signed, tokens, open, user>>

Next ==
    \/ \E k \in Keys, chain \in Chains \cup {NoChain}, pk \in Names, ts \in Timestamps :
         Sign(k, chain, pk, ts)
    \/ \E pk \in Names, ts \in Timestamps, sig \in signed : GenerateToken(pk, ts, sig)
    \/ \E w \in Sockets : ConnectionInit(w) \/ CloseSocket(w)
    \/ Tick

Spec == Init /\ [][Next]_vars

-----------------------------------------------------------------------------
\* p can act only after its wallet has signed for this hub and this chain: a
\* challenge signed for another chain is of no use here, nor is one that names
\* another key, and a socket gets its user from a token.
Backed(pk) ==
    \E sig \in signed :
        sig.by = Owner[pk] /\ sig.over.pk = pk /\ sig.over.chain = HubChain

OwnersOnly ==
    /\ \A token \in tokens : Backed(token.pk)
    /\ \A w \in Sockets : \A pk \in user[w] : w \in open /\ Backed(pk)

\* The window check is right for every timestamp but one: an integer half the
\* range away is taken for near, since its distance is the one integer abs()
\* leaves negative (auth.rs:61).
WindowIsExact ==
    \A ts \in -Half..(Half - 1) :
        InWindow(ts) <=> ts \in (now - Window)..(now + Window) \/ ts = now - Half

\* However often a challenge is presented, what it gives runs out: a token is
\* accepted only while some challenge of its key is at most a window, a
\* lifetime and the leeway old (and the second between two clock reads).  One
\* dated half the range back counts as made when it was half the range old.
ProofsRunOut ==
    \A token \in tokens :
        Accepts(token) =>
            \E sig \in signed :
                /\ sig.by = Owner[token.pk]
                /\ \/ now <= sig.over.ts + Window + Lifetime + 1 + Leeway
                   \/ /\ sig.over.ts + Half \in 0..now
                      /\ now <= sig.over.ts + Half + Lifetime + 1 + Leeway

\* A wallet that signs for this hub, and whose clock is right to a window, is
\* let in.
HonestLoginWorks ==
    \A sig \in signed :
        sig.over.chain = HubChain /\ sig.over.ts \in (now - Window)..(now + Window) =>
            VerifyAuthChallenge(sig.over.pk, sig.over.ts, sig)

\* "Rejects when ... timestamp deviates more than AUTH_TIMESTAMP_WINDOW_SECS
\* from now_secs" (auth.rs:46-48), for every timestamp the argument can hold.
WindowHolds ==
    \A sig \in signed :
        VerifyAuthChallenge(sig.over.pk, sig.over.ts, sig) =>
            sig.over.ts \in (now - Window)..(now + Window)
=============================================================================
