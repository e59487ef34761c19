----------------------------- MODULE AuthProofs -----------------------------
(***************************************************************************)
(* The login of Auth, proved for every set of wallets, names, chains and   *)
(* timestamps: signatures are never withdrawn, so what backs a token when  *)
(* it is issued backs it, and every session it opens, for ever.            *)
(***************************************************************************)
EXTENDS Auth, FiniteSetTheorems, TLAPS

BackedInv ==
    /\ user \in [Sockets -> SUBSET Names]
    /\ \A token \in tokens : token.pk \in Names
    /\ OwnersOnly

\* A signature more backs nobody less.
LEMMA BackedStays ==
    ASSUME NEW pk, Backed(pk), signed \subseteq signed'
    PROVE  Backed(pk)'
BY DEF Backed

\* No step of the hub lets anybody in who is not backed by a signature.
LEMMA BackedStep == BackedInv /\ [Next]_vars => BackedInv'
<1> SUFFICES ASSUME BackedInv, [Next]_vars PROVE BackedInv'
  OBVIOUS
<1> USE DEF BackedInv, OwnersOnly
<1>1. ASSUME NEW k \in Keys, NEW chain \in Chains \cup {NoChain}, NEW pk \in Names,
             NEW ts \in Timestamps, Sign(k, chain, pk, ts)
      PROVE  BackedInv'
  BY <1>1, BackedStays DEF Sign
<1>2. ASSUME NEW pk \in Names, NEW ts \in Timestamps, NEW sig \in signed,
             GenerateToken(pk, ts, sig)
      PROVE  BackedInv'
  <2>1. Backed(pk)
    BY <1>2 DEF GenerateToken, VerifyAuthChallenge, VerifyKeyOwnership,
                AuthChallengeMessage, Backed
  <2>2. \A token \in tokens' : token \in tokens \/ token.pk = pk
    BY <1>2 DEF GenerateToken
  <2>3. signed' = signed /\ user' = user /\ open' = open
    BY <1>2 DEF GenerateToken
  <2> QED
    BY <2>1, <2>2, <2>3, BackedStays
<1>3. ASSUME NEW w \in Sockets, ConnectionInit(w) PROVE BackedInv'
  <2>1. signed' = signed /\ tokens' = tokens /\ open' = open \cup {w}
    BY <1>3 DEF ConnectionInit
  <2>2. \/ user' = user
        \/ \E token \in tokens : user' = [user EXCEPT ![w] = {token.pk}] /\ token.pk \in Names
    BY <1>3 DEF ConnectionInit
  <2> QED
    BY <2>1, <2>2, BackedStays
<1>4. ASSUME NEW w \in Sockets, CloseSocket(w) PROVE BackedInv'
  BY <1>4, BackedStays DEF CloseSocket
<1>5. CASE Tick
  BY <1>5, BackedStays DEF Tick
<1>6. CASE UNCHANGED vars
  BY <1>6, BackedStays DEF vars
<1> QED
  BY <1>1, <1>2, <1>3, <1>4, <1>5, <1>6 DEF Next

\* generateToken issues tokens to owners only, and a WebSocket session has its
\* user from such a token (auth.rs:50-74, handler.rs:78-88).
THEOREM OnlyOwnersAct == Spec => []OwnersOnly
<1>1. Init => BackedInv
  BY DEF Init, BackedInv, OwnersOnly
<1>2. BackedInv => OwnersOnly
  BY DEF BackedInv
<1> QED
  BY <1>1, <1>2, BackedStep, PTL DEF Spec
-----------------------------------------------------------------------------
(***************************************************************************)
(* The window check, for every integer a timestamp can be.  The distance   *)
(* of the clock from it may leave the integers by at most half their range *)
(* and then comes back at the other end.                                   *)
(***************************************************************************)
\* Integers stay as they are; those below the least one come back at the top.
LEMMA WrapsRound ==
    /\ \A x \in -Half..(Half - 1) : Wrap(x) = x
    /\ \A x \in Half..(3 * Half - 1) : Wrap(x) = x - 2 * Half
<1>1. Half \in Nat
  BY AuthConstants
<1>2. ASSUME NEW x \in -Half..(Half - 1) PROVE Wrap(x) = x
  <2>1. x + Half \in 0..(2 * Half - 1)
    BY <1>1
  <2>2. (x + Half) % (2 * Half) = x + Half
    BY <2>1, <1>1
  <2> QED
    BY <2>2, <1>1 DEF Wrap
<1>3. ASSUME NEW x \in Half..(3 * Half - 1) PROVE Wrap(x) = x - 2 * Half
  <2>1. x - Half \in 0..(2 * Half - 1)
    BY <1>1
  <2>2. (x + Half) % (2 * Half) = x - Half
    BY <2>1, <1>1
  <2> QED
    BY <2>2, <1>1 DEF Wrap
<1> QED
  BY <1>2, <1>3

\* The distance of a clock from a timestamp, as the code computes it.
LEMMA Distances ==
    ASSUME NEW t \in 0..MaxTime, NEW ts \in -Half..(Half - 1)
    PROVE  /\ ts > t - Half /\ ts <= t => WrappingAbs(Wrap(t - ts)) = t - ts
           /\ ts > t => WrappingAbs(Wrap(t - ts)) = ts - t
           /\ ts = t - Half => WrappingAbs(Wrap(t - ts)) = -Half
           /\ ts < t - Half => WrappingAbs(Wrap(t - ts)) = 2 * Half - (t - ts)
<1>1. Half \in Nat /\ t \in 0..(Half - 1) /\ ts \in Int
  BY AuthConstants
<1>2. CASE ts > t - Half /\ ts <= t
  <2>1. t - ts \in 0..(Half - 1)
    BY <1>1, <1>2
  <2> QED
    BY <1>1, <1>2, <2>1, WrapsRound DEF WrappingAbs
<1>3. CASE ts > t
  <2>1. t - ts \in -(Half - 1)..(-1) /\ -(t - ts) \in 1..(Half - 1)
    BY <1>1, <1>3
  <2>2. Wrap(t - ts) = t - ts /\ Wrap(-(t - ts)) = ts - t
    BY <1>1, <2>1, WrapsRound
  <2> QED
    BY <1>1, <1>3, <2>1, <2>2 DEF WrappingAbs
<1>4. CASE ts = t - Half
  <2>1. t - ts = Half /\ Half \in Half..(3 * Half - 1) /\ -(-Half) = Half /\ -Half < 0
    BY <1>1, <1>4
  <2>2. Wrap(Half) = -Half
    BY <1>1, <2>1, WrapsRound
  <2> QED
    BY <1>1, <1>4, <2>1, <2>2 DEF WrappingAbs
<1>5. CASE ts < t - Half
  <2>1. t - ts \in (Half + 1)..(2 * Half - 1)
    BY <1>1, <1>5
  <2> DEFINE d == t - ts - 2 * Half
  <2>2. Wrap(t - ts) = d
    BY <1>1, <2>1, WrapsRound
  <2>3. d < 0 /\ -d = 2 * Half - (t - ts) /\ -d \in 1..(Half - 1)
    BY <1>1, <2>1
  <2> HIDE DEF d
  <2>4. Wrap(-d) = -d
    BY <1>1, <2>3, WrapsRound
  <2> QED
    BY <1>1, <1>5, <2>2, <2>3, <2>4 DEF WrappingAbs
<1> QED
  BY <1>1, <1>2, <1>3, <1>4, <1>5

\* What passes the window check is in the window, or at the far end.
LEMMA WindowIsThat ==
    ASSUME now \in 0..MaxTime, NEW ts \in -Half..(Half - 1)
    PROVE  InWindow(ts) <=> ts \in (now - Window)..(now + Window) \/ ts = now - Half
<1>1. /\ Half \in Nat /\ Window \in Nat /\ MaxTime \in Nat /\ now \in Nat /\ ts \in Int
      /\ now + Window < Half
  BY AuthConstants
<1> DEFINE d == WrappingAbs(Wrap(now - ts))
<1>2. /\ ts > now - Half /\ ts <= now => d = now - ts
      /\ ts > now => d = ts - now
      /\ ts = now - Half => d = -Half
      /\ ts < now - Half => d = 2 * Half - (now - ts)
  BY Distances
<1>3. InWindow(ts) <=> d <= Window
  BY DEF InWindow
<1>4. -Half <= ts
  OBVIOUS
<1> HIDE DEF d
<1> QED
  BY <1>1, <1>2, <1>3, <1>4
-----------------------------------------------------------------------------
(***************************************************************************)
(* The end of what a proof of ownership gives.                             *)
(***************************************************************************)
\* The token was issued while the check let sig pass, or a second later.
Covers(sig, token) ==
    /\ sig.by = Owner[token.pk]
    /\ \/ token.exp <= sig.over.ts + Window + Lifetime + 1
       \/ /\ sig.over.ts + Half \in 0..now
          /\ token.exp <= sig.over.ts + Half + Lifetime + 1

CoverInv ==
    /\ now \in 0..MaxTime
    /\ \A sig \in signed : sig.over.ts \in Timestamps
    /\ \A token \in tokens :
         token.exp \in Int /\ \E sig \in signed : Covers(sig, token)

\* A token is issued on a signature that is still in the window, and covers it.
LEMMA CoverStep == CoverInv /\ [Next]_vars => CoverInv'
<1> SUFFICES ASSUME CoverInv, [Next]_vars PROVE CoverInv'
  OBVIOUS
<1> USE DEF CoverInv
<1>1. ASSUME NEW k \in Keys, NEW chain \in Chains \cup {NoChain}, NEW pk \in Names,
             NEW ts \in Timestamps, Sign(k, chain, pk, ts)
      PROVE  CoverInv'
  BY <1>1 DEF Sign, Covers
<1>2. ASSUME NEW pk \in Names, NEW ts \in Timestamps, NEW sig \in signed,
             GenerateToken(pk, ts, sig)
      PROVE  CoverInv'
  <2>1. PICK d \in {0, 1} : tokens' = tokens \cup {[pk |-> pk, exp |-> Expiry(d)]}
    BY <1>2 DEF GenerateToken
  <2>2. sig.by = Owner[pk] /\ sig.over.ts = ts
    BY <1>2 DEF GenerateToken, VerifyAuthChallenge, VerifyKeyOwnership,
                AuthChallengeMessage
  <2>3. ts \in -Half..(Half - 1) /\ ts \in Int /\ now \in Nat
    BY AuthConstants
  <2>4. ts \in (now - Window)..(now + Window) \/ ts = now - Half
    BY <1>2, <2>3, WindowIsThat DEF GenerateToken, VerifyAuthChallenge
  <2>5. /\ Expiry(d) \in Int
        /\ \/ Expiry(d) <= ts + Window + Lifetime + 1
           \/ ts + Half \in 0..now /\ Expiry(d) <= ts + Half + Lifetime + 1
    BY <2>1, <2>3, <2>4, AuthConstants DEF Expiry
  <2>7. Covers(sig, [pk |-> pk, exp |-> Expiry(d)])
    BY <2>2, <2>5 DEF Covers
  <2>6. signed' = signed /\ now' = now
    BY <1>2 DEF GenerateToken
  <2> QED
    BY <2>1, <2>5, <2>6, <2>7 DEF Covers
<1>3. ASSUME NEW w \in Sockets, ConnectionInit(w) \/ CloseSocket(w) PROVE CoverInv'
  BY <1>3 DEF ConnectionInit, CloseSocket, Covers
<1>4. CASE Tick
  BY <1>4, AuthConstants DEF Tick, Covers
<1>5. CASE UNCHANGED vars
  BY <1>5 DEF vars, Covers
<1> QED
  BY <1>1, <1>2, <1>3, <1>4, <1>5 DEF Next

\* However often a challenge is presented, the tokens it yields die a window,
\* a lifetime and the leeway after its timestamp, or after half the range of
\* the integers if it was dated as far back (auth.rs:61, 83-88).
THEOREM ReplayIsBounded == Spec => []ProofsRunOut
<1>1. Init => CoverInv
  BY AuthConstants DEF Init, CoverInv
<1>2. CoverInv => ProofsRunOut
  <2> SUFFICES ASSUME CoverInv, NEW token \in tokens, Accepts(token)
               PROVE  \E sig \in signed :
                        /\ sig.by = Owner[token.pk]
                        /\ \/ now <= sig.over.ts + Window + Lifetime + 1 + Leeway
                           \/ /\ sig.over.ts + Half \in 0..now
                              /\ now <= sig.over.ts + Half + Lifetime + 1 + Leeway
    BY DEF ProofsRunOut
  <2>1. PICK sig \in signed : Covers(sig, token)
    BY DEF CoverInv
  <2>2. sig.over.ts \in Int /\ token.exp \in Int /\ now \in Int
    <3>1. sig.over.ts \in Timestamps /\ token.exp \in Int /\ now \in 0..MaxTime
      BY DEF CoverInv
    <3>2. \A ts \in Timestamps : ts \in Int
      BY AuthConstants
    <3>3. \A t \in 0..MaxTime : t \in Int
      OBVIOUS
    <3> QED
      BY <3>1, <3>2, <3>3
  <2>3. \/ now <= sig.over.ts + Window + Lifetime + 1 + Leeway
        \/ /\ sig.over.ts + Half \in 0..now
           /\ now <= sig.over.ts + Half + Lifetime + 1 + Leeway
    BY <2>1, <2>2, AuthConstants DEF Covers, Accepts
  <2> QED
    BY <2>1, <2>3 DEF Covers
<1>3. CoverInv /\ [Next]_vars => CoverInv'
  BY CoverStep
<1> QED
  BY <1>1, <1>2, <1>3, PTL DEF Spec
-----------------------------------------------------------------------------
(***************************************************************************)
(* The types, and with them the login of an honest wallet: what it signed  *)
(* for this hub verifies while the clocks agree to a window, whatever else *)
(* has happened.                                                           *)
(***************************************************************************)
\* Every signature is one a wallet makes for a name of its own.
SignedInv == signed \subseteq Signature /\ \A sig \in signed : sig.by = Owner[sig.over.pk]

TypeInv ==
    /\ now \in 0..MaxTime
    /\ SignedInv
    /\ tokens \subseteq Token
    /\ open \subseteq Sockets
    /\ user \in [Sockets -> SUBSET Names]
    /\ \A w \in Sockets : user[w] # {} => w \in open /\ \E pk \in Names : user[w] = {pk}

\* A session has one user, and none when it is closed.
LEMMA TypeStep == TypeInv /\ [Next]_vars => TypeInv'
<1> SUFFICES ASSUME TypeInv, [Next]_vars PROVE TypeInv'
  OBVIOUS
<1> USE DEF TypeInv
<1>1. ASSUME NEW k \in Keys, NEW chain \in Chains \cup {NoChain}, NEW pk \in Names,
             NEW ts \in Timestamps, Sign(k, chain, pk, ts)
      PROVE  TypeInv'
  <2> DEFINE sig == [by |-> k, over |-> [chain |-> chain, pk |-> pk, ts |-> ts]]
  <2>1. sig \in Signature /\ sig.by = Owner[sig.over.pk]
    BY <1>1 DEF Sign, Signature, Message
  <2>2. signed' = signed \cup {sig} /\ UNCHANGED <<now, tokens, open, user>>
    BY <1>1 DEF Sign
  <2> HIDE DEF sig
  <2> QED
    BY <2>1, <2>2 DEF SignedInv
<1>2. ASSUME NEW pk \in Names, NEW ts \in Timestamps, NEW sig \in signed,
             GenerateToken(pk, ts, sig)
      PROVE  TypeInv'
  <2>1. PICK d \in {0, 1} : tokens' = tokens \cup {[pk |-> pk, exp |-> Expiry(d)]}
    BY <1>2 DEF GenerateToken
  <2>2. Expiry(d) \in Nat
    BY AuthConstants DEF Expiry
  <2>3. UNCHANGED <<now, signed, open, user>>
    BY <1>2 DEF GenerateToken
  <2> QED
    BY <2>1, <2>2, <2>3 DEF Token, SignedInv
<1>3. ASSUME NEW w \in Sockets, ConnectionInit(w) PROVE TypeInv'
  <2>1. open' = open \cup {w} /\ UNCHANGED <<now, signed, tokens>>
    BY <1>3 DEF ConnectionInit
  <2>2. CASE user' = user
    BY <2>1, <2>2 DEF SignedInv
  <2>3. ASSUME NEW token \in tokens, user' = [user EXCEPT ![w] = {token.pk}] PROVE TypeInv'
    <3>1. token.pk \in Names
      BY DEF Token
    <3> QED
      BY <2>1, <2>3, <3>1 DEF SignedInv
  <2> QED
    BY <1>3, <2>2, <2>3 DEF ConnectionInit
<1>4. ASSUME NEW w \in Sockets, CloseSocket(w) PROVE TypeInv'
  BY <1>4 DEF CloseSocket, SignedInv
<1>5. CASE Tick
  BY <1>5, AuthConstants DEF Tick, SignedInv
<1>6. CASE UNCHANGED vars
  BY <1>6 DEF vars, SignedInv
<1> QED
  BY <1>1, <1>2, <1>3, <1>4, <1>5, <1>6 DEF Next

\* The inductive invariant of the types.
LEMMA TypeInvHolds == Spec => []TypeInv
<1>1. Init => TypeInv
  BY AuthConstants DEF Init, TypeInv, SignedInv
<1> QED
  BY <1>1, TypeStep, PTL DEF Spec

\* One socket has one user at most, taken from a token (handler.rs:78-88).
THEOREM AuthTypeCorrect == Spec => []AuthTypeOK
<1>1. TypeInv => AuthTypeOK
  <2> SUFFICES ASSUME TypeInv PROVE AuthTypeOK
    OBVIOUS
  <2>1. ASSUME NEW w \in Sockets
        PROVE  Cardinality(user[w]) <= (IF w \in open THEN 1 ELSE 0)
    <3>1. CASE user[w] = {}
      BY <3>1, FS_EmptySet
    <3>2. CASE user[w] # {}
      <4>1. w \in open /\ \E pk \in Names : user[w] = {pk}
        BY <3>2 DEF TypeInv
      <4>2. Cardinality(user[w]) = 1
        BY <4>1, FS_Singleton
      <4> QED
        BY <4>1, <4>2
    <3> QED
      BY <3>1, <3>2
  <2> QED
    BY <2>1 DEF TypeInv, SignedInv, AuthTypeOK
<1> QED
  BY <1>1, TypeInvHolds, PTL

\* The window check is right for every timestamp but one (auth.rs:61-66).
THEOREM WindowIsRight == Spec => []WindowIsExact
<1>1. TypeInv => WindowIsExact
  BY WindowIsThat DEF TypeInv, WindowIsExact
<1> QED
  BY <1>1, TypeInvHolds, PTL

\* A wallet that signs for this hub, with a clock that is right to a window, is
\* let in, as often as it asks (auth.rs:50-74).
THEOREM HonestWalletsGetIn == Spec => []HonestLoginWorks
<1>1. TypeInv => HonestLoginWorks
  <2> SUFFICES ASSUME TypeInv, NEW sig \in signed, sig.over.chain = HubChain,
                      sig.over.ts \in (now - Window)..(now + Window)
               PROVE  VerifyAuthChallenge(sig.over.pk, sig.over.ts, sig)
    BY DEF HonestLoginWorks
  <2>1. sig \in Signature /\ sig.by = Owner[sig.over.pk]
    BY DEF TypeInv, SignedInv
  <2>2. VerifyKeyOwnership(sig.over.pk, AuthChallengeMessage(sig.over.pk, sig.over.ts), sig)
    BY <2>1 DEF VerifyKeyOwnership, AuthChallengeMessage, Signature, Message
  <2>3. InWindow(sig.over.ts)
    <3>1. sig.over.ts \in Timestamps
      BY <2>1 DEF Signature, Message
    <3>2. sig.over.ts \in -Half..(Half - 1)
      BY <3>1, AuthConstants
    <3> QED
      BY <3>2, WindowIsThat DEF TypeInv
  <2> QED
    BY <2>2, <2>3 DEF VerifyAuthChallenge
<1> QED
  BY <1>1, TypeInvHolds, PTL
=============================================================================
