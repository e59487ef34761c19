------------------------------- MODULE MCAuth -------------------------------
(***************************************************************************)
(* Auth for TLC: two wallets, the first with two names; seconds that are   *)
(* few, and timestamps of a few bits.                                      *)
(***************************************************************************)
EXTENDS Auth, TLC

CONSTANTS alice, bob, aliceAddress, aliceKey, bobAddress

WalletOf == (aliceAddress :> alice) @@ (aliceKey :> alice) @@ (bobAddress :> bob)

\* What the clocks of wallets show, here and there a little ahead; and one
\* timestamp from the far end of the integers.
SomeTimestamps == 0..(MaxTime + Window + 1) \cup {2 - Half}

\* What the argument of generateToken can hold.
AllTimestamps == -Half..(Half - 1)
=============================================================================
