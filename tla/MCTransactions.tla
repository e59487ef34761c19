--------------------------- MODULE MCTransactions ---------------------------
(***************************************************************************)
(* Transactions for TLC: two jobs of one user.  Integers have 4 bits       *)
(* instead of 64 and a Number has 2 instead of 53, so that 5 and 7 are to  *)
(* them what 2^53 + 1 and i64::MAX are to the real ones.                   *)
(***************************************************************************)
EXTENDS Transactions, TLC

CONSTANTS j1, j2, alice

MCOwner == [j \in Jobs |-> alice]
MCSubmits == (j1 :> 2) @@ (j2 :> 1)

Small == [form |-> "plus", value |-> 0]
Odd == [form |-> "digits", value |-> 5]
Largest == [form |-> "padded", value |-> 7]
NotI64 == [form |-> "digits", value |-> 8]
NotU64 == [form |-> "digits", value |-> 16]
NoNumber == [form |-> "other", value |-> 1]

MCTexts == (j1 :> {Small, Largest, NotI64}) @@ (j2 :> {Odd, NotU64, NoNumber})

\* The doubles of two bits: 0..4, 6, 8 and 12.
MCDoubles == {m * 2^e : m \in 0..3, e \in 0..2}

\* parse_clt_amount accepts exactly the numerals of 0..i64::MAX.
ASSUME ParserIsExact ==
    \A t \in [form : {"digits", "padded", "plus", "other"}, value : 0..(2 * MaxU64)] :
        ParseCltAmount(t) =
            IF t.form # "other" /\ t.value <= MaxI64 THEN {t.value} ELSE {}
=============================================================================
