------------------------------- MODULE Amounts -------------------------------
(***************************************************************************)
(* CLT amounts on their way through the hub (src/hub/graphql/types.rs):    *)
(* the decimal text a client sends, the u64 the code computes with, the    *)
(* JSON value of an unsigned transaction, and what a client in JavaScript  *)
(* reads.  Widths are constants: 2^64 - 1 and 2^63 - 1 in the code.        *)
(***************************************************************************)
EXTENDS Naturals

CONSTANTS
    MaxU64,            \* u64::MAX
    MaxI64,            \* i64::MAX
    Doubles            \* the amounts a JavaScript Number holds exactly

\* A text is a numeral, perhaps with blanks around it or with a plus sign, or
\* something u64's parser refuses ("", "-1", "1.5", "abc").
Text == [form : {"digits", "padded", "plus", "other"}, value : Nat]

ASSUME AmountConstants ==
    /\ MaxU64 \in Nat /\ MaxI64 \in Nat /\ MaxI64 < MaxU64
    /\ Doubles \subseteq Nat
    /\ MaxI64 + 1 \in Doubles          \* a power of two

\* s.trim().parse::<u64>(), as the set of at most one result.
ParseU64(text) ==
    {n \in 0..MaxU64 : text.form # "other" /\ n = text.value}

ParseCltAmount(text) == {n \in ParseU64(text) : n <= MaxI64}

-----------------------------------------------------------------------------
\* JSON values: json!(n), json!(n.to_string()), and no such field.
Number(n) == [json |-> "number", value |-> n]
Decimal(n) == [json |-> "string", value |-> n]
Absent == [json |-> "absent", value |-> 0]

\* JSON.parse of the digits of n: a nearest double.
Distance(a, b) == IF a < b THEN b - a ELSE a - b

JsNumbers(n) == {d \in Doubles : \A e \in Doubles : Distance(n, d) <= Distance(n, e)}

\* What a wallet makes of an amount: a string goes to BigInt; a number is read
\* exactly by a native wallet, as a Number by one in JavaScript.
WalletReads(amount) ==
    IF amount.json = "number" THEN {amount.value} \cup JsNumbers(amount.value)
                              ELSE {amount.value}

\* Mutant: a number is held to the limit of parse_clt_amount.
I64AsString(amount) ==
    IF amount.json = "string" THEN {amount}
    ELSE {Decimal(n) : n \in {amount.value} \cap (0..MaxI64)}

\* The node's fare in a list, as the hub shows it: a string as it is, the digits
\* of a number; an item whose number no u64 holds does not parse.
U64AsString(amount) ==
    IF amount.json = "string" THEN {amount}
    ELSE {Decimal(n) : n \in {amount.value} \cap (0..MaxU64)}
=============================================================================
