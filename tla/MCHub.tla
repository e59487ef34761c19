-------------------------------- MODULE MCHub --------------------------------
(***************************************************************************)
(* Hub for TLC: a stream of one poll beside one transaction submitted      *)
(* once, so three calls at most.  The texts are no numbers, so that only   *)
(* builders without an amount go on; Transactions has the others.          *)
(***************************************************************************)
EXTENDS Hub

MCCalls == Polls \cup TxCalls
MCOwner == [j \in Jobs |-> CHOOSE u \in Users : TRUE]
MCTexts == [j \in Jobs |-> {[form |-> "other", value |-> 1]}]
MCDoubles == {0, 8}
MCSubmits == [j \in Jobs |-> 1]
=============================================================================
