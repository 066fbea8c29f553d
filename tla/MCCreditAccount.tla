-------------------------- MODULE MCCreditAccount --------------------------
(***************************************************************************)
(* An instance of CreditAccount for TLC: a user with a credit of 2, one    *)
(* who has none and no row, and debits and credits of 1 and 2.             *)
(***************************************************************************)
EXTENDS CreditAccount, TLC

CONSTANTS rich, new

BothUsers == {rich, new}
Opened == [u \in Users |-> IF u = rich THEN 2 ELSE NoBalance]
Slots == Permutations(Requests)
=============================================================================
