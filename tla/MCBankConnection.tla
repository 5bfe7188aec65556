-------------------------- MODULE MCBankConnection --------------------------
(***************************************************************************)
(* Instances of BankConnection for TLC.                                    *)
(***************************************************************************)
EXTENDS BankConnection, TLC

CONSTANTS w1, w2, current, savings

MCWorkers == {w1, w2}
MCAccounts == {current}
MCTwoAccounts == {current, savings}

Symmetry == Permutations(MCWorkers)
=============================================================================
