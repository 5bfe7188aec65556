----------------------- MODULE MCFinancialPublication -----------------------
(***************************************************************************)
(* Instances of FinancialPublication for TLC.                              *)
(***************************************************************************)
EXTENDS FinancialPublication, TLC

CONSTANTS c1, h1, h2, k1, k2, k3, q1, q2, netWorth, fund

MCClients == {c1}
MCHandlers == {h1, h2}
MCKeys == {k1, k2, k3}
MCTwoKeys == {k1, k2}
MCRequests == {q1, q2}
MCOneRequest == {q1}
MCSlots == {netWorth, fund}
\* The fund is created or removed from one version to the next.
MCContents == {{netWorth}, {netWorth, fund}}
MCContentsOrInvalid == {{netWorth, fund}, Invalid}

Symmetry == Permutations(MCHandlers) \cup Permutations(MCKeys) \cup Permutations(MCRequests)
=============================================================================
