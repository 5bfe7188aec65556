---------------------------- MODULE MCBankImport ----------------------------
(***************************************************************************)
(* Instances of BankImport. Two transactions lie on pages of their own, so *)
(* that a bank that changes something between two pages, and a sync that   *)
(* is resumed between them, occur.                                         *)
(***************************************************************************)
EXTENDS BankImport, TLC

CONSTANTS k1, k2

MCPageOf == k1 :> 1 @@ k2 :> 2

MCWorkers == Permutations(Workers)

Is(k, s, n, a) == [kind |-> "change", key |-> k, status |-> s, amount |-> n, during |-> a]
Balance(a)     == [kind |-> "balance", during |-> a]
NewDay(a)      == [kind |-> "day", during |-> a]

(***************************************************************************)
(* What was pending is booked, and another booking is corrected; a booking *)
(* is corrected and then cancelled; one is corrected while a plan may wait *)
(* for its confirmation, and goes back to its earlier revision; the bank   *)
(* posts its balance late, and a day passes before a cancellation.         *)
(***************************************************************************)
Begin == <<Is(k1, "booked", 1, 0), Balance(0)>>

MCFutures ==
    {Begin \o <<Is(k2, "pending", 1, 1), Is(k2, "booked", 2, 2), Is(k1, "booked", 2, 3)>>,
     Begin \o <<Is(k1, "booked", 2, 3), Is(k1, "cancelled", 2, 4)>>,
     Begin \o <<NewDay(2), Is(k1, "booked", 2, 2), Is(k1, "booked", 1, 3)>>,
     <<Is(k1, "booked", 1, 0), Is(k2, "booked", 2, 1), Balance(2), NewDay(3),
       Is(k2, "cancelled", 2, 3)>>}
=============================================================================
