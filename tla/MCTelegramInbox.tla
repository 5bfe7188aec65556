--------------------------- MODULE MCTelegramInbox ---------------------------
(***************************************************************************)
(* Instances of TelegramInbox for TLC.                                     *)
(***************************************************************************)
EXTENDS TelegramInbox, TLC

CONSTANTS w1, w2

MCWorkers == {w1, w2}
MCOne == {w1}

Symmetry == Permutations(MCWorkers)

Plain == [command |-> "none", words |-> {}, amount |-> "none", minor |-> 0, dates |-> {},
          label |-> FALSE, day |-> 5, reply |-> NoTarget, authorised |-> TRUE]

HelpText    == [Plain EXCEPT !.command = "help"]
CancelText  == [Plain EXCEPT !.command = "cancel"]
SlashText   == [Plain EXCEPT !.command = "other"]
Stranger    == [Plain EXCEPT !.authorised = FALSE]
Expense     == [Plain EXCEPT !.words = {"paid"}, !.amount = "explicit", !.minor = 12]
Income      == [Plain EXCEPT !.words = {"received"}]
Trip        == [Plain EXCEPT !.words = {"future"}, !.label = TRUE]
Hustle      == [Plain EXCEPT !.words = {"sideHustle"}, !.amount = "explicit", !.minor = 50]
Bare        == [Plain EXCEPT !.amount = "bare", !.minor = 70]
Count       == [Plain EXCEPT !.words = {"count"}, !.amount = "explicit", !.minor = 125]
Month13     == [Plain EXCEPT !.words = {"paid"}, !.amount = "explicit", !.minor = 12,
                             !.dates = {Impossible}]
Undo(u)     == [Plain EXCEPT !.words = {"undo"}, !.reply = <<u, "confirmation">>]
Amend(u)    == [Plain EXCEPT !.amount = "explicit", !.minor = 15,
                             !.reply = <<u, "confirmation">>]
Misfit(u)   == [Plain EXCEPT !.words = {"other"}, !.reply = <<u, "confirmation">>]

\* For two workers: commands, clarifications and replies that race.
MCRaces == {<<Expense, Undo(1), Amend(1)>>, <<Income, Hustle>>}
\* For one worker: everything a message may be.
MCTalks == {
    <<Income, Hustle>>, <<Expense, Misfit(1)>>, <<Expense, Amend(1)>>, <<Month13, Count>>,
    <<Bare, Bare>>, <<Trip, CancelText>>, <<Stranger, HelpText>>, <<SlashText, Income, Income, Income>>}
=============================================================================
