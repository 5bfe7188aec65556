-------------------------------- MODULE Ledger --------------------------------
(***************************************************************************)
(* Accounts and what they are worth.                                       *)
(*   account      [id, subtype, currency, included, source, cashFor]       *)
(*   transaction  [id, at, booked, kind, entries]                          *)
(*   entry        [id, tx, account, amount, currency, role]                *)
(*   contribution [tx, account, principal, currency, at]                   *)
(*   value        [status, original, currency, reporting]   an amount, and *)
(*                its worth in EUR unless an exchange rate is missing      *)
(*   snapshot, valuation   [account, value, asOf, staleAt], a valuation    *)
(*                also with the treatment of brokerage cash                *)
(***************************************************************************)
EXTENDS Integers, Metrics

EUR == "EUR"
NoAccount == 0

\* createAccount: the subtype fixes the source of the value, and only a cash account can hold
\* the cash of another account.
ValidAccount(a) ==
  /\ a.source = CASE a.subtype = "cash"       -> "ledger"
                  [] a.subtype = "investment" -> "portfolio_valuation"
                  [] OTHER                    -> "balance_snapshot"
  /\ a.cashFor # NoAccount => a.subtype = "cash" /\ a.cashFor # a.id

----------------------------------------------------------------------------
(* Canonical transactions *)

EntriesWith(x, role) == {e \in x.entries : e.role = role}
Total(entries) == SumOver(entries, LAMBDA e : e.amount)

\* validateTransfer: booked, in one currency, between distinct accounts, and balanced.
ValidTransfer(x) ==
  LET sources == EntriesWith(x, "transfer_source")
      destinations == EntriesWith(x, "transfer_destination")
  IN  /\ x.booked
      /\ sources # {} /\ destinations # {} /\ sources \union destinations = x.entries
      /\ \A e, o \in x.entries : e.currency = o.currency
      /\ \A e \in sources : e.amount < 0
      /\ \A e \in destinations : e.amount > 0
      /\ {e.account : e \in sources} \intersect {e.account : e \in destinations} = {}
      /\ Total(x.entries) = 0

ValidTransaction(x) ==
  /\ x.entries # {}
  /\ \A e \in x.entries : e.tx = x.id
  /\ UniqueBy(x.entries, LAMBDA e : e.id)
  /\ CASE x.kind \in {"internal_transfer", "investment_contribution"} -> ValidTransfer(x)
       [] x.kind = "opening_balance" -> /\ x.booked /\ Cardinality(x.entries) = 1
                                        /\ x.entries = EntriesWith(x, "opening_balance")
       [] OTHER                      -> x.entries = EntriesWith(x, x.kind)

----------------------------------------------------------------------------
(* The ledger: accounts, transactions and contributions that fit together *)

ValidBrokerageCashLinks(l) ==
  \A a \in l.accounts :
     a.cashFor # NoAccount => \E i \in l.accounts : i.id = a.cashFor /\ i.subtype = "investment"

AllEntries(l) == UNION {x.entries : x \in l.transactions}

ValidEntries(l) ==
  /\ UniqueBy(AllEntries(l), LAMBDA e : e.id)
  /\ \A e \in AllEntries(l) : \E a \in l.accounts : a.id = e.account /\ a.currency = e.currency

\* The principal a contribution reports is what its transfer moved into the investment account.
ValidContribution(l, c) ==
  \E a \in l.accounts, x \in l.transactions :
     /\ a.id = c.account /\ a.subtype = "investment" /\ a.currency = c.currency
     /\ x.id = c.tx /\ x.kind = "investment_contribution" /\ x.booked /\ x.at = c.at
     /\ c.principal > 0
     /\ Total({e \in EntriesWith(x, "transfer_destination") : e.account = a.id}) = c.principal

ValidContributions(l) ==
  /\ UniqueBy(l.contributions, LAMBDA c : c.tx)
  /\ \A x \in l.transactions :
        x.kind = "investment_contribution" => \E c \in l.contributions : c.tx = x.id
  /\ \A c \in l.contributions : ValidContribution(l, c)

ValidLedger(l) ==
  /\ \A a \in l.accounts : ValidAccount(a)
  /\ \A x \in l.transactions : ValidTransaction(x)
  /\ UniqueBy(l.accounts, LAMBDA a : a.id)
  /\ UniqueBy(l.transactions, LAMBDA x : x.id)
  /\ ValidBrokerageCashLinks(l)
  /\ ValidEntries(l)
  /\ ValidContributions(l)

\* calculateLedgerBalance: the booked entries of an account up to an instant.
LedgerBalance(l, account, asOf) ==
  LET booked == {x \in l.transactions : x.booked /\ x.at <= asOf}
  IN  Total({e \in UNION {x.entries : x \in booked} : e.account = account})
==============================================================================
