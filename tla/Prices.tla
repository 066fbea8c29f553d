------------------------------- MODULE Prices -------------------------------
(***************************************************************************)
(* What a stay costs: pricing.compute and the conversions of CurrencyRate. *)
(*                                                                         *)
(* A dollar is worth r.to of what r.from units of a currency are worth:    *)
(* the rate toUsd of the table is r.to / r.from.  BEE are whole.  The      *)
(* amounts of the other currencies are floating-point numbers in the code, *)
(* whose rounding is left out; here they are counted in units of 1 / r.to, *)
(* in which every amount is whole.                                         *)
(***************************************************************************)
EXTENDS Naturals

Currencies == {"USD", "BEE", "ETH", "BTC"}

Par == [to |-> 1, from |-> 1]

\* A row of currency_rates; the rate of USD is fixed.
IsRate(r) == r.to \in Nat \ {0} /\ r.from \in Nat \ {0}

FromUsd(currency, r, usd) ==
  IF currency = "BEE" THEN (usd * r.from) \div r.to ELSE usd * r.from

Lesser(a, b) == IF a <= b THEN a ELSE b

\* A stay: what the listing asks for a night and as a deposit, how many
\* nights, and the credit of the guest, in dollars.
Stay == [price : Nat, deposit : Nat, nights : Nat, credit : Nat]

PriceTotalNights(currency, r, stay) == FromUsd(currency, r, stay.price) * stay.nights

CreditAmountApplied(currency, r, stay) ==
  Lesser(PriceTotalNights(currency, r, stay), FromUsd(currency, r, stay.credit))

\* Mutant: the deposit is part of every total.
TotalWithDeposit(currency, r, stay) ==
  PriceTotalNights(currency, r, stay) - CreditAmountApplied(currency, r, stay)
    + FromUsd(currency, r, stay.deposit)

\* Only who pays in dollars pays no deposit.
Total(currency, r, stay) ==
  PriceTotalNights(currency, r, stay) - CreditAmountApplied(currency, r, stay)
    + IF currency = "USD" THEN 0 ELSE FromUsd(currency, r, stay.deposit)

\* validate compares what the client sent with the prices in dollars, in
\* ether, or, whatever else the currency is, in BEE.
ComparedWith(currency) == IF currency \in {"USD", "ETH"} THEN currency ELSE "BEE"

\* A total in a crypto currency asks what the stay costs in dollars and the
\* deposit; BEE are rounded down for each night, for the deposit and for the
\* credit, so the guest pays less than one BEE more, and less than one BEE a
\* night and one for the deposit less.
Agrees(currency, r, stay, total) ==
  LET due == (Total("USD", Par, stay) + stay.deposit) * r.from
  IN CASE currency = "USD" -> total = Total("USD", Par, stay)
       [] currency = "BEE" -> /\ total * r.to < due + r.to
                              /\ due < (total + stay.nights + 1) * r.to
       [] OTHER            -> total = due
=============================================================================
