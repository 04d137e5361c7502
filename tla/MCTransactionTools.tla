------------------------- MODULE MCTransactionTools -------------------------
(***************************************************************************)
(* A small instance of TransactionTools: the shapes of transaction that the *)
(* rules tell apart, at the ends of their windows.                          *)
(***************************************************************************)
EXTENDS TransactionTools

\* Every profile of a customer at home where most are, and some of one who lives in
\* a country on the list.
MCProfiles ==
  [country : {"Canada"}, baseline : {0, 2500}, young : BOOLEAN,
   sanctions_hit : BOOLEAN, pep_flag : BOOLEAN, verified : BOOLEAN]
    \cup [country : {"Cyprus"}, baseline : {0, 2500}, young : {FALSE},
          sanctions_hit : {FALSE}, pep_flag : {FALSE}, verified : {TRUE}]

MCTimes == {0, 24, 72, 73}

Shape(direction, channel, amounts, country, counterparties) ==
  [transaction_id : {"t"}, direction : {direction}, channel : {channel},
   amount : amounts, country : {country}, counterparty : counterparties,
   time : MCTimes]

MCBookable ==
  Shape("CREDIT", "CASH", {7500, 10000}, "Canada", {"self"})
    \cup Shape("CREDIT", "ATM", {5000}, "Canada", {"self"})
    \cup Shape("CREDIT", "WIRE", {10000}, "Panama", {"sender"})
    \cup Shape("CREDIT", "WIRE", {25000}, "Cyprus", {"sender"})
    \cup Shape("DEBIT", "WIRE", {17500}, "Canada", {"payee1", "payee2"})
=============================================================================
