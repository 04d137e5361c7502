-------------------------- MODULE TransactionTools --------------------------
(***************************************************************************)
(* What the transaction specialist is shown (app/tools/transactions.py):    *)
(* an aggregate of the review window and a listing of its rows.  The rule    *)
(* engine reads the same transactions with code of its own, later in the    *)
(* case.  Each call has its own window: lookback_days is an argument the     *)
(* model chooses for every call (schemas/tool_args.py), and nothing ties the *)
(* one to the other.                                                       *)
(***************************************************************************)
EXTENDS RuleEngine, SequencesExt

CONSTANTS MaxReturned,     \* MAX_RETURNED_TRANSACTIONS
          MaxShown         \* the rows that fit into MAX_TOOL_RESULT_CHARS

ASSUME LimitsAssumption == MaxReturned \in Nat /\ MaxShown \in Nat

\* get_transactions, for a window that starts at some hour.
Since(start) == {e \in ledger : e.time >= start}

BugBranchDepositsOnly(items) ==
  {e \in items : e.direction = "CREDIT" /\ e.channel = "CASH"}

\* cash_credits: deposits over the counter and at a machine.
CashIn(items) ==
  {e \in items : e.direction = "CREDIT" /\ e.channel \in {"CASH", "ATM"}}

Going(items, direction) == {e \in items : e.direction = direction}

Largest(items) == Max({e.amount : e \in items} \cup {0})

\* collections.Counter over one field of the transactions.
CountBy(items, field) ==
  [v \in {e[field] : e \in items} |-> Cardinality({e \in items : e[field] = v})]

\* The ratio to the baseline, which is None without one.
Ratio(total) == IF profile.baseline = 0 THEN "None" ELSE total \div profile.baseline

\* summarise_transactions: nothing but a count where there is nothing.
Summary(start) ==
  LET items == Since(start)
      credits == Going(items, "CREDIT")
      debits == Going(items, "DEBIT")
  IN IF items = {} THEN [transaction_count |-> 0] ELSE
     [transaction_count |-> Cardinality(items),
      credit_count |-> Cardinality(credits),
      debit_count |-> Cardinality(debits),
      total_credit |-> Total(credits),
      total_debit |-> Total(debits),
      largest_credit |-> Largest(credits),
      largest_debit |-> Largest(debits),
      cash_credit_count |-> Cardinality(CashIn(items)),
      cash_credit_total |-> Total(CashIn(items)),
      credit_to_baseline_ratio |-> Ratio(Total(credits)),
      debit_to_baseline_ratio |-> Ratio(Total(debits)),
      by_channel |-> CountBy(items, "channel"),
      by_country |-> CountBy(items, "country"),
      distinct_counterparties |-> Cardinality({e.counterparty : e \in items}),
      foreign_transaction_count |-> Cardinality({e \in items : e.country # profile.country})]

AtMost(rows, n) == SubSeq(rows, 1, Min({n, Len(rows)}))

\* all_transactions keeps them ordered by time.
ByTime(items) ==
  CHOOSE rows \in [1..Cardinality(items) -> items] :
    /\ ToSet(rows) = items
    /\ \A i, j \in DOMAIN rows : i <= j => rows[i].time <= rows[j].time

\* list_transactions: the oldest rows of the window, and whether that is all.
Listing(start) ==
  LET items == ByTime(Since(start))
  IN [rows |-> AtMost(items, MaxReturned),
      total_matching |-> Len(items),
      truncated |-> Len(items) > MaxReturned]

\* _serialise: the text is cut after MAX_TOOL_RESULT_CHARS, which leaves the
\* flags in front of the rows and marks the end.
Serialised(listing) ==
  [rows |-> AtMost(listing.rows, MaxShown),
   total_matching |-> listing.total_matching,
   truncated |-> listing.truncated,
   cut |-> Len(listing.rows) > MaxShown]

-----------------------------------------------------------------------------

\* Whatever rule is hit, the aggregate shows the activity it is about.
SummaryShows(s) ==
  /\ Structuring => /\ s.cash_credit_count >= 3
                    /\ s.cash_credit_total >= 3 * STRUCTURING_FLOOR
  /\ ThresholdAggregation => /\ s.cash_credit_count >= 2
                             /\ s.cash_credit_total >= REPORTING_THRESHOLD
  /\ PassThrough => /\ s.largest_credit >= REPORTING_THRESHOLD
                    /\ 10 * s.total_debit >= 7 * REPORTING_THRESHOLD
  /\ Touched # {} => /\ Touched \subseteq DOMAIN s.by_country
                     /\ s.foreign_transaction_count
                          >= Cardinality(Touched \ {profile.country})
  /\ BaselineAnomaly => /\ s.largest_credit >= 10 * profile.baseline
                        /\ s.credit_to_baseline_ratio >= 10
  /\ RapidDispersal => /\ s.debit_count >= 2 /\ s.distinct_counterparties >= 2
                       /\ s.credit_to_baseline_ratio >= 5
  /\ NewAccountLargeWires => /\ "WIRE" \in DOMAIN s.by_channel
                             /\ \/ s.largest_credit > REPORTING_THRESHOLD
                                \/ s.largest_debit > REPORTING_THRESHOLD
  /\ Window # {} => s.transaction_count >= Cardinality(Window)

\* A scored transaction missing from a listing from `start` on is older than that,
\* or newer than every row there, and the model can tell that rows are missing.
ListingAccountsFor(l, start) ==
  \A e \in Window \ ToSet(l.rows) :
    \/ e.time < start
    \/ /\ l.truncated \/ l.cut
       /\ \A i \in DOMAIN l.rows : l.rows[i].time <= e.time

\* Two tools that read the same transactions with different code agree on them: no
\* rule is hit on activity that an aggregate of a window as long leaves out, and
\* a listing of any window leaves out nothing of it without saying so.  What only
\* the longer window of the score takes in may never have been shown.
ToolsAgree ==
  \A start \in Cutoffs : /\ start <= cutoff => SummaryShows(Summary(start))
                         /\ ListingAccountsFor(Serialised(Listing(start)), start)
=============================================================================
