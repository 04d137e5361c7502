----------------------------- MODULE RuleEngine -----------------------------
(***************************************************************************)
(* The deterministic risk score (app/tools/fraud.py): ten rules over a      *)
(* customer's profile and the transactions of the review window, a capped   *)
(* sum of weights, a level, and the two obligations that raise it.          *)
(*                                                                         *)
(* Amounts are whole, times count hours.  Between two scorings another      *)
(* transaction may be booked, at any time up to the reference date, or the   *)
(* window be widened; the profile and the reference date stay.  (Under       *)
(* TIME_ANCHOR=dataset a newer transaction than all, or under TIME_ANCHOR=now *)
(* the clock, moves that date and with it the start of every window: old      *)
(* activity then leaves the score, and nothing is claimed of it.)            *)
(***************************************************************************)
EXTENDS Schemas, FiniteSetsExt

CONSTANTS Bookable,        \* the transactions that may come to be known
          Profiles,        \* the customers that may be scored
          Cutoffs,         \* the starts a review window may have
          HighRiskCountries,
          MaxEntries       \* bound: transactions on the ledger

\* Transaction, without its customer and its currency.
Transaction ==
  [transaction_id : STRING, direction : {"CREDIT", "DEBIT"}, channel : STRING,
   amount : Nat \ {0}, country : STRING, counterparty : STRING, time : Nat]

\* What is read of a CustomerProfile.  A baseline of 0 is "none recorded".
Profile ==
  [country : STRING, baseline : Nat, young : BOOLEAN, sanctions_hit : BOOLEAN,
   pep_flag : BOOLEAN, verified : BOOLEAN]

ASSUME BoundsAssumption ==
  /\ Bookable \subseteq Transaction /\ Profiles \subseteq Profile
  /\ Cutoffs \subseteq Nat /\ MaxEntries \in Nat
  /\ IsFiniteSet(HighRiskCountries)

STRUCTURING_FLOOR == 7500
REPORTING_THRESHOLD == 10000
STRUCTURING_WINDOW == 72
AGGREGATION_WINDOW == 24
PASS_THROUGH_WINDOW == 72
HIGH_RISK_SCORE == 60
MEDIUM_RISK_SCORE == 30

VARIABLES profile, ledger, cutoff,
          assessment       \* what score_customer_risk answers

vars == <<profile, ledger, cutoff, assessment>>

\* get_transactions: the entries of the review window.
Window == {e \in ledger : e.time >= cutoff}

Credits == {e \in Window : e.direction = "CREDIT"}
Debits == {e \in Window : e.direction = "DEBIT"}
CashCredits == {e \in Credits : e.channel \in {"CASH", "ATM"}}

Total(entries) == MapThenSumSet(LAMBDA e : e.amount, entries)

BugStrictWindow(items, window, minimum) ==
  {group \in {{e \in items : 0 <= e.time - a.time /\ e.time - a.time < window} : a \in items} :
     Cardinality(group) >= minimum}

\* _windowed_groups: for every item the items that follow it within the window.
\* (Of several at one hour the code starts a group at each; the first has all.)
WindowedGroups(items, window, minimum) ==
  {group \in {{e \in items : 0 <= e.time - a.time /\ e.time - a.time <= window} : a \in items} :
     Cardinality(group) >= minimum}

\* The debits that leave the account within 72 hours of a credit.
Onward(credit) ==
  {d \in Debits : 0 <= d.time - credit.time /\ d.time - credit.time <= PASS_THROUGH_WINDOW}

Structuring ==
  LET just_under == {e \in CashCredits : /\ STRUCTURING_FLOOR <= e.amount
                                         /\ e.amount < REPORTING_THRESHOLD}
  IN WindowedGroups(just_under, STRUCTURING_WINDOW, 3) # {}

BugMaskedByReportable ==
  \E group \in WindowedGroups(CashCredits, AGGREGATION_WINDOW, 2) :
    /\ \A e \in group : e.amount < REPORTING_THRESHOLD
    /\ Total(group) >= REPORTING_THRESHOLD

ThresholdAggregation ==
  LET sub_threshold == {e \in CashCredits : e.amount < REPORTING_THRESHOLD}
  IN \E group \in WindowedGroups(sub_threshold, AGGREGATION_WINDOW, 2) :
       Total(group) >= REPORTING_THRESHOLD

PassThrough ==
  \E credit \in Credits :
    /\ credit.country \in HighRiskCountries
    /\ credit.amount >= REPORTING_THRESHOLD
    /\ \E d \in Onward(credit) : 10 * d.amount >= 7 * credit.amount

Touched == {e.country : e \in Window} \cap HighRiskCountries

BaselineAnomaly ==
  /\ profile.baseline # 0
  /\ \E credit \in Credits : credit.amount >= 10 * profile.baseline

RapidDispersal ==
  /\ profile.baseline # 0
  /\ \E credit \in Credits :
       /\ credit.amount >= 5 * profile.baseline
       /\ Cardinality({d.counterparty : d \in Onward(credit)}) >= 2
       /\ 10 * Total(Onward(credit)) >= 7 * credit.amount

NewAccountLargeWires ==
  /\ profile.young
  /\ \E e \in Window : e.channel = "WIRE" /\ e.amount > REPORTING_THRESHOLD

\* What a rule adds to the score when it is hit.
Points(hit, weight) == IF hit THEN weight ELSE 0

RawScore ==
  Points(Structuring, 40) + Points(ThresholdAggregation, 15) + Points(PassThrough, 30)
  + Points(Touched # {}, Min({10 * Cardinality(Touched), 20}))
  + Points(BaselineAnomaly, 25) + Points(RapidDispersal, 20)
  + Points(NewAccountLargeWires, 15) + Points(profile.sanctions_hit, 50)
  + Points(profile.pep_flag, 10) + Points(~profile.verified /\ Window # {}, 10)

Score == Min({RawScore, 100})

\* The rules with a min_level, which is HIGH for both of them.
Mandatory == Structuring \/ profile.sanctions_hit

BugDilutedByTheScore(score) ==
  IF score >= HIGH_RISK_SCORE THEN "HIGH"
  ELSE IF score >= MEDIUM_RISK_SCORE THEN "MEDIUM" ELSE "LOW"

\* The level of a score; mandatory escalations move it upwards only.
Level(score) ==
  IF score >= HIGH_RISK_SCORE \/ Mandatory THEN "HIGH"
  ELSE IF score >= MEDIUM_RISK_SCORE THEN "MEDIUM" ELSE "LOW"

\* score_customer_risk
Assessment == LET score == Score IN [risk_score |-> score, risk_level |-> Level(score)]

Init ==
  /\ profile \in Profiles
  /\ ledger = {}
  /\ cutoff \in Cutoffs
  /\ assessment = Assessment

\* One more transaction is known, booked late: none newer than the reference date.
Book ==
  /\ Cardinality(ledger) < MaxEntries
  /\ \E e \in Bookable \ ledger : ledger' = ledger \cup {e}
  /\ UNCHANGED <<profile, cutoff>>
  /\ assessment' = Assessment'

\* The specialist asks for a longer lookback.
Widen ==
  /\ \E c \in Cutoffs : c < cutoff /\ cutoff' = c
  /\ UNCHANGED <<profile, ledger>>
  /\ assessment' = Assessment'

\* The same evidence is scored once more.
ScoreAgain ==
  /\ UNCHANGED <<profile, ledger, cutoff>>
  /\ assessment' = Assessment'

Next == Book \/ Widen \/ ScoreAgain

Spec == Init /\ [][Next]_vars

-----------------------------------------------------------------------------

\* The types; the bound of the score is also part of ObligationsEscalate.
TypeOK ==
  /\ profile \in Profiles /\ ledger \subseteq Bookable /\ cutoff \in Cutoffs
  /\ assessment \in [risk_score : 0..100, risk_level : RiskLevel]

\* "Adding cash could lower the score" must not be (fraud.py, R02; and the
\* regression tests): neither one more transaction, of any kind and whatever it
\* masks, nor a longer lookback ever lowers the score or the level.
EvidenceNeverHelps ==
  [][ /\ assessment'.risk_score >= assessment.risk_score
      /\ Rank[assessment'.risk_level] >= Rank[assessment.risk_level] ]_vars

\* Some deposits just under the threshold, three of them within 72 hours.
StructuringEvidenced ==
  \E S \in SUBSET {e \in CashCredits : /\ STRUCTURING_FLOOR <= e.amount
                                        /\ e.amount < REPORTING_THRESHOLD} :
    /\ Cardinality(S) >= 3
    /\ \A d, e \in S : d.time - e.time <= STRUCTURING_WINDOW

\* Some deposits below the threshold, but not together, within 24 hours.
AggregationEvidenced ==
  \E S \in SUBSET {e \in CashCredits : e.amount < REPORTING_THRESHOLD} :
    /\ Cardinality(S) >= 2 /\ Total(S) >= REPORTING_THRESHOLD
    /\ \A d, e \in S : d.time - e.time <= AGGREGATION_WINDOW

\* R01 and R02 look for windows from an anchor; held to the definition by any set
\* of deposits, no pattern escapes them at the ends of a window, and none is
\* made up.
PatternsAreFound ==
  /\ Structuring <=> StructuringEvidenced
  /\ ThresholdAggregation <=> AggregationEvidenced

\* Structuring and a sanctions match are HIGH whatever they add up to, nothing
\* else is HIGH below the score for it, and the score is a percentage whatever
\* comes together.
ObligationsEscalate ==
  /\ assessment.risk_score \in 0..100
  /\ assessment.risk_level = "HIGH" <=> \/ assessment.risk_score >= HIGH_RISK_SCORE
                                        \/ profile.sanctions_hit
                                        \/ StructuringEvidenced
=============================================================================
