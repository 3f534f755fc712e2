------------------------------ MODULE Detection ------------------------------
(***************************************************************************)
(* detector/fresh_wallet.py, detector/size_anomaly.py, detector/scorer.py: *)
(* from a trade to a weighted score.                                     *)
(*                                                                       *)
(* Floats become integers in units in which every constant of the code is*)
(* whole: a confidence counts sixtieths (0.5 is 30, 0.2 is 12, one third *)
(* of 0.5 is 10), a weight percents, and a score sixtieths of a percent of *)
(* a tenth, so One below is the score 1.0.  An impact is a multiple of its *)
(* threshold.  Rounding of the floats is not modelled.                   *)
(***************************************************************************)
EXTENDS Integers, FiniteSetsExt

NoSignal == -1      \* a detector returned None
Unknown == -1       \* an age, a volume or a depth that is None

min_trade_size == 1000
large_trade_threshold == 10000
max_nonce == 5
max_age_hours == 48
niche_volume_threshold == 50000
NICHE_PRONE_CATEGORIES == {"science", "tech", "finance", "other"}

weight == [fresh_wallet |-> 40, size_anomaly |-> 35, niche_market |-> 25]
One == 60 * 100 * 10

AtMost(x, bound) == IF x < bound THEN x ELSE bound
If(condition, amount) == IF condition THEN amount ELSE 0

-----------------------------------------------------------------------------
(* FreshWalletDetector.                                                  *)

is_wallet_fresh(nonce, age_hours) ==
    nonce <= max_nonce /\ (age_hours = Unknown \/ age_hours <= max_age_hours)

\* Mutant: the bonus of a brand new wallet is given for the young one too.
mutant_fresh_confidence(nonce, age_hours, notional) ==
    30 + If(nonce = 0, 12)
       + If(age_hours # Unknown /\ age_hours < 2, 12)
       + If(notional > large_trade_threshold, 6)

fresh_confidence(nonce, age_hours, notional) ==
    30 + If(nonce = 0, 12)
       + If(age_hours # Unknown /\ age_hours < 2, 6)
       + If(notional > large_trade_threshold, 6)

\* The confidence of the signal analyze() returns, or NoSignal.
fresh_wallet(nonce, age_hours, notional) ==
    IF notional >= min_trade_size /\ is_wallet_fresh(nonce, age_hours)
    THEN fresh_confidence(nonce, age_hours, notional)
    ELSE NoSignal

-----------------------------------------------------------------------------
(* SizeAnomalyDetector.                                                  *)

is_niche_market(category, daily_volume) ==
    IF daily_volume = Unknown THEN category \in NICHE_PRONE_CATEGORIES
                              ELSE daily_volume < niche_volume_threshold

\* 0.5 for the volume and 0.3 for the book, reached at three times the
\* threshold, times 1.5 in a niche market; 0.2 for a niche market alone.
size_confidence(volume_impact, book_impact, niche) ==
    LET impact == If(volume_impact > 1, 10 * AtMost(volume_impact, 3))
                    + If(book_impact > 1, 6 * AtMost(book_impact, 3))
    IN  IF niche THEN IF impact = 0 THEN 12 ELSE AtMost(impact + impact \div 2, 60)
                 ELSE impact

\* The confidence of the signal analyze() returns, or NoSignal; an emitted
\* one is never below 0.1.
size_anomaly(volume_impact, book_impact, niche) ==
    IF volume_impact > 1 \/ book_impact > 1 \/ niche
    THEN size_confidence(volume_impact, book_impact, niche)
    ELSE NoSignal

-----------------------------------------------------------------------------
(* RiskScorer.  A bundle holds both confidences and whether the size     *)
(* signal was raised for a niche market.                                 *)

signals_triggered(b) == If(b.fresh # NoSignal, 1) + If(b.size # NoSignal, 1)

\* A bundle has two signals at most, so the 30% bonus of the code is never
\* reached.
weighted_score(b) ==
    LET sum == If(b.fresh # NoSignal, b.fresh * weight.fresh_wallet)
                 + If(b.size # NoSignal, b.size * weight.size_anomaly)
                 + If(b.size # NoSignal /\ b.niche, b.size * weight.niche_market)
        bonus == IF signals_triggered(b) >= 2 THEN 12 ELSE 10
    IN  AtMost(sum * bonus, One)
=============================================================================
