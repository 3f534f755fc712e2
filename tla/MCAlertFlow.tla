---------------------------- MODULE MCAlertFlow ----------------------------
(* Instances of AlertFlow: wallets, trades and thresholds.               *)
EXTENDS AlertFlow

McNonces == {0, 6}
McAges == {1, 49}
McNotionals == {999, 20000}
McCategories == {"politics", "tech"}

\* RiskScorer's default threshold, 0.6, and one that trades can meet.
DefaultThreshold == (One * 6) \div 10
LowThreshold == One \div 2
=============================================================================
