-------------------------- MODULE MCRateCheckpoint --------------------------
(* Every curve of the two live chains.                                      *)
EXTENDS RateCheckpoint

MCCurve(m) == <<m.interestRateModel, m.reserveFactor>>

\* One market for each curve and reserve factor.
MCRows ==
  LET all == ToSet(mainnetMarkets) \cup ToSet(testnetMarkets)
  IN {CHOOSE m \in all : MCCurve(m) = curve : curve \in {MCCurve(m) : m \in all}}

\* Nearly all lent; reserves lent as well, so that suppliers own a thirtieth
\* of what is borrowed; and nothing.
MCBooks ==
  {[cash |-> 1000, borrows |-> 19000, reserves |-> 0],
   [cash |-> 0, borrows |-> 3000, reserves |-> 2900],
   [cash |-> 0, borrows |-> 20000, reserves |-> 20000]}
=============================================================================
