------------------------------ MODULE MCPrime ------------------------------
(* Users of Prime with a score that depends on everything it may depend on. *)
EXTENDS Prime, TLC

CONSTANTS alice, bob, carol, vA, vB

MCTwoUsers == {alice, bob}
MCThreeUsers == {alice, bob, carol}
MCOneMarket == {vA}
MCSymmetry == Permutations(MCTwoUsers)
MCSymmetry3 == Permutations(MCThreeUsers)

\* Nothing without a stake or without capital, and the capital is capped by
\* the stake times the multiplier, as in _capitalForScore.
MCScoreOf(xvs, cap, multiplier, alphaNow) ==
  LET capped == IF cap > xvs * multiplier THEN xvs * multiplier ELSE cap
  IN  IF xvs = 0 \/ cap = 0 THEN 0 ELSE xvs + alphaNow * capped

\* Of the states that are explored further: after the first instant claims are
\* open, the market is set up, its speed is set and one token of each kind is
\* allowed; nothing follows a pause of the provider, a second round without
\* holders, a stake that begins later or capital without stake or token.
MCSettled ==
  /\ now > 1 => /\ ~paused /\ revocableLimit = InitialLimit
                /\ \A v \in Markets : /\ markets[v].exists /\ initialized(markets[v])
                                      /\ markets[v].tokenDistributionSpeed > 0
  /\ ~fundsTransferPaused
  /\ nextScoreUpdateRoundId > 1 => totalScoreUpdatesRequired > 0
  /\ \A u \in Users :
       /\ stakedAt[u] <= (IF stake[u] > 0 THEN 1 ELSE 0)
       /\ stake[u] > 0 \/ tokens[u].exists \/ \A v \in Markets : capital[v][u] = 0
=============================================================================
