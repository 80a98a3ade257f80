--------------------------- MODULE RateCheckpoint ---------------------------
(***************************************************************************)
(* A market whose chain halves its block time.  Interest is charged by the *)
(* block, at a rate the model has divided by its blocksPerYear, so that    *)
(* model and block time must change together: governance gives the market  *)
(* a CheckpointView of the old and the new model before the checkpoint.    *)
(* Users accrue interest whenever they like, and change the books: also to *)
(* ones on which the model reverts, which no operation of theirs leaves.   *)
(*                                                                         *)
(* The unit of time is a block after the change; before it, a block takes  *)
(* two.  Interest is counted per unit of principal: a yearly rate times    *)
(* units of time.                                                          *)
(***************************************************************************)
EXTENDS RateModels, InterestDue

CONSTANTS
  Rows,            \* market configurations
  SomeBooks,       \* of the market, after the operation of a user
  Forks,           \* when the block time may really change
  MaxTime          \* bound of the model on now

ASSUME RateCheckpointAssumption ==
  /\ \A r \in Rows : r.interestRateModel \in Curves
  /\ SomeBooks \subseteq Books
  /\ At \in Nat /\ Forks \subseteq {t \in Nat : t % 2 = 0} /\ MaxTime \in Nat

VARIABLES
  row,             \* the configuration of the market
  interestRateModel, books, accrualBlockNumber,
  blockNumber

vars == <<row, interestRateModel, books, accrualBlockNumber,
          now, blockNumber, fork, charged, due, switched>>

fromBlocksPerYear == 21024000
toBlocksPerYear == 42048000

\* The units of time that a model takes a block to last.
assumedBlockTime(model) == toBlocksPerYear \div model.blocksPerYear

noBooks == [cash |-> 0, borrows |-> 0, reserves |-> 0]

TypeOK ==
  /\ row \in Rows /\ fork \in Forks
  /\ books \in SomeBooks \cup {noBooks}
  /\ now \in 0 .. MaxTime /\ switched \in 0 .. MaxTime + 1
  /\ accrualBlockNumber \in 0 .. blockNumber
  /\ charged \in Nat /\ due \in Nat

Init ==
  /\ row \in Rows /\ fork \in Forks
  /\ interestRateModel = rateModel(row.interestRateModel, fromBlocksPerYear)
  /\ books = noBooks
  /\ now = 0 /\ blockNumber = 0 /\ accrualBlockNumber = 0
  /\ charged = 0 /\ due = 0
  /\ switched = MaxTime + 1      \* not yet

\* The rate of a curve for the market; where it is not defined, none.
yearlyRate(params) == IF rateDefined(books) THEN getBorrowRate(params, books) ELSE 0

\* accrueInterest in the present block: what it charges, and when it reverts.
answer == answering(interestRateModel, now)
borrowRate == yearlyRate(answer.params)
rateAccepted == rateDefined(books) /\ borrowRate <= borrowRateMax(answer.blocksPerYear)
simpleInterest ==
  borrowRate * assumedBlockTime(answer) * (blockNumber - accrualBlockNumber)

Accrue ==
  /\ rateAccepted
  /\ charged' = charged + simpleInterest
  /\ accrualBlockNumber' = blockNumber

\* An operation of a user, which accrues interest and then moves cash.
Use(newBooks) ==
  /\ Accrue
  /\ books' = newBooks
  /\ UNCHANGED <<row, interestRateModel, now, blockNumber, fork, due, switched>>

\* run() of the setter: _setInterestRateModel accrues interest first.
SetCheckpoint ==
  /\ switched > MaxTime
  /\ Accrue
  /\ interestRateModel' =
       checkpointView(rateModel(row.interestRateModel, fromBlocksPerYear),
                      rateModel(row.interestRateModel, toBlocksPerYear), At)
  /\ switched' = now
  /\ UNCHANGED <<row, books, now, blockNumber, fork, due>>

MineBlock ==
  LET blockTime == IF now < fork THEN 2 ELSE 1
  IN /\ now + blockTime <= MaxTime
     /\ now' = now + blockTime
     /\ blockNumber' = blockNumber + 1
     /\ due' = due + blockTime * yearlyRate(row.interestRateModel)
     /\ UNCHANGED <<row, interestRateModel, books, accrualBlockNumber, fork,
                    charged, switched>>

Next == (\E newBooks \in SomeBooks : Use(newBooks)) \/ SetCheckpoint \/ MineBlock

Spec == Init /\ [][Next]_vars
-----------------------------------------------------------------------------
(* Properties. *)

\* The parts of a curve: from which utilization, with which slope, and how
\* far it starts above the end of the part before.
parts(p) ==
  CASE p.model = "whitepaper" -> <<<<0, p.multiplierPerYear, p.baseRatePerYear>>>>
    [] p.model = "jump" -> <<<<0, p.multiplierPerYear, p.baseRatePerYear>>,
                             <<p.kink, p.jumpMultiplierPerYear, 0>>>>
    [] p.model = "two-kinks" -> <<<<0, p.multiplierPerYear, p.baseRatePerYear>>,
                                  <<p.kink, p.multiplierPerYear2, p.baseRatePerYear2>>,
                                  <<p.kink2, p.jumpMultiplierPerYear, 0>>>>

\* The curve, rounded down only once.
exactRate(p, util) ==
  LET ps == parts(p)
      end(i) == IF i = Len(ps) THEN util ELSE Min({util, ps[i + 1][1]})
      onPart(i) == Max({0, end(i) - ps[i][1]})
      whole(i) == (IF util < ps[i][1] THEN 0 ELSE ps[i][3]) + mul(onPart(i), ps[i][2])
      rest(i) == ((onPart(i) % Mantissa) * ps[i][2]) % Mantissa
  IN FoldFunctionOnSet(+, 0, [i \in DOMAIN ps |-> whole(i)], DOMAIN ps)
     + FoldFunctionOnSet(+, 0, [i \in DOMAIN ps |-> rest(i)], DOMAIN ps) \div Mantissa

\* Books in which the suppliers own equity: with all the cash there must be,
\* and with as much again beside the reserves.
booksOf(borrows, equity) ==
  {[cash |-> cash, borrows |-> borrows, reserves |-> cash + borrows - equity] :
     cash \in {Max({0, equity - borrows}), Max({equity, 2 * (equity - borrows)})}}

\* Books in which a curve is looked at: idle and fully lent, around its kinks
\* and in between, and with up to a hundred times as much lent as the
\* suppliers own.
samples(p) ==
  LET around(n) == {n - 1, n, n + 1}
      utilizations ==
        {Mantissa, Mantissa + Mantissa \div 2} \cup {2000 * i : i \in 0 .. 9}
        \cup (UNION {around(parts(p)[i][1]) : i \in DOMAIN parts(p)} \cap 0 .. Mantissa)
  IN UNION {booksOf(util, Mantissa) : util \in utilizations}
     \cup UNION {booksOf(100 * i, 100) : i \in {2, 5, 20, 100}}

\* More is lent than twenty times what the suppliers own.
overlent(b) == b.borrows > 20 * (b.cash + b.borrows - b.reserves)

\* At any utilization, above 1 as below, the borrow rate of the market follows
\* its configured curve, up to the two units that truncation can cost, at the
\* old and at the new blocks per year alike.  It stays below the rate at which
\* accrueInterest reverts: with a model with two kinks, which stops at 1, in
\* all books on which it answers, and with the others, which do not stop, in
\* all that are not overlent.  So repayments can only be locked in books in
\* which reserves were lent and the suppliers are left with less than a
\* twentieth of what is borrowed.  And suppliers and reserves share no more
\* than borrowers pay.
CurvesRight ==
  LET p == row.interestRateModel
  IN \A b \in samples(answer.params) :
       LET rate == getBorrowRate(answer.params, b)
           util == utilizationRate(p, b)
       IN /\ exactRate(p, util) \in rate .. rate + 2
          /\ p.model = "two-kinks" \/ ~ overlent(b) => rate <= borrowRateMax(answer.blocksPerYear)
          /\ getSupplyRate(p, b, row.reserveFactor)
             + mul(mul(util, rate), row.reserveFactor) <= mul(util, rate)
=============================================================================
