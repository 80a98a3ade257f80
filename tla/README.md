# A TLA+ model of the Venus Protocol

This directory holds a formal model of the contracts under `contracts/`, of the scripts under
`deploy/` that bring them to a network, and of the market tables under `helpers/` that these
scripts read: TLA+ modules translated from the source, TLC configurations that check them exhaustively on
small instances, and theorems that TLAPS proves for every value of the constants.
`PROJECT.json` is the index: it lists the parts of the system, the runs, the source lines of
every definition, the hazards of the code and the theorems.

## 1. The system

| part | state it keeps | operations |
|---|---|---|
| **VToken market** (`Tokens/VTokens/VToken.sol`, `VBep20.sol`) | cash, `totalBorrows`, `totalReserves`, `totalSupply`, `borrowIndex`, balances, debts as principal and index, two block counters, allowances | mint, redeem, redeemUnderlying, borrow, repay, liquidate, seize, transfer, accrueInterest, add and reduce reserves |
| **Comptroller** (a diamond: `MarketFacet`, `PolicyFacet`, `SetterFacet`, `RewardFacet`; `ComptrollerLens` for the liquidity of an account) | memberships (twice: a mapping and a list), the pool of each account, risk parameters per pool and market, caps, pauses, forced liquidations | the `*Allowed` hooks of the markets, enter and exit markets, enterPool, list and unlist, pools, governance setters |
| **XVS flywheel** (`RewardFacet`, `XVSRewardsHelper`) | supply and borrow indices per market, indices and accrued XVS per user | update and distribute at each hook, claim |
| **XVSVault and XVSStore** | pools, stakes, withdrawal requests, rewards owed, delegations and vote checkpoints | deposit, claim, request and execute withdrawals, delegate, add and change pools |
| **Interest rate models, CheckpointView** | parameters; two models and a time | the borrow rate of a utilization; the switch from one model to the other |
| **Market configuration** (`helpers/markets`, `helpers/tokens`, `chains.ts`) | tables of markets and tokens per network, blocks per year | names of models, networks on which a script is skipped |
| **Deployment scripts** (`deploy/`) | deployments and ids of scripts on disk; owners, roles and settings of the contracts on the chain | runs of all scripts or of a tag: deploy, configure, offer to governance, check |
| **VAIController** | minted VAI and past interest per account, a mint index | mint, repay, liquidate, accrue, rates and caps |
| **Prime, PrimeLiquidityProvider** | tokens, scores and their sum per market, score update rounds, income released | claim, issue, burn, updateScores, xvsUpdated, claimInterest |
| **VAIVault, VRTVault** | stakes and a reward per share; deposits at fixed interest | deposit, withdraw, claim |
| **Liquidator, BUSDLiquidator** | pending redemptions, shares of what is seized | liquidate and split, retry redemptions |
| **PegStability** | `vaiMinted` under a cap | swap VAI and a stable coin |
| proxies, router, debt migration helpers, tokens, vesting, treasury, lenses, legacy versions | see `PROJECT.json` | |

**How they interact.** A market asks the comptroller before every operation (`mintAllowed`,
`redeemAllowed`, `borrowAllowed`, ...), and the comptroller reads back the snapshots of all
markets the account has entered, through the lens, with prices of an oracle and the risk
parameters of the account's pool. A liquidation starts in the market of the debt, repays
there, and seizes vTokens in the market of the collateral. The vault informs Prime of stakes;
Prime reads balances of the markets. Governance calls the setters through an access control
contract. Everything happens in transactions: a call is atomic and reverts as a whole, but
between any two calls of a user anybody else, governance and the oracle may come. The scripts read
the market tables, find earlier results by name in the deployments on disk, and give contracts to
the timelock of governance, which accepts them and later adopts what the scripts generate.

**What is hard here.**

* *Orders of calls.* No call is scheduled; every sequence of legal calls by users, liquidators,
  governance and the oracle must keep the books, and many pairs of books are kept by hand: the
  supply and the balances, two records of membership, requests and three counters of them,
  points and their total, votes and stakes.
* *Truncation.* Every amount is an integer quotient. Who gains from each truncation, and whether
  two sums that are rounded differently can be subtracted, is decided by long sequences.
* *Checks in advance.* The comptroller checks a hypothetical position before the market moves
  anything, and the position afterwards is never looked at.
* *Changes under way.* Lock periods, reward rates, pool parameters, pauses, listings and whole
  contract versions change while users have open positions.
* *Runs that stop half-way.* A deployment is a list of scripts of many transactions. A script that
  throws ends the run, the process may die between any two transactions, and what was sent stays
  sent; the next run starts from the front, on some networks by tag, while governance accepts what
  it has been offered and developers edit the tables.
* *Exhaustion.* The store of rewards and the cash of a market run out in the middle of an operation.

What makes each part correct is written at the properties of its module (section 4); what each
hazard is and which property covers it is in `PROJECT.json` under `hazards`.

## 2. The modules

| module | models | notes |
|---|---|---|
| `Exponential` | `Utils/Exponential.sol`, `ExponentialNoError.sol` | fixed point arithmetic at a scale `expScale` |
| `Totals` | | the sum of a function as a cardinality, so that the library's theorems apply |
| `VTokenMarket` | the internal functions of `VToken.sol` | a market is a record; one operator per function |
| `VToken` | the public functions of one market | the comptroller is arbitrary: it lets through any call |
| `ComptrollerPolicy` | storage, risk parameters, lens, hooks | state and checks |
| `Comptroller` | the operations of the markets under the real hooks, and those of the facets | composes several `VTokenMarket` records |
| `Rewards` | `XVSRewardsHelper.sol`: the storage of the flywheel, its indices and their distribution | with what the flywheel promises; extended by `RewardFlywheel` and by the proofs |
| `RewardFlywheel` | `RewardFacet.sol` and the flywheel calls of `PolicyFacet.sol` | on top of `VTokenMarket` records; what else the hooks check is arbitrary |
| `XVSVault` | `XVSVault.sol`, `XVSStore.sol` | the pools of one reward token |
| `Prime` | `Prime.sol`, `PrimeLiquidityProvider.sol` | tokens, scores, rounds and income; stakes and capital change as the vault and the markets report |
| `VAI` | `VAIController.sol`, `PegStability.sol`, what the comptroller keeps for them | two lenders of one token |
| `VAIVault` | `VAIVault.sol`, `releaseToVault` of the comptroller | a vault and the hooks that feed it |
| `VRTVault` | `VRTVault.sol` | fixed interest out of the balance of the deposits |
| `Liquidator` | `Liquidator.sol`, `BUSDLiquidator.sol` | two splits of what is seized, and the queue of failed redemptions |
| `Periphery` | | `VAIVault`, `VRTVault` and `Liquidator` side by side: each moves alone, as the contracts share nothing |
| `MarketConfig` | `helpers/` | the market and token tables row by row, names of rate models, chains, skip conditions |
| `RateModels` | the three interest rate models, `CheckpointView.sol` | rates per year, beside the blocks per year the constructor divides by |
| `InterestDue` | | what the borrowers of `RateCheckpoint` owe at most: the property alone, so that the proofs can name it |
| `RateCheckpoint` | one market whose chain halves its block time | accruals, the switch to the view, the checkpoint and the fork in any order |
| `Deployment` | every script of `deploy/` | scripts as sequences of operations, one action per operation; hardhat-deploy as used |
| `Handover` | | abstract: a contract is created, set up, offered and accepted; `Deployment` implements it |
| `MC*` | | instances for TLC |
| `*Proofs` | | theorems, see section 5 |

**State.** A record or a variable has the name of the storage variable it stands for. A struct
inside a mapping becomes one function per field. `market.cash` is `getCashPrior()`, the balance
of the underlying. `blockNumber` (`currentBlock` in the flywheel) and `now` are the environment's, and anybody may send tokens to
a contract (`Donate...`, `Fund`).

**Actions.** One action is one external call: accrual of interest (with the sweep of the reserves
inside it), hook, checks and effects together, in the order of the source. The market functions of
`Comptroller` and `VToken` share the operators of `VTokenMarket`, so that the theorems and the runs
of both talk about the same code. A call that reverts changes nothing and is no step. A call that
returns an error code after accruing interest leaves the accrual behind, which is the step
`AccrueInterest`; one that returns it before changes nothing.

**Abstractions.**

* The interest rate model answers any rate of `BorrowRates`, including ones that accrueInterest
  refuses; only where it cannot answer at all (`borrowRateDefined`) is it translated.
* In `Comptroller` there is no VAI debt, `liquidatorContract` and delegates are not set, and the
  XVS flywheel and Prime, which the hooks also call, are left out of that module: they change
  neither markets nor memberships. `RewardFlywheel` in turn lets any call through the market
  itself can carry out, and a holder has a shortfall or not as it likes. The fees of redemptions to the treasury (`treasuryPercent`)
  are 0: they split what is paid out, not what the market loses.
* Underlying tokens take no fee on transfer and do not call back; `nonReentrant` is assumed to work.
* Amounts stay far below 2^256 (and votes below 2^96), so that overflow branches do not exist;
  underflow branches do, and are guards.
* In `Prime` an asset and its market are one; the score is an arbitrary function `ScoreOf` of the
  capped stake, the capital, the multiplier (one for supply and borrow) and alpha, because TLC
  cannot evaluate the fixed point exponentials of `Scores.sol`. Prices and the interest of the
  markets do not move scores between two reports. `sweepToken`, with which the owner may take the
  provider's funds, is left out: `InterestCovered` holds as long as it is not used.
* In `RewardFlywheel` the release of XVS to the VAI vault is made once per call instead of at each
  distribution, which is the same within one block; indices of 224 and blocks of 32 bits do not
  overflow; the four addresses that `grantXVSInternal` excludes are left out.
* In `VAI` the collateral of a minter and the shortfall of a borrower are arbitrary, the oracle may
  answer another price at every call, the treasury addresses and the receiver of interest are one
  account, the swapped stablecoin has 18 decimals and takes no fee on transfer. The collateral that
  a VAI liquidation seizes is that of `Comptroller`.
* In `VAIVault` every market hook is one step, and XVS that reaches or leaves the comptroller
  otherwise is arbitrary. `_setVAIVaultInfo`, which points the comptroller to another vault, is
  left out; its start block and minimum are chosen in the initial state.
* In `Liquidator` one vToken is worth one underlying and all prices are 1; the cash of the markets
  comes and goes as it likes. Who may liquidate whom only refuses calls and is left out.
* `MarketConfig` keeps what a script reads of a row: symbol, asset, rate model and reserve factor.
  Percentages are in units of half a basis point, the finest that occurs. A token address is
  shortened to what tells it apart from the others and from those at which there is no token.
* In `RateModels` a rate is kept per year: the division by the blocks per year costs less than
  1e-18 per block. A rate is asked for the books of a market, cash, borrows and reserves, as there; the model with
  two kinks stops at a utilization of 1, the others do not.
* In `Deployment` a call is its contract and method; arguments appear where a property reads them
  (the new owner, the model of a market). Operations that neither throw nor change anything are
  passed over, except where the process may die in front of them. `DeployMarket` is one step,
  though it deploys the shared implementation first. hardhat-deploy keeps a deployment there is;
  redeployment after a change of bytecode is left out. Market tables are edited only after the
  checkpoint has passed, as 016 and 017 are made for one set of markets.
* The pools of `XVSVault` share one reward token; time is one counter for block or timestamp, as
  in `TimeManagerV8`.

## 3. The runs

Every pass run explores its instance completely, up to the constraints named in the table
(`MCApprovalsEarly`, `MCSettled`), beyond which states are checked but not continued. Deadlock is
not checked: instances have bounds on time and amounts at which they stop, and a network on which
everything is deployed and handed over may rest. Some runs have a variable `scenario` that is
chosen in the initial state and picks the actors that take part; TLC explores the scenarios side
by side.

| run | instance | question |
|---|---|---|
| `market` (`MCVToken.cfg`) | 2 accounts, rates 0, 0.3 and a refused 0.4, blocks 1 to 3, initial exchange rate 1.5, at most 4 of underlying; allowances of 1 and without limit in the first block while nothing is borrowed (`MCApprovalsEarly`) | are balances, debts, index and exchange rate right after any sequence? |
| `market_reserves` | as `market` | what the storage comment says of reserves (violated, see section 6) |
| `comptroller` | 4 scenarios, 2 markets, 2 accounts. *positions*: the core pool and prices 1 and 2; *pools*: a borrower with deposits, the core pool and one more that governance sets up and changes; *liquidation*: both accounts with deposits, both pools with different incentives, forced liquidation on and off; *listing*: 1 market from before it is listed, all setters | memberships, debts and checks in advance; pool changes by user and governance; who pays for liquidations; unlisting |
| `flywheel` | 3 scenarios, 2 accounts, speeds 0 and 2, blocks 1 to 3. *speeds*: a market that is listed, used, given speeds and unlisted; *claims*: 2 markets, the comptroller short of XVS, claims by several holders, with shortfalls, as collateral, seizures; *liquidation* | rewards earned against rewards released, and against what each call may change |
| `flywheel_unlisted` | as `flywheel` | what the comment of `claimVenus` says (violated) |
| `xvs_vault` | 3 scenarios. *upgrade*: 2 users, one with two requests of the old form, a store that can run dry; *pools*: 1 user, pools added from none, points 1 and 3, rates 1 and 2; *votes*: 2 users with 2 staked at most, a lock period that falls from 2 to 1, times 1 to 3; the XVS pool of *pools* may start without one | stakes, requests, rewards and votes, also under governance |
| `prime` | 2 users, one market that is added, initialized and funded with 3, speed 2, times 1 to 3, two rounds; at most one token of each kind after the first instant (`MCSettled` names what is not explored further) | counters, scores and income |
| `prime_rounds` | 3 users, one round, alpha 1 and 2, no income | what the storage comment says of pending updates (violated) |
| `rate_checkpoint` | one market for each curve and reserve factor of the tables of the two live chains, books with a utilization of 0, 0.95 and 30 and books without one, checkpoint at 4, fork at 4 or 6, times 0 to 7 | the curves, and the interest charged around the checkpoint |
| `deployment` | 4 networks: a local one from nothing; a remote one with tags; the mainnet before the checkpoint with 5 standing markets and 2 tables; the testnet after it with contracts and a market still to deploy. One run may die | do the scripts configure, hand over and list everything, from wherever they stop? |
| `vai` | 3 scenarios. *debts*: alice owes, bob has VAI and repays or liquidates, rates 2 and 10 of 10 per block, 4 blocks; *pools*: changes of pool, rates, fee, pause; *swaps*: prices 0.8 and 1.2, fees 0 and 1/4, both caps in reach | is every VAI owed or covered, and does each debt follow what was paid? |
| `periphery` | 3 contracts that share nothing, one in each scenario. *liquidator*: 3 markets with cash 0 to 2, chunks of 1 and 2, incentives 1.25 and 1.5, both shares; *sharing*: the VAI vault with 2 users, donations of both tokens, index at scale 4, at most 4 changes of amounts; *release*: the comptroller with little XVS, rates 1 and 2, a minimum, pauses, 4 blocks; *VRT*: 2 users, rate 3/4 per block, ends of the accrual 2, 3 and 5 of 5 blocks, up to 4 VRT | is the part of the protocol kept and in the end redeemed; rewards against what arrived; is interest a matter of time alone? |

**Why the bounds are enough.** The scale of fixed point numbers is 10 (4 in the vaults and the liquidator), so that every product and
quotient is truncated in small instances as it is at 1e18, and rates such as 0.3 or 1.5 give each
truncation both an exact and an inexact case. Two accounts are the least with which a borrower, a
liquidator and a bystander's exchange rate differ, two markets the least for a debt and a
collateral, and two pools the least with a pool other than the core pool. Three blocks give two
accruals, the second on amounts that the first truncated. In `deployment` one crash can
leave any script half done, and runs that throw leave them half done once more; the sampled tables have markets of every kind of model, two that
differ only in the jump, a row whose model changed, a new row, a mock and a native token. Each property has a mutation of the code
(`PROJECT.json`, `mutants`; the operators named `..._...` in the modules) with which the same run
finds it violated, so that each instance does reach the case in question.
Symmetry of the accounts is used where the initial state is symmetric.

**Fairness.** Almost none is assumed for contracts. Nobody is obliged to call one, so that hardly
any liveness follows from their code; what the code owes its users is that a call *can* succeed, and
`WithdrawalsNeverStuck` and `ClaimsAllMarkets` say that with `ENABLED` as invariants. The exception
is `Liquidator`, whose queue is meant to be worked off: `WF(ReduceReserves)`, since `reduceReserves`
is open to anyone, costs its caller nothing but gas, and is part of every liquidation.

Deployments are meant to end, and `Deployment` states who makes them end. `WF(Step)`: a run does
not hang; it goes on, throws, or is killed (`Crash` is never obliged). `WF(Progress)`: governance
accepts what it is offered and adopts the generated setter, and the checkpoint comes; these share
one condition because each can happen only finitely often, so that none puts off another for
ever. `SF(Retry(i))`: the operator starts the scripts of some tags again and again; strong, because
a start is only possible between two runs. Nothing is assumed about runs without tags. The tags are
those of the README of the repository and of the networks' deployment histories; a property holds
with retries of these, whatever other runs come in between.

## 4. The properties

*Market* (`VToken`). `TokenConservation`: balances add up to the supply; `DebtSnapshots`: no debt
is measured against an index never reached; `InterestBounded`: no block is charged twice;
`RateKeptUnlessBurnt`, `BurnCostsBelowOneToken`: nobody dilutes those who hold vTokens, and the
truncation of `redeemUnderlying`, which is in favour of the redeemer, costs the others less than
one vToken. Three more need no run, for they are proved: `TypeOK`; `BlocksOrdered`: no accrual can
fail for its counters; `RedeemKeepsRate`.

*Comptroller*. `PositionsCounted`: the two records of memberships agree (`AssetsMatchMembership`), so that
the `assert` of `exitMarket` holds, and no debt escapes the liquidity calculation
(`BorrowersAreMembers`);
`SafeStaysSafe`: no call pushes an account out of its limits while prices, rates and parameters
stand still (up to one unit of rounding, which the runs show to be needed; it speaks of accounts
whose positions the lens can price before and after the step);
`BorrowableIsNotLiquidatable`, `PoolDebtsAllowed`: the same for pools;
`LiquidationFair`: collateral is never taken for more than the incentive; `UnlistedStaysFrozen`.

*Flywheel* (`RewardFlywheel`). `earned` is what an account has received plus what a claim in all
markets would pay now. `EarnedKept`: no call of anybody changes it within a block, whether it moves
balances, debts, speeds or listings, or pays in part, late or as collateral; `NeverOverpaid`: all
accounts together never earn more than the speeds have released, the suppliers whatever the
interest, the borrowers until interest is added. A borrow reward is divided by the total of the debts and
multiplied by each debt, and interest is truncated for the total once per accrual and for a debt once per
look at it, so that the debts may add up to more than their total (section 6) and their rewards to
more than was released; the condition of `NeverOverpaid` is that a market which rewards
borrowers has not charged interest yet. `EarnedKept` leaves out the steps
that add interest, in which the borrowed units of each debt move by a rounding.

*Vault* (`XVSVault`). `BooksAgree` (types, sorted requests that agree with their counters, stakes
that are there, debts of rewards that never exceed the rewards) and `WithdrawalsNeverStuck`: whoever
waits gets its stake back; `EarningsKept`, `RewardsWithinRate`: time is the only source of rewards, none
is lost and no more than the rate is given, up to one unit for each pool and each of its users and one unit of
reward per share, which is worth the supply of a pool over the scale; `VotesMatchStakes`, `PriorVotesRight` (the search of
the code answers as a search of the whole history), `PastVotesFixed`: votes follow stakes and the
past does not change. `EarningsKept` excepts the old withdrawals, which pay with
`safeRewardTransfer` directly and forget what the store does not have.

*Rates* (`RateCheckpoint`). `CurvesRight` looks at every curve from idle books to ones of which a hundred times
as much is lent as the suppliers own. Everywhere the rate follows the configured curve, rounded only once, up
to what truncation costs. With two kinks, where utilization stops at 1, it stays below the rate at which
`accrueInterest` reverts in all books on which the model answers; the other two models do not stop, and theirs stays below
as long as no more than twenty times what the suppliers own is lent (of the live curves the steepest, at the old blocks per year, is
refused from about 22 times on). Beyond that, and when the reserves reach cash plus borrows, which
`MCVTokenReserves.cfg` shows to be possible, every operation that accrues interest reverts, repayments included, until somebody sends
tokens to the market; the module has such books, and nobody is charged in them. `NeverOvercharged`: no order of accruals, switch, checkpoint
and fork charges more than the yearly rate for the time that has passed, provided that governance
switches before the checkpoint and the fork does not come before it (before the fork it needs neither). Without the second condition
it fails, for the old model goes on to be used on fast blocks.

*Deployment*. `RatesAsConfigured`: the names under which models and views are found, which drop
digits and are shared, never give a market the rates of another; `ImplementsHandover`: refinement, see below;
`EventuallyGoverned`, `MarketsGoLive`: whatever is deployed comes under governance and every
configured market is listed with a model that passes the checks of `999-checks`. The exception in
`EventuallyGoverned` is the vault proxy, its store and Prime's provider after a crash, whose
handover cannot be taken up again by the script that was cut off.

*Refinement.* `Handover` is what a deployment promises governance: a contract is offered when
everything in `Required` has been done to it, and is governance's for good once accepted. In
`Deployment` its state is spread over owners, pending owners and the calls that succeeded; the
`INSTANCE` in the module maps them, and `ImplementsHandover` says that no order of runs, tags,
throws and crashes leaves it. The setters of the vault proxy report a missing permission only as an
error code (`Silent`), so that a script goes on after them; the refinement shows that this does
no harm.

*VAI*. `SupplyIsOwed`: repayments burn the principal of debts and interest circulates, so that all
VAI there is is the principal of a debt or was swapped in, through every rounding; `DebtsFollowPayments`: a debt
changes by what is minted to it or paid for it and by nothing else, up to one unit more, or one less and the
interest on one unit (the last is not met on the instance, but elsewhere: at a scale of 10, of a principal of 6,
3 of past and 4 of new interest, a payment of 4 takes 3 and lowers the debt by 1); `PegCovered`: no
order of swaps and prices leaves PegStability with fewer stablecoins than it has minted VAI. Proved
without a run: `TypeOK`; `DebtsComputable`: no liquidity check can revert on VAI;
`VAIOnlyInCorePool`.

*VAI vault*. `NeverStuck` (a part of `LedgersAgree` of `MCPeriphery`): no subtraction reverts, in
particular not the one that every market hook reaches; `RewardsCovered`: pending and owed rewards are there, up to one unit for each time that a
debt was rounded; `EarningsKept`: nobody's step takes rewards from anybody. Its two exceptions are
needed: donated VAI shares in what is pending, and what the roundings have taken from the last one
is not paid.

*VRT vault*. `BooksAgree` (also in `LedgersAgree`): only interest that nobody funded is ever missing for the principals;
`InterestIsTime`: no call changes what an account has earned, and each block before the end adds
the rate.

*Liquidator*. `NothingForgotten`: the protocol's vTokens stay queued, once, until they are redeemed
whole, although entries are moved while the loop runs; `LiquidatorsNeverLose`: after both
splits at least what was repaid is left; `RedemptionsComplete`: once the markets stay able to pay
and a chunk length is set, the queue is emptied, again and again. Entries that cannot be redeemed
and fill a chunk keep those behind them waiting, and at the chunk length 0 that `initialize` leaves
nothing is redeemed: the property claims neither.

*Prime*. `BooksAgree`: no counter is taken below 0, totals, tokens and limits agree, and the sum that is only changed by differences is the sum of the scores, so that
no update and no burn can underflow; `RoundCanFinish`: as many holders wait
for an update as a round still asks for; `InterestCovered`: what is owed to all is there;
`EarnedKept`: no call of anybody changes what a user has earned so far.

## 5. The proofs

Proved by TLAPS, for every scale, rate, price, amount, finite set of accounts, and number of blocks,
markets and pools:

| module | theorem | says |
|---|---|---|
| `VTokenProofs` | `TypeCorrect`, `TokensConserved`, `SnapshotsReached`, `BlockCounters` | `[]TypeOK`, `[]TokenConservation`, `[]DebtSnapshots`, `[]BlocksOrdered` |
| | `RateKept`, `BurnBounded`, `RedeemHarmless` | the three action properties on the exchange rate |
| | `InterestAlwaysBounded` | `[]InterestBounded` |
| | `RewardsNeverOverpaid`, `EarnedIsKept` | `[]NeverOverpaid` and `EarnedKept` of `RewardFlywheel` |
| `ComptrollerProofs` | `TypeCorrect`, `DebtsAreCounted`, `UnlistedForGood` | `[]TypeOK`, `[]PositionsCounted`, `[]UnlistedStaysFrozen` |
| | `BorrowersAreSafe` | `[]BorrowableIsNotLiquidatable` |
| | `PoolsKeepTheirDebts`, `LiquidationsAreFair`, `SafeForGood` | `PoolDebtsAllowed`, `LiquidationFair`, `SafeStaysSafe` |
| `PrimeProofs` | `BooksAlwaysAgree`, `InterestIsCovered`, `RoundsCanFinish` | `[]BooksAgree`, `[]InterestCovered`, `[]RoundCanFinish` |
| | `NothingEarnedIsLost` | `EarnedKept` |
| `XVSVaultProofs` | `BooksAlwaysAgree`, `VotesAlwaysMatch`, `PriorVotesAlwaysRight` | `[]BooksAgree`, `[]VotesMatchStakes`, `[]PriorVotesRight` |
| | `PastVotesStay`, `EarningsStay`, `RateNeverExceeded` | `PastVotesFixed`, `EarningsKept`, `RewardsWithinRate` |
| `VAIProofs` | `TypeCorrect`, `DebtsAlwaysComputable`, `SupplyOwed`, `PegIsCovered`, `MintersStayInCorePool` | the invariants of `VAI` |
| | `DebtsAreFollowed` | `DebtsFollowPayments` |
| `PeripheryProofs` | `RewardsAreCovered`, `NobodyLosesRewards` | `[]RewardsCovered`, `EarningsKept` of `VAIVault` |
| | `OnlyTimeEarns` | `InterestIsTime` of `VRTVault` |
| | `NothingIsForgotten`, `LiquidatorsAreWhole` | `NothingForgotten`, `[]LiquidatorsNeverLose` of `Liquidator` |
| | `LedgersAlwaysAgree` | `[]LedgersAgree`: the books of all three |
| | `NobodyIsOvercharged` | `[]NeverOvercharged` of `RateCheckpoint` |

Every module first proves its inductive invariant (`Invariance`, in the vault `Invariant`) with one
lemma per action or group of actions; the invariants of the table follow from it, and the action
properties from it and the step. `VTokenMarketProofs` and `ArithmeticProofs` hold the lemmas that
several of them need.

**Assumptions.** Those named `...Assumption` in the modules, which TLC evaluates in the runs: positive
scales and initial exchange rate, finite sets of accounts and (for rewards) of markets, natural amounts,
rates, speeds and prices, reserve factors and percentages of at most 1, liquidation incentives of at least 1, and an initial state between two calls
(`InitialAssumption`: the initial markets of the comptroller conserve their tokens and have no debts
yet, thresholds are not below factors; the old requests of the vault are sorted and do not exceed
the stakes). `PrimeAssumption` asks of the score function that it answers natural numbers, and that
there is a multiplier if there is an initial market. `RateCheckpointAssumption` asks that every market has one of
the curves of the tables, that books are natural numbers, and that the possible forks are even natural
times, as a block before one takes two units. `VaultsAssumption` is that of the two vaults of `Periphery`. The
theorems about modules that are instantiated have the module's assumption as a hypothesis.

**Sums.** What is summed is a function, and its `Total` is a number of units (a cardinality), so that
the library's theorems on finite sets replace induction over the set of accounts.
`ArithmeticProofs` has what this gives (the sum of a sum, what moving an amount between two places
does, that a part is at most the whole, that truncating each term costs less than one unit for each)
and the facts about truncated products and quotients.

**The argument for a market.** `Inv` is `MarketInv` (types, conservation and snapshots together),
`Timely` (the block counters) and the types of the rest. The parts need each other: that a debt is a natural
number needs a positive index, `DebtSnapshots` needs the types of the index, and conservation is
only preserved by a redemption because a balance never exceeds the sum, which is what keeps
`totalSupply` natural. `InterestAlwaysBounded` compares the index with a recursive function of powers.
That the recursion has a solution, and one only, is proved first (`PowersUptoExists`, `PowersUnique`), by a least
counterexample, as everything about all numbers is here (`LeastNatural`, `SetInduction`: induction stated for a set, which the
provers can instantiate); one accrual over n blocks at a rate r multiplies the index by 1 + n r, which n blocks of
compounding at the highest rate exceed (Bernoulli's inequality). `VTokenMarketProofs` has one lemma per operator of `VTokenMarket` that says
what the operator keeps and what it does to supply and equity; `VTokenProofs` combines them into
one lemma per group of actions. The exchange rate lemmas compare `equity * expScale` with
`supply * rate` instead of quotients.

**The argument for the comptroller.** `Inv` is `TypeOK`, `MarketInv` and `Timely` of each market,
`PositionsCounted`, `FactorsOrdered` and `UnlistedStaysFrozen`. `PositionsCounted` is inductive only
beside `MarketInv`: `exitMarket` looks at the computed debt, and that a debt of 0 means that no principal is left
needs the snapshot of every debt to be at most the index. `FactorsOrdered` (a collateral
factor never exceeds its threshold, in every market of every pool, the core pool that others fall
back to included) is what `BorrowersAreSafe` rests on, term by term of the lens. `NextKeeps` proves the
invariant of the next state together with the two promises about steps, since both need the same
facts about what a liquidation does.

`SafeForGood` is the longest. A step in which no index moves accrues nothing, and the lens sees the
same before and after such an accrual (`QuietAccrual`, `AllAlike`), though one of the two markets may have been
accrued and the other not. The hook has then checked the very position the call leaves, except that the
lens adds a redeemed amount to the debts as one truncated product where the position afterwards is
short of it in another: the sums along the list of markets are turned into sums over the set of
markets (`SumsByMarket`), which differ in one term, and the truncations of that term differ by at most
one unit (`OneShortAtMost`). Who only receives tokens, or has debts repaid, is
a `BystanderSafe`. For entering and leaving markets the sum with and without one term is compared
(`SumsWithout`), and the new pool is checked as it is used. A liquidation of a safe account is
excluded by `BorrowersAreSafe`.

**The argument for Prime.** What is owed to a user is truncated at each settlement, and the truncated
amounts do not add up to an inductive bound. The invariant (`MarketInv` of `PrimeProofs`) is instead about
*entitlements*: the accrued amount at full scale plus the score times what the index has gained
since. Their sum never exceeds the income at full scale, since each distribution raises the
index by a quotient rounded down; a settlement only rounds an entitlement down. `InterestCovered`
follows by dividing. `CountInv` ties tokens, limits, and rounds: `RoundCanFinish` needs that who is
minted during a round is marked and who is burned is uncounted only if not marked. For
`NothingEarnedIsLost`, every operation accrues first, and what an accrual does twice in the same
moment is nothing (`Kept`, `Boosted`).

**The argument for the vault.** `Inv` has five parts. `StakesInv`: requests are sorted, what old and new requests
ask for is what the counters say, and who waits for an old withdrawal has not yet asked for a new one; without the
last, which the first revert of `requestWithdrawal` maintains, the counters could not be
subtracted from each other. `BackedInv`: the balance of each token covers its pool's stakes, which
needs different pools to have different tokens, and every recorded debt is covered at the
accumulated reward the pool has recorded (not the one it would have now, which a donation lowers).
`PoolsInv`, `RewardsInv`, and `VotesInv`, by which the checkpoints of a user are in strict order of
time.

Votes are compared with stakes through the totals over all pairs of pool and user (`VotesAlwaysMatch`).
The binary search is a recursive function on pairs of places; that `getPriorVotes` answers as the
history does is proved without induction over data: a closed form (`found`) solves the recursion of
the search, and two solutions on an ordered history cannot differ, since a least interval on which they did
would lead to a smaller one. A call writes at most one checkpoint, of now, so that no
entry of before moves (`PastVotesStay`). For `EarningsStay` the accumulated
reward that a pool *would have now* is the same before and after it is updated in the same moment, and a payment
moves what is pending into the balance or into the debt of the store. The exception of old
withdrawals from an empty store is the one that the property names.
`RateNeverExceeded` needs one more invariant: `totalAllocPoints` is the sum of the points of the pools
(`PointsCounted`), so that their parts of the rate add up to no more than it. Three truncated quotients follow each
other, rewards of a pool, reward per share, and what a stake is due (`QuotientRises`, `ShareRises`,
`DueRises`); the stakes that earn add up to no more than the supply they were divided by (`EarningBacked`), and
the totals by user and by pool are exchanged (`TotalSwap`).

**The argument for the flywheel.** What accrues is truncated for each account, market and side at
each distribution, so that the invariant (`Ledger` in `VTokenProofs`) is about the full scale, as for Prime: what was paid
and what has accrued, times the scale, plus what each index still owes all accounts by their
balances (`Unpaid`), plus what each speed has released since its index was moved
(`Coming`), is at most what was promised, times the scale. A distribution moves an index by a truncated
quotient, which gives no more to all shares than came (`KeyGain`; that the shares add up to no more than what was divided by is
`WeightFacts`, and for debts holds while there is no interest), then takes what the accounts are owed
and rounds it down (`PayOut`). The totals per account and those per market and side are exchanged by
`TotalSwap`. A call to a market accrues, distributes, and only then changes the balances and debts of the
accounts it has paid, whose difference to the index is 0 (`Paid`, `Replaces`): every call is a combination of
these three steps. A claim goes through its holders with a recursive function, about which
`ClaimsExist` and `ClaimsGood` are proved as for the powers. The promise about borrowers ends at the
first interest, so that the invariant carries the condition (`Quiet`), which an index that only grows cannot regain.

`EarnedIsKept` uses the same three steps. What one market and side still owe an account, at the index they would
have now (`EarnedBy`, with what was received and accrued), is followed through each piece of a
call and compared with what it was when the call began: unless a borrow index has grown since, it has not
changed (`Kept`). A distribution moves what is pending to what has accrued by the same
truncated product; moving an index twice in one block is moving it once; a balance or debt is replaced only for accounts at the
index (`Unshaken`); a grant moves what has accrued to what was received, or leaves it. As nothing is pending in a
market that was never listed, this sums up to `earned`. The snapshot is a parameter of the invariant, so that a claim,
which goes through markets and holders, is covered by the same recursion as above.

**The argument for the vaults and the liquidator.** The three share no state, and `Periphery` has one
theorem for each with its own invariant. The VAI vault owes amounts that are truncated at every change. Its invariant (`Sound`) keeps them exact:
pending and owed, at full scale and before truncation, are covered by the balance of XVS, and by one unit more for each
amount that was changed, `resized` of them; `RewardsCovered` follows by truncating. `NobodyLosesRewards`
compares the truncated amounts of one account before and after, which only its own calls settle.
The VRT vault's books are exact: types, every stake started after the vault (`StartsPassed`) and `BooksAgree`.
In the liquidator the queue is walked from its end by a recursive function; what holds after n turns (`AfterTurns`: the first
entries have not moved, whoever left the queue was redeemed whole) is kept by a turn, and the two splits
are arithmetic of truncated shares: the treasury's part of the bonus is at most the bonus.

**The argument for the checkpoint.** As long as the switch is in time, what has been charged plus the yearly
rate for the time since the last accrual is at most what is due. The chain's blocks are turned into time
(`timeOf`), of which a block after the fork has less; an accrual that spans fork or
checkpoint is charged by the old model for fewer blocks than that time has.

**The argument for VAI.** The invariants of `VAI` are inductive
only together, with the order of the accrual blocks: that the supply is what is owed needs that a
repayment takes no more out of past interest than there is, which is `DebtsComputable`, and that
every part of a repayment is a natural number, which is `TypeOK`. `PartsBounded` is the arithmetic
of it (the truncated share of a part is at most the part); the steps of mints, repayments and swaps
are combinations of moves between two accounts (`TotalMove`).
For `DebtsAreFollowed`, five truncated products meet in a partial repayment: the new interest before and after it,
and the shares of principal, interest and past interest. `RepaymentRounds` multiplies their bounds out.
That the interest left is computed on a principal that was burnt by a truncated share makes the difference
one-sided: at most one unit more than what is paid, but less by one unit and the interest on one.

**Model-checked only.**

* `WithdrawalsNeverStuck` and `ClaimsAllMarkets` use `ENABLED`; the liveness of `Deployment` and of the
  `Liquidator` uses fairness. Both are out of the provers' reach.
* `CurvesRight` and `RatesAsConfigured` are about the tables of this repository, which the instances hold whole. That
  `Deployment` implements `Handover` goes through every operation of every script; TLC
  does that. Of `Handover` alone nothing is proved: its guards are what it promises.

## 6. Where the code and its comments disagree

* `VTokenInterfaces.sol:96`: the reserves are not always held in the market. `redeemUnderlying`
  burns a truncated number of vTokens and is paid from cash that includes the reserves.
* `PrimeStorage.sol:94`: `pendingScoreUpdates` can be 0 while the score of a holder is yet to be
  updated. Alice holds a token when a round starts; Bob is minted, marked as updated, and burned,
  which takes `totalScoreUpdatesRequired` to 0; Carol is minted and no longer marked; updating
  Carol uses up Alice's place. `updateScores` then reverts for Alice until the next round, although
  anybody can still renew her scores with `accrueInterestAndUpdateScore`.
* `RewardFacet.sol:30`: `claimVenus(holder)` cannot claim in all markets once any market has been
  unlisted: `unlistMarket` leaves it in `allMarkets`, and `ensureListed` then reverts the claim of
  everybody, as it does `claimVenusAsCollateral` and `seizeVenus`. `_addMarketInternal` refuses to
  list the market again. A claim that names its markets still works.

Seen while translating, without a run:

* `VTokenInterfaces.sol:91`: `totalBorrows` can be less than the balance of one borrower, because
  interest on the total is truncated as a whole and the index is applied to each debt. The
  invariant `BorrowsCounted` of `VToken` says so; put into `MCVToken.cfg` it is violated.
* `JumpRateModel.sol:70` and `WhitePaperInterestRateModel.sol:51` promise a utilization between 0 and 1e18. It is
  more as soon as reserves exceed cash, and there is none (the call reverts) when they reach cash plus borrows.
* `ComptrollerStorage.sol:78` says that the liquidation threshold lies between 0 and the collateral
  factor, and `__setCollateralFactor` demands the opposite order; `ComptrollerStorage.sol:57` says
  that `accountAssets` is capped by `maxAssets`, which nothing reads.
* `LiquidatorStorage.sol:7`, `Liquidator.sol:281`: the treasury gets its percentage of the bonus, not
  of the seized amount, and the percentage may be anything up to 100. Of 5 vTokens seized with an
  incentive of 1.25, 50 percent for the treasury are 50 percent of 1 vToken, truncated to none.
* One holder with a shortfall in the list of a `claimVenus` reverts the claims of all; and a claim
  as collateral whose list of markets is empty reverts if the hook of its `mintBehalf` releases the
  XVS to the VAI vault that the market was to take.
* The scripts 009, 013 and 014 (configuration) have an id "required to prevent re-execution" but do
  not return true, so that hardhat-deploy never records them; repeated after they have succeeded,
  they throw.
* On the mainnet the model that the tables configure for vBTC, and on the testnet that of vWBNB, has
  no deployment at the old blocks per year: 016 throws there in a run of all scripts, which
  `README.md:99` suggests, and 017, 018 and 999 are not reached. 017 also throws in the run in which
  016 first writes the contract it deploys.
* While the VAI vault is paused its `updatePendingRewards` reverts, and with it every market hook
  that has XVS to release; a release that was skipped, for want of XVS or below the minimum, is made
  up later at the rate of then, for all blocks since.
* `setBaseRate` and `setFloatRate` of VAIController do not accrue: the new rate applies to all blocks
  since the last accrual. The liquidity calculation adds the VAI debt at the stored index.
* A deposit in VRTVault before `lastAccruingBlock` is set starts at block 0, which counts as not
  started: it earns nothing until the next deposit.
* `VaiUnitroller` is handed over by none of the scripts (`HandedOver` leaves it out).
* The testnet artifacts of the PT-USDe market are named `30Oct2025` where the tables say `30OCT2025`;
  the tables hold the symbols TRX and TUSD twice, so that the old and the new market of each would
  get the same token on a fresh chain; and vBNB's token is no contract, so that 011 would throw.
* A chain that speeds up before the checkpoint overcharges borrowers until then, an accrual that
  spans the checkpoint undercharges them.

## 7. What is left

Modelled next: `RewardFlywheel` and `VAI` under the real hooks of `Comptroller`, so that rewards,
VAI debts and the liquidity calculation meet in one state. Each is modelled with the others left
arbitrary, which is enough for the properties above; the composition would show, for instance, how
much a borrower gains from an index that nobody accrues.

To prove: the steps of the refinement of `Handover`. An abstract specification worth stating: a bank of
stakes that `XVSVault` implements (amounts locked until a time and paid once).

Not modelled, and why: proxies and the diamond only dispatch (the owner and the pending
implementation of the vault proxy are in `Deployment`); the router, the debt migration
helpers and the token redeemer keep no state; lenses do not change any; vesting, the VRT converter
and the treasury are single-user bookkeeping; the oracle, the access control contract and tokens
are external; `legacy/` and older versions repeat the modelled contracts. Overflow of 256-bit
arithmetic reverts in Solidity 0.8 and is out of the bounds of the models.
