---------------------------- MODULE MarketConfig ----------------------------
(***************************************************************************)
(* The configuration of a deployment: the chains, the tokens and the       *)
(* markets of helpers/, and the names of the interest rate models.         *)
(*                                                                         *)
(* Rates, kinks and factors are mantissas; the unit here is half a basis   *)
(* point (Mantissa stands for 1e18), of which every value in the tables is *)
(* a multiple, so that mantissaToBps truncates here exactly when it does   *)
(* there.  An address is its first digits.  Caps, collateral factors and   *)
(* initial supplies, which only governance proposals read, are left out.   *)
(***************************************************************************)
EXTENDS Integers, Sequences, SequencesExt

Mantissa == 20000

WhitePaper(baseRatePerYear, multiplierPerYear) ==
  [model |-> "whitepaper", baseRatePerYear |-> baseRatePerYear,
   multiplierPerYear |-> multiplierPerYear]

Jump(baseRatePerYear, multiplierPerYear, jumpMultiplierPerYear, kink) ==
  [model |-> "jump", baseRatePerYear |-> baseRatePerYear,
   multiplierPerYear |-> multiplierPerYear,
   jumpMultiplierPerYear |-> jumpMultiplierPerYear, kink |-> kink]

TwoKinks(base, multiplier, kink, multiplier2, base2, kink2, jumpMultiplier) ==
  [model |-> "two-kinks", baseRatePerYear |-> base, multiplierPerYear |-> multiplier,
   kink |-> kink, multiplierPerYear2 |-> multiplier2, baseRatePerYear2 |-> base2,
   kink2 |-> kink2, jumpMultiplierPerYear |-> jumpMultiplier]

Market(symbol, asset, interestRateModel, reserveFactor) ==
  [symbol |-> symbol, asset |-> asset, interestRateModel |-> interestRateModel,
   reserveFactor |-> reserveFactor]

Token(symbol, tokenAddress) ==
  [symbol |-> symbol, isMock |-> FALSE, tokenAddress |-> tokenAddress]
MockToken(symbol) == [symbol |-> symbol, isMock |-> TRUE, tokenAddress |-> ""]
-----------------------------------------------------------------------------
(* Chains. *)

ChainsOfBlocks ==
  {"hardhat", "bsctestnet", "bscmainnet", "sepolia", "ethereum",
   "opbnbtestnet", "opbnbmainnet"}
ChainsOfTime ==
  {"arbitrumsepolia", "arbitrumone", "opsepolia", "opmainnet", "basesepolia",
   "basemainnet", "unichainsepolia", "unichainmainnet", "zksyncsepolia",
   "zksyncmainnet"}
Chains == ChainsOfBlocks \cup ChainsOfTime

isBlockBasedChain(chain) == chain \in ChainsOfBlocks

\* Of a block based chain.
blocksPerYear(chain) ==
  CASE chain = "hardhat" -> 100
    [] chain \in {"bsctestnet", "bscmainnet"} -> 42048000
    [] chain \in {"sepolia", "ethereum"} -> 2628000
    [] chain \in {"opbnbtestnet", "opbnbmainnet"} -> 63072000

skipRemoteNetworks(chain) == chain \notin {"bscmainnet", "bsctestnet", "hardhat"}
skipSourceNetworks(chain) == chain \in {"bsctestnet", "bscmainnet"}
onlyHardhat(chain) == chain # "hardhat"
-----------------------------------------------------------------------------
(* Names of interest rate models. *)

\* BigNumber.div truncates towards zero.
mantissaToBps(num) == IF num >= 0 THEN num \div 2 ELSE -((-num) \div 2)

\* The jump is not part of the name of a jump model.
getRateModelName_noJump(params, perYear) ==
  <<params.model, [field \in DOMAIN params \ {"jumpMultiplierPerYear", "model"} |->
                     mantissaToBps(params[field])], perYear>>

getRateModelName(params, perYear) ==
  LET bps(field) == mantissaToBps(params[field])
  IN CASE params.model = "whitepaper" ->
            <<"WhitePaperInterestRateModel",
              <<bps("baseRatePerYear"), bps("multiplierPerYear")>>, perYear>>
       [] params.model = "jump" ->
            <<"JumpRateModel",
              <<bps("baseRatePerYear"), bps("multiplierPerYear"),
                bps("jumpMultiplierPerYear"), bps("kink")>>, perYear>>
       [] params.model = "two-kinks" ->
            <<"TwoKinks",
              <<bps("baseRatePerYear"), bps("multiplierPerYear"), bps("kink"),
                bps("multiplierPerYear2"), bps("baseRatePerYear2"), bps("kink2"),
                bps("jumpMultiplierPerYear")>>, perYear>>
-----------------------------------------------------------------------------
(* Tokens.  indexBySymbol puts what it has in front of the next entry: the *)
(* first token of a symbol wins.                                           *)

hardhatTokens ==
  <<MockToken("FDUSD"), MockToken("WBNB"), MockToken("DOGE"),
    MockToken("USDT")>>

mainnetTokens ==
  <<Token("USDC", "0x8AC76a"), Token("USDT", "0x55d398"),
    Token("BUSD", "0xe9e7CE"), Token("SXP", "0x47BEAd"),
    Token("XVS", "0xcF6BB5"), Token("BNB", "native"),
    Token("BTCB", "0x7130d2"), Token("ETH", "0x2170Ed"),
    Token("LTC", "0x433866"), Token("XRP", "0x1D2F0d"),
    Token("BCH", "0x8fF795"), Token("DOT", "0x708360"),
    Token("LINK", "0xF8A0BF"), Token("DAI", "0x1AF3F3"),
    Token("FIL", "0x0D8Ce2"), Token("BETH", "0x250632"),
    Token("ADA", "0x3EE220"), Token("DOGE", "0xbA2aE4"),
    Token("MATIC", "0xCC4272"), Token("Cake", "0x0E09Fa"),
    Token("AAVE", "0xfb6115"), Token("TUSD", "0x14016E"),
    Token("TRX", "0x85EAC5"), Token("TRX", "0xCE7de6"),
    Token("wBETH", "0xa2E335"), Token("TUSD", "0x40af38"),
    Token("UNI", "0xBf5140"), Token("FDUSD", "0xc5f0f7"),
    Token("TWT", "0x4B0F18"), Token("SolvBTC", "0x4aae82"),
    Token("THE", "0xF4C8E3"), Token("SOL", "0x570A5D"),
    Token("lisUSD", "0x0782b6"), Token("PT-sUSDE-26JUN2025", "0xdd8094"),
    Token("sUSDe", "0x211cc4"), Token("USDe", "0x5d3a1f"),
    Token("USD1", "0x8d0D00"), Token("xSolvBTC", "0x1346b6"),
    Token("asBNB", "0x77734e"), Token("WBNB", "0xbb4CdB"),
    Token("PT-USDe-30OCT2025", "0x607c83")>>

testnetTokens ==
  <<Token("USDC", "0x16227D"), Token("USDT", "0xA11c8D"),
    Token("BUSD", "0x8301F2"), Token("SXP", "0x751079"),
    Token("BNB", "0x000000"), Token("XVS", "0xB9e0E7"),
    Token("ETH", "0x98f7A8"), Token("LTC", "0x969F14"),
    Token("XRP", "0x3022A3"), Token("BTCB", "0xA808e3"),
    Token("ADA", "0xcD34BC"), Token("DOGE", "0x67D262"),
    Token("CAKE", "0xe8bd7c"), Token("MATIC", "0xcfeb01"),
    Token("AAVE", "0x4B7268"), Token("TUSD", "0xFeC3A6"),
    Token("TRX", "0x19E721"), Token("TRX", "0x7D2184"),
    Token("wBETH", "0x9c37E5"), Token("TUSD", "0xB32171"),
    Token("UNI", "0x8D2f06"), MockToken("FDUSD"), MockToken("SolvBTC"),
    Token("TWT", "0xb99C6B"), MockToken("THE"), MockToken("SOL"),
    Token("lisUSD", "0xe73774"), MockToken("PT-sUSDE-26JUN2025"),
    MockToken("sUSDe"), MockToken("USDe"), MockToken("USD1"),
    MockToken("xSolvBTC"), Token("asBNB", "0xc625f0"),
    Token("WBNB", "0xae13d9"), MockToken("PT-USDe-30OCT2025")>>

tokens(chain) ==
  CASE chain = "hardhat" -> hardhatTokens
    [] chain = "bscmainnet" -> mainnetTokens
    [] chain = "bsctestnet" -> testnetTokens
    [] OTHER -> <<>>

indexBySymbol(list, symbol) == SelectSeq(list, LAMBDA t : t.symbol = symbol)[1]
getToken(chain, symbol) == indexBySymbol(tokens(chain), symbol)
-----------------------------------------------------------------------------
(* Markets. *)

hardhat_vFDUSD == Market("vFDUSD", "FDUSD",
  Jump(0, 1375, 50000, 16000), 2000)
hardhat_vDOGE == Market("vDOGE", "DOGE",
  Jump(0, 1375, 50000, 16000), 2000)
hardhat_vUSDT == Market("vUSDT", "USDT",
  Jump(0, 1375, 50000, 16000), 2000)

hardhatMarkets ==
  <<hardhat_vFDUSD, hardhat_vDOGE, hardhat_vUSDT>>

mainnet_vUSDC == Market("vUSDC", "USDC",
  TwoKinks(0, 2000, 16000, 14000, 0, 18000, 60000), 2000)
mainnet_vUSDT == Market("vUSDT", "USDT",
  TwoKinks(0, 2000, 16000, 14000, 0, 18000, 60000), 2000)
mainnet_vBUSD == Market("vBUSD", "BUSD",
  WhitePaper(0, 0), 20000)
mainnet_vSXP == Market("vSXP", "SXP",
  Jump(10000, 6000, 60000, 12000), 20000)
mainnet_vXVS == Market("vXVS", "XVS",
  WhitePaper(0, 48000), 5000)
mainnet_vBNB == Market("vBNB", "BNB",
  TwoKinks(0, 900, 14000, 28000, 0, 16000, 60000), 6000)
mainnet_vBTC == Market("vBTC", "BTCB",
  Jump(50, 734, 40000, 15000), 4000)
mainnet_vETH == Market("vETH", "ETH",
  Jump(0, 600, 90000, 18000), 4000)
mainnet_vLTC == Market("vLTC", "LTC",
  Jump(400, 2400, 60000, 12000), 4000)
mainnet_vXRP == Market("vXRP", "XRP",
  Jump(400, 2400, 60000, 12000), 4000)
mainnet_vBCH == Market("vBCH", "BCH",
  Jump(400, 3000, 60000, 12000), 4000)
mainnet_vDOT == Market("vDOT", "DOT",
  Jump(400, 3000, 60000, 12000), 4000)
mainnet_vLINK == Market("vLINK", "LINK",
  Jump(400, 2400, 60000, 12000), 4000)
mainnet_vDAI == Market("vDAI", "DAI",
  Jump(0, 2000, 50000, 16000), 2000)
mainnet_vFIL == Market("vFIL", "FIL",
  Jump(400, 4000, 60000, 10000), 4000)
mainnet_vBETH == Market("vBETH", "BETH",
  Jump(0, 3000, 60000, 12000), 20000)
mainnet_vADA == Market("vADA", "ADA",
  Jump(400, 3000, 60000, 12000), 4000)
mainnet_vDOGE == Market("vDOGE", "DOGE",
  Jump(400, 4000, 60000, 10000), 4000)
mainnet_vMATIC == Market("vMATIC", "MATIC",
  Jump(400, 2400, 60000, 12000), 4000)
mainnet_vCAKE == Market("vCAKE", "Cake",
  Jump(400, 4000, 60000, 10000), 5000)
mainnet_vAAVE == Market("vAAVE", "AAVE",
  Jump(0, 4000, 60000, 10000), 5000)
mainnet_vTUSDOLD == Market("vTUSDOLD", "TUSD",
  WhitePaper(0, 0), 20000)
mainnet_vTRXOLD == Market("vTRXOLD", "TRX",
  Jump(400, 20000, 60000, 200), 20000)
mainnet_vTRX == Market("vTRX", "TRX",
  Jump(400, 3000, 60000, 12000), 5000)
mainnet_vWBETH == Market("vWBETH", "wBETH",
  Jump(0, 2000, 40000, 15000), 4000)
mainnet_vTUSD == Market("vTUSD", "TUSD",
  Jump(0, 2000, 50000, 16000), 2000)
mainnet_vUNI == Market("vUNI", "UNI",
  Jump(0, 4000, 60000, 10000), 5000)
mainnet_vFDUSD == Market("vFDUSD", "FDUSD",
  Jump(0, 2000, 100000, 16000), 2000)
mainnet_vTWT == Market("vTWT", "TWT",
  Jump(400, 4000, 60000, 10000), 5000)
mainnet_vSolvBTC == Market("vSolvBTC", "SolvBTC",
  Jump(0, 1800, 40000, 10000), 4000)
mainnet_vTHE == Market("vTHE", "THE",
  Jump(0, 1800, 70000, 9000), 5000)
mainnet_vSOL == Market("vSOL", "SOL",
  Jump(400, 4000, 60000, 10000), 4000)
mainnet_vlisUSD == Market("vlisUSD", "lisUSD",
  Jump(0, 2000, 50000, 16000), 2000)
mainnet_vPT_sUSDE_26JUN2025 == Market("vPT-sUSDE-26JUN2025", "PT-sUSDE-26JUN2025",
  Jump(0, 2000, 50000, 16000), 0)
mainnet_vsUSDe == Market("vsUSDe", "sUSDe",
  Jump(0, 2000, 50000, 16000), 0)
mainnet_vUSDe == Market("vUSDe", "USDe",
  Jump(0, 1500, 10000, 16000), 5000)
mainnet_vUSD1 == Market("vUSD1", "USD1",
  Jump(0, 2000, 50000, 16000), 5000)
mainnet_vxSolvBTC == Market("vxSolvBTC", "xSolvBTC",
  Jump(0, 1800, 40000, 10000), 2000)
mainnet_vasBNB == Market("vasBNB", "asBNB",
  Jump(0, 1800, 40000, 10000), 2000)
mainnet_vWBNB == Market("vWBNB", "WBNB",
  TwoKinks(0, 900, 14000, 28000, 0, 16000, 60000), 6000)
mainnet_vPT_USDe_30OCT2025 == Market("vPT-USDe-30OCT2025", "PT-USDe-30OCT2025",
  Jump(0, 2000, 50000, 16000), 0)

mainnetMarkets ==
  <<mainnet_vUSDC, mainnet_vUSDT, mainnet_vBUSD, mainnet_vSXP, mainnet_vXVS,
    mainnet_vBNB, mainnet_vBTC, mainnet_vETH, mainnet_vLTC, mainnet_vXRP,
    mainnet_vBCH, mainnet_vDOT, mainnet_vLINK, mainnet_vDAI, mainnet_vFIL,
    mainnet_vBETH, mainnet_vADA, mainnet_vDOGE, mainnet_vMATIC, mainnet_vCAKE,
    mainnet_vAAVE, mainnet_vTUSDOLD, mainnet_vTRXOLD, mainnet_vTRX,
    mainnet_vWBETH, mainnet_vTUSD, mainnet_vUNI, mainnet_vFDUSD, mainnet_vTWT,
    mainnet_vSolvBTC, mainnet_vTHE, mainnet_vSOL, mainnet_vlisUSD,
    mainnet_vPT_sUSDE_26JUN2025, mainnet_vsUSDe, mainnet_vUSDe, mainnet_vUSD1,
    mainnet_vxSolvBTC, mainnet_vasBNB, mainnet_vWBNB,
    mainnet_vPT_USDe_30OCT2025>>

testnet_vUSDC == Market("vUSDC", "USDC",
  TwoKinks(0, 2000, 16000, 14000, 0, 18000, 60000), 2000)
testnet_vUSDT == Market("vUSDT", "USDT",
  TwoKinks(0, 2000, 16000, 14000, 0, 18000, 60000), 2000)
testnet_vBUSD == Market("vBUSD", "BUSD",
  WhitePaper(400, 2000), 20000)
testnet_vSXP == Market("vSXP", "SXP",
  WhitePaper(400, 2000), 2000)
testnet_vBNB == Market("vBNB", "BNB",
  TwoKinks(0, 700, 16000, 35000, 0, 18000, 60000), 6000)
testnet_vXVS == Market("vXVS", "XVS",
  WhitePaper(0, 20000), 5000)
testnet_vETH == Market("vETH", "ETH",
  WhitePaper(400, 2000), 2000)
testnet_vLTC == Market("vLTC", "LTC",
  WhitePaper(400, 2000), 2000)
testnet_vXRP == Market("vXRP", "XRP",
  WhitePaper(400, 2000), 2000)
testnet_vBTC == Market("vBTC", "BTCB",
  WhitePaper(400, 2000), 2000)
testnet_vADA == Market("vADA", "ADA",
  WhitePaper(400, 2000), 0)
testnet_vDOGE == Market("vDOGE", "DOGE",
  WhitePaper(400, 2000), 0)
testnet_vCAKE == Market("vCAKE", "CAKE",
  Jump(400, 3000, 60000, 12000), 5000)
testnet_vMATIC == Market("vMATIC", "MATIC",
  Jump(400, 3000, 60000, 12000), 2000)
testnet_vAAVE == Market("vAAVE", "AAVE",
  Jump(0, 4000, 60000, 10000), 0)
testnet_vTUSDOLD == Market("vTUSDOLD", "TUSD",
  Jump(0, 1000, 10000, 16000), 20000)
testnet_vTRXOLD == Market("vTRXOLD", "TRX",
  Jump(400, 3000, 60000, 12000), 4000)
testnet_vTRX == Market("vTRX", "TRX",
  Jump(400, 3000, 60000, 12000), 4000)
testnet_vWBETH == Market("vWBETH", "wBETH",
  Jump(0, 2000, 40000, 15000), 4000)
testnet_vTUSD == Market("vTUSD", "TUSD",
  Jump(0, 2000, 21800, 16000), 2000)
testnet_vUNI == Market("vUNI", "UNI",
  Jump(0, 4000, 60000, 10000), 5000)
testnet_vFDUSD == Market("vFDUSD", "FDUSD",
  Jump(0, 2000, 50000, 16000), 2000)
testnet_vSolvBTC == Market("vSolvBTC", "SolvBTC",
  Jump(0, 1800, 40000, 10000), 4000)
testnet_vTWT == Market("vTWT", "TWT",
  Jump(400, 4000, 60000, 10000), 5000)
testnet_vTHE == Market("vTHE", "THE",
  Jump(0, 1800, 70000, 9000), 5000)
testnet_vSOL == Market("vSOL", "SOL",
  Jump(400, 4000, 60000, 10000), 4000)
testnet_vlisUSD == Market("vlisUSD", "lisUSD",
  Jump(0, 2000, 50000, 16000), 2000)
testnet_vPT_sUSDE_26JUN2025 == Market("vPT-sUSDE-26JUN2025", "PT-sUSDE-26JUN2025",
  Jump(0, 2000, 50000, 16000), 0)
testnet_vsUSDe == Market("vsUSDe", "sUSDe",
  Jump(0, 2000, 50000, 16000), 0)
testnet_vUSDe == Market("vUSDe", "USDe",
  Jump(0, 1500, 10000, 16000), 5000)
testnet_vUSD1 == Market("vUSD1", "USD1",
  Jump(0, 2000, 50000, 16000), 5000)
testnet_vxSolvBTC == Market("vxSolvBTC", "xSolvBTC",
  Jump(0, 1800, 40000, 10000), 2000)
testnet_vasBNB == Market("vasBNB", "asBNB",
  Jump(0, 1800, 40000, 10000), 2000)
testnet_vWBNB == Market("vWBNB", "WBNB",
  TwoKinks(0, 900, 14000, 28000, 0, 16000, 60000), 6000)
testnet_vPT_USDe_30OCT2025 == Market("vPT-USDe-30OCT2025", "PT-USDe-30OCT2025",
  Jump(0, 2000, 50000, 16000), 0)

testnetMarkets ==
  <<testnet_vUSDC, testnet_vUSDT, testnet_vBUSD, testnet_vSXP, testnet_vBNB,
    testnet_vXVS, testnet_vETH, testnet_vLTC, testnet_vXRP, testnet_vBTC,
    testnet_vADA, testnet_vDOGE, testnet_vCAKE, testnet_vMATIC, testnet_vAAVE,
    testnet_vTUSDOLD, testnet_vTRXOLD, testnet_vTRX, testnet_vWBETH,
    testnet_vTUSD, testnet_vUNI, testnet_vFDUSD, testnet_vSolvBTC,
    testnet_vTWT, testnet_vTHE, testnet_vSOL, testnet_vlisUSD,
    testnet_vPT_sUSDE_26JUN2025, testnet_vsUSDe, testnet_vUSDe, testnet_vUSD1,
    testnet_vxSolvBTC, testnet_vasBNB, testnet_vWBNB,
    testnet_vPT_USDe_30OCT2025>>

markets(chain) ==
  CASE chain = "hardhat" -> hardhatMarkets
    [] chain = "bscmainnet" -> mainnetMarkets
    [] chain = "bsctestnet" -> testnetMarkets
    [] OTHER -> <<>>
=============================================================================
