---------------------------- MODULE MCDeployment ----------------------------
(* Four networks: a local one, deployed from nothing; a remote one, whose   *)
(* access control, token and oracle come from other repositories; the       *)
(* mainnet before its checkpoint; and the testnet after it, with three      *)
(* contracts and the last market still to deploy.                           *)
EXTENDS Deployment

MCNetworks == {"hardhat", "arbitrumone", "bscmainnet", "bsctestnet"}

\* What stands on the live chain: the names the scripts get or deploy.
MCStanding ==
  {"ComptrollerLens", "SnapshotLens", "VenusLens", "AccessControlManager",
   "Unitroller", "USDT", "USDC", "WBNB", "ETH", "VTreasury", "ResilientOracle",
   "NormalTimelock", "VAI", "PegStability_USDT", "SwapRouterCorePool", "Liquidator",
   "ProtocolShareReserve", "VBNBAdmin", "XVS", "XVSVaultProxy_Implementation",
   "XVSVaultProxy", "XVSStore", "Unitroller_Implementation", "PolicyFacet",
   "SetterFacet", "MarketFacet", "RewardFacet", "PrimeLiquidityProvider", "Prime",
   "VaiUnitroller_Implementation", "VaiUnitroller", "TokenRedeemer", "VBep20Delegate"}
MCToDeploy ==
  {"PegStability_USDT", "VBNBAdmin", "VaiUnitroller_Implementation", "VaiUnitroller"}

MCMocks == {mockName(t) : t \in {u \in ToSet(tokens("bsctestnet")) : u.isMock}}

\* Markets of every kind of model; two of them differ in the jump alone.  The
\* last is new, and on the mainnet vBTC had another model.
MCMainnet ==
  <<mainnet_vXVS, mainnet_vBNB, mainnet_vBTC, mainnet_vDAI, mainnet_vFDUSD,
    mainnet_vPT_USDe_30OCT2025>>
MCFormer == [mainnet_vBTC EXCEPT !.interestRateModel = Jump(0, 1800, 60000, 15000)]
MCFormerMainnet ==
  [i \in 1 .. 5 |-> IF MCMainnet[i] = mainnet_vBTC THEN MCFormer ELSE MCMainnet[i]]
MCTestnet == <<testnet_vBNB, testnet_vFDUSD, testnet_vPT_USDe_30OCT2025>>

MCConfigs ==
  [network \in MCNetworks |->
     CASE network = "bscmainnet" -> <<MCFormerMainnet, MCMainnet>>
       [] network = "bsctestnet" -> <<MCTestnet>>
       [] OTHER -> <<markets(network)>>]

MCModels(table, perYear) ==
  LET params == {row.interestRateModel : row \in ToSet(table)}
      named == [name \in {getRateModelName(p, perYear) : p \in params} |->
                  CHOOSE p \in params : getRateModelName(p, perYear) = name]
  IN [name \in DOMAIN named |-> rateModel(named[name], perYear)]

MCMarkets(table, perYear) ==
  [symbol \in {row.symbol : row \in ToSet(table)} |->
     LET row == CHOOSE r \in ToSet(table) : r.symbol = symbol
     IN rateModel(row.interestRateModel, perYear)]

MCOwner(deployed, account) ==
  [c \in Owned |-> IF c \in deployed THEN account ELSE "nobody"]

MCRecorded ==
  {"psm_initial_deploy", "vbnbadmin_deploy", "xvs_vault_configuration",
   "configure_prime", "vai_controller_config"}

MCConfigured == {<<c, m>> : c \in {"XVSVaultProxy"}, m \in Required["XVSVaultProxy"]}
                \cup {<<"XVSStore", "setNewOwner">>}

MCInitialStates ==
  [network \in MCNetworks |->
     CASE network = "hardhat" ->
            [forked |-> TRUE, deployments |-> {}, rateModels |-> empty,
             interestRateModel |-> empty, calls |-> {}, owner |-> MCOwner({}, "nobody"),
             migrations |-> {}]
       [] network = "arbitrumone" ->
            [forked |-> TRUE,
             deployments |-> {"AccessControlManager", "XVS", "ResilientOracle"},
             rateModels |-> empty, interestRateModel |-> empty, calls |-> {},
             owner |-> MCOwner({}, "nobody"), migrations |-> {}]
       [] network = "bscmainnet" ->
            [forked |-> FALSE, deployments |-> MCStanding,
             rateModels |-> MCModels(MCFormerMainnet, fromBlocksPerYear),
             interestRateModel |-> MCMarkets(MCFormerMainnet, fromBlocksPerYear),
             calls |-> MCConfigured, owner |-> MCOwner(MCStanding, "governance"),
             migrations |-> MCRecorded]
       [] network = "bsctestnet" ->
            LET standing == MCStanding \ MCToDeploy
            IN [forked |-> TRUE,
                deployments |-> standing \cup (MCMocks \ {"MockPT-USDe-30OCT2025"}),
                rateModels |-> MCModels(Front(MCTestnet), toBlocksPerYear),
                interestRateModel |-> MCMarkets(Front(MCTestnet), toBlocksPerYear),
                calls |-> MCConfigured, owner |-> MCOwner(standing, "governance"),
                migrations |-> {"xvs_vault_configuration", "configure_prime"}]]

MCTags ==
  {"all", "VTreasuryV8", "xvs-vault", "Prime", "InterestRateModel", "Markets",
   "RateModelCheckpoint", "RateModelCheckpointSetter", "CheckIRMs", "PSM",
   "VBNBAdmin", "VAIController", "configuration", "MockTokens"}

MCOperated ==
  [network \in MCNetworks |->
     CASE network = "hardhat" -> {"all"}
       [] network = "arbitrumone" -> {"VTreasuryV8", "xvs-vault", "Prime"}
       [] network = "bscmainnet" ->
            {"all", "InterestRateModel", "Markets", "RateModelCheckpoint",
             "RateModelCheckpointSetter", "CheckIRMs"}
       [] network = "bsctestnet" ->
            {"PSM", "VBNBAdmin", "VAIController", "configuration", "MockTokens",
             "InterestRateModel", "Markets"}]

\* Enough for every contract and market.
MCRetried ==
  [network \in MCNetworks |->
     CASE network = "hardhat" -> {}
       [] network = "arbitrumone" ->
            {<<1, "VTreasuryV8">>, <<2, "xvs-vault">>, <<3, "Prime">>}
       [] network = "bscmainnet" -> {<<1, "InterestRateModel">>, <<2, "Markets">>}
       [] network = "bsctestnet" ->
            {<<1, "PSM">>, <<2, "VBNBAdmin">>, <<3, "MockTokens">>, <<4, "Markets">>}]
=============================================================================
