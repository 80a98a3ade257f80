----------------------------- MODULE Deployment -----------------------------
(***************************************************************************)
(* The deployment scripts of deploy/, as hardhat-deploy runs them against  *)
(* one network: an operator starts all of them or those of a tag, in the   *)
(* order of their files; each is a sequence of operations, of which any    *)
(* may throw, which ends the whole run, and between any two of which the   *)
(* process may die.  Governance, the developers and the chain act between  *)
(* the operations.                                                         *)
(*                                                                         *)
(* hardhat-deploy (external): get throws for a name without a deployment;  *)
(* deploy keeps the deployment there is; a script with an id is skipped    *)
(* once it is recorded, which happens when it returns true.                *)
(***************************************************************************)
EXTENDS RateModels

CONSTANTS
  Networks,       \* the networks deployed to
  Configs,        \* per network: the market tables, one after the other, as
                  \* developers commit them
  InitialStates,  \* what was deployed before
  Tags,           \* of the scripts; "all" is a run without tags
  Operated,       \* per network: the tags its operator uses
  Retried,        \* per network: those started again until they have come
                  \* through, numbered
  MaxRetried,     \* the highest number
  MaxCrashes      \* bound of the model on the runs that die

VARIABLES
  chain,             \* hre.network.name; fixed
  version,           \* of the market table
  forked,            \* whether the checkpoint has passed
  deployments,       \* names with a deployment, models and markets excepted
  rateModels,        \* deployed interest rate models, by name
  views,             \* deployed checkpoint views, by the name of the old model
  interestRateModel, \* of each deployed market
  setterCode,        \* the generated contract: a view per market
  setter,            \* the deployed one
  calls,             \* configuration calls that succeeded
  owner, pendingOwner,
  migrations,        \* ids of recorded scripts
  run,               \* the scripts still to run, the operation to start, and the
                     \* generated contract that was compiled before
  crashes

artifactVars == <<deployments, rateModels, views, setterCode, setter>>
contractVars == <<interestRateModel, calls, owner, pendingOwner>>
vars == <<chain, version, forked, artifactVars, contractVars, migrations, run, crashes>>

Owned ==
  {"VTreasuryV8", "PegStability_USDT", "VBNBAdmin", "XVSVaultProxy", "XVSStore",
   "Prime", "PrimeLiquidityProvider", "VaiUnitroller"}

empty == [x \in {} |-> x]
idle == run.scripts = <<>>
isLive(network) == network # "hardhat"
live == isLive(chain)
rows == Configs[chain][version]

isDeployed(name) == name \in deployments \/ name \in DOMAIN interestRateModel

\* The account the scripts hand contracts over to: the timelock of the
\* network, elsewhere an address written in the scripts.
getContractAddressOrNullAddress(name) ==
  IF isDeployed(name) THEN "governance" ELSE "null"
adminAccount ==
  IF chain = "hardhat" THEN "deployer"
  ELSE IF chain \in {"bscmainnet", "bsctestnet"}
    THEN getContractAddressOrNullAddress("NormalTimelock")
    ELSE "governance"
-----------------------------------------------------------------------------
(* Operations of a script. *)

deploy(c) == [kind |-> "deploy", contract |-> c]
get(c) == [kind |-> "get", contract |-> c]
call(c, m) == [kind |-> "call", contract |-> c, method |-> m]
callUnlessAdmin(c, m) == [kind |-> "callUnlessAdmin", contract |-> c, method |-> m]
forMarkets(body) == [kind |-> "forMarkets", body |-> body]
assert(condition) == [kind |-> "assert", holds |-> condition]
only(condition, ops) == IF condition THEN ops ELSE <<>>

deployAll(names) == [i \in DOMAIN names |-> deploy(names[i])]
getAll(names) == [i \in DOMAIN names |-> get(names[i])]

\* A script without an id is never recorded.
script(tags, skip, ops) ==
  [tags |-> tags, skip |-> skip, ops |-> ops, id |-> "", returns |-> FALSE]
-----------------------------------------------------------------------------
(* The scripts. *)

lenses(network) ==
  script({"Lens"}, skipRemoteNetworks(network),
         deployAll(<<"ComptrollerLens", "SnapshotLens", "VenusLens">>))

comptroller(network) ==
  script({"Comptroller"}, skipRemoteNetworks(network),
         only(~isLive(network), <<deploy("AccessControlManager"), deploy("Unitroller"),
                       call("AccessControlManager", "giveCallPermission"),
                       call("Unitroller", "_setAccessControl")>>))

interestRateModels(network) ==
  script({"InterestRateModel"}, skipRemoteNetworks(network),
         <<assert(isBlockBasedChain(network))>>
         \o only(~isLive(network), deployAll(<<"InterestRateModelVUSDC", "InterestRateModelVETH">>))
         \o <<forMarkets("rateModel")>>)

deployVBep20(network) ==
  script({"VBep20"}, onlyHardhat(network),
         deployAll(<<"USDT", "USDC", "WBNB", "ETH">>)
         \o getAll(<<"Unitroller", "InterestRateModelVUSDC">>)
         \o deployAll(<<"vUSDC", "vETH", "vBNB">>))

supportMarkets(network) ==
  script({"VBep20"}, onlyHardhat(network),
         getAll(<<"vUSDC", "vETH", "vBNB", "Unitroller">>)
         \o <<call("Unitroller", "_supportMarket vUSDC"),
              call("Unitroller", "_supportMarket vETH"),
              call("Unitroller", "_supportMarket vBNB")>>)

\* Ownership is offered to nobody.
treasury_kept(network) ==
  script({"VTreasuryV8"}, skipSourceNetworks(network), <<deploy("VTreasuryV8")>>)

\* Ownership is offered only to who does not own the treasury yet.
treasury(network) ==
  script({"VTreasuryV8"}, skipSourceNetworks(network),
         <<deploy("VTreasuryV8"), callUnlessAdmin("VTreasuryV8", "transferOwnership")>>)

\* The oracles (external) are deployed first; the proxy is initialized in the
\* transaction that creates it.
psm(network) ==
  [script({"PSM"}, skipRemoteNetworks(network),
          <<deploy("ResilientOracle"), get("USDT"), get("AccessControlManager"),
            get(IF network = "hardhat" THEN "VTreasuryV8" ELSE "VTreasury"),
            get("ResilientOracle"),
            IF network = "hardhat" THEN deploy("NormalTimelock") ELSE get("NormalTimelock"),
            deploy("VAI"), deploy("PegStability_USDT")>>
          \o only(network # "hardhat", <<call("PegStability_USDT", "transferOwnership")>>))
   EXCEPT !.id = "psm_initial_deploy", !.returns = isLive(network)]

swapRouter(network) ==
  script({"SwapRouter"}, skipRemoteNetworks(network),
         getAll(<<"Unitroller", "WBNB", "vBNB">>) \o <<deploy("SwapRouterCorePool")>>)

liquidatorUpgrade(network) ==
  script({"liquidator-upgrade"}, skipRemoteNetworks(network),
         getAll(<<"Unitroller", "AccessControlManager",
                  IF isLive(network) THEN "VTreasury" ELSE "VTreasuryV8", "NormalTimelock",
                  "vBNB", "WBNB">>)
         \o <<deploy("Liquidator")>>)

\* The protocol share reserve (external) is deployed first.
vbnbAdmin(network) ==
  [script({"VBNBAdmin"}, skipRemoteNetworks(network),
          <<deploy("ProtocolShareReserve")>>
          \o getAll(<<"WBNB", "vBNB", "AccessControlManager", "ProtocolShareReserve",
                      "NormalTimelock">>)
          \o <<deploy("VBNBAdmin")>>
          \o only(network # "hardhat", <<call("VBNBAdmin", "transferOwnership")>>))
   EXCEPT !.id = "vbnbadmin_deploy", !.returns = isLive(network)]

mockName(token) == "Mock" \o token.symbol

mockTokens(network) ==
  script({"MockTokens"}, FALSE,
         FlattenSeq([i \in DOMAIN tokens(network) |->
                       only(tokens(network)[i].isMock,
                            <<deploy(mockName(tokens(network)[i]))>>)]))

xvs(network) == script({"xvs"}, FALSE, <<deploy("XVS")>>)

vaults(network) ==
  script({"xvs-vault"}, FALSE,
         deployAll(<<"XVSVaultProxy_Implementation", "XVSVaultProxy", "XVSStore">>))

\* Governance is offered the vault before its access control is set.
configureVaults_early(network) ==
  [script({"xvs-vault"}, FALSE,
          getAll(<<"AccessControlManager", "XVS", "XVSVaultProxy", "XVSStore",
                   "XVSVaultProxy_Implementation">>)
          \o <<call("XVSVaultProxy", "_setPendingImplementation"),
               call("XVSVaultProxy", "_become"),
               call("XVSVaultProxy", "initializeTimeManager"),
               call("XVSVaultProxy", "setXvsStore"),
               call("XVSVaultProxy", "_setPendingAdmin"),
               call("XVSVaultProxy", "setAccessControl"),
               call("XVSStore", "setNewOwner"), call("XVSStore", "setPendingAdmin")>>)
   EXCEPT !.id = "xvs_vault_configuration"]

\* The calls wait for one another: each is sent by the same account.
configureVaults(network) ==
  [script({"xvs-vault"}, FALSE,
          getAll(<<"AccessControlManager", "XVS", "XVSVaultProxy", "XVSStore",
                   "XVSVaultProxy_Implementation">>)
          \o <<call("XVSVaultProxy", "_setPendingImplementation"),
               call("XVSVaultProxy", "_become"),
               call("XVSVaultProxy", "initializeTimeManager"),
               call("XVSVaultProxy", "setXvsStore"),
               call("XVSVaultProxy", "setAccessControl"),
               call("XVSStore", "setNewOwner")>>
          \o IF isLive(network)
               THEN <<call("XVSVaultProxy", "_setPendingAdmin"),
                      call("XVSStore", "setPendingAdmin")>>
               ELSE <<call("AccessControlManager", "giveCallPermission add"),
                      call("XVSVaultProxy", "add")>>)
   EXCEPT !.id = "xvs_vault_configuration"]

facetUpgrade(network) ==
  script({"FacetUpgrade"}, FALSE,
         deployAll(<<"Unitroller_Implementation", "PolicyFacet", "SetterFacet",
                     "MarketFacet", "RewardFacet">>))

deployMarkets(network) ==
  script({"Markets"}, skipRemoteNetworks(network),
         <<assert(isBlockBasedChain(network)), get("Unitroller"), forMarkets("market")>>)

\* The chains of the tables of deployPrime; the others have undefined
\* constructor arguments.
chainsOfPrime == Chains \ {"opbnbtestnet", "opbnbmainnet"}

deployPrime(network) ==
  script({"Prime"}, FALSE,
         getAll(<<"AccessControlManager", "XVSVaultProxy", "XVS", "ResilientOracle">>)
         \o <<assert(network \in chainsOfPrime),
              deploy("PrimeLiquidityProvider"), deploy("Prime")>>)

configurePrime(network) ==
  [script({"Prime"}, FALSE,
          getAll(<<"Prime", "PrimeLiquidityProvider">>)
          \o only(network # "hardhat",
                  <<call("Prime", "transferOwnership"),
                    call("PrimeLiquidityProvider", "transferOwnership")>>))
   EXCEPT !.id = "configure_prime"]

vaiControllerDeploy(network) ==
  script({"VAIController"}, skipRemoteNetworks(network),
         deployAll(<<"VaiUnitroller_Implementation", "VaiUnitroller">>))

vaiControllerConfig(network) ==
  [script({"VAIController", "configuration"}, skipRemoteNetworks(network),
          getAll(<<"VaiUnitroller_Implementation", "VaiUnitroller">>)
          \o <<call("VaiUnitroller", "_setPendingImplementation"),
               call("VaiUnitroller", "_become"), call("VaiUnitroller", "initialize")>>)
   EXCEPT !.id = "vai_controller_config"]

tokenRedeemer(network) ==
  script({"TokenRedeemer"}, network \notin {"hardhat", "bscmainnet"},
         getAll(<<"NormalTimelock", "vBNB">>) \o <<deploy("TokenRedeemer")>>)

rateModelCheckpoint(network) ==
  script({"RateModelCheckpoint"}, network \notin {"bsctestnet", "bscmainnet"},
         <<get("NormalTimelock"), forMarkets("checkpointView"),
           [kind |-> "writeGeneratedContract"]>>)

checkpointSetter(network) ==
  script({"RateModelCheckpointSetter"}, network \notin {"bsctestnet", "bscmainnet"},
         <<[kind |-> "deploySetter"]>>)

marketUpgrade(network) ==
  script({"MarketUpgrade"}, skipRemoteNetworks(network), <<deploy("VBep20Delegate")>>)

checkRateModels(network) ==
  script({"CheckIRMs"}, ~isLive(network),
         <<assert(isBlockBasedChain(network)), forMarkets("check")>>)

Scripts ==
  <<"lenses", "comptroller", "interestRateModels", "deployVBep20", "supportMarkets",
    "treasury", "psm", "swapRouter", "liquidatorUpgrade", "vbnbAdmin", "mockTokens",
    "xvs", "vaults", "configureVaults", "facetUpgrade", "deployMarkets",
    "deployPrime", "configurePrime", "vaiControllerDeploy", "vaiControllerConfig",
    "tokenRedeemer", "rateModelCheckpoint", "checkpointSetter", "marketUpgrade",
    "checkRateModels">>

programsOf(network) ==
  [lenses |-> lenses(network), comptroller |-> comptroller(network),
   interestRateModels |-> interestRateModels(network),
   deployVBep20 |-> deployVBep20(network),
   supportMarkets |-> supportMarkets(network),
   treasury |-> treasury(network), psm |-> psm(network),
   swapRouter |-> swapRouter(network),
   liquidatorUpgrade |-> liquidatorUpgrade(network),
   vbnbAdmin |-> vbnbAdmin(network), mockTokens |-> mockTokens(network),
   xvs |-> xvs(network), vaults |-> vaults(network),
   configureVaults |-> configureVaults(network),
   facetUpgrade |-> facetUpgrade(network),
   deployMarkets |-> deployMarkets(network),
   deployPrime |-> deployPrime(network),
   configurePrime |-> configurePrime(network),
   vaiControllerDeploy |-> vaiControllerDeploy(network),
   vaiControllerConfig |-> vaiControllerConfig(network),
   tokenRedeemer |-> tokenRedeemer(network),
   rateModelCheckpoint |-> rateModelCheckpoint(network),
   checkpointSetter |-> checkpointSetter(network),
   marketUpgrade |-> marketUpgrade(network),
   checkRateModels |-> checkRateModels(network)]

\* Built with @@, so that TLC evaluates it once.
programs ==
  FoldSet(LAMBDA network, rest : (network :> programsOf(network)) @@ rest, empty, Networks)
body(name) == programs[chain][name]
-----------------------------------------------------------------------------
(* Calls of contracts. *)

\* Calls that return an error code where others revert.
Silent == {"_setPendingImplementation", "_setPendingAdmin"}
\* Calls that revert when they are repeated.
Once == {"initializeTimeManager", "setXvsStore", "initialize"}
\* Calls that offer the contract to adminAccount.
Offers == {"transferOwnership", "setPendingAdmin", "_setPendingAdmin"}

pendingImplementation(c) == <<c, "_setPendingImplementation">> \in calls
ofDeployer(c) == c \in Owned => owner[c] = "deployer"

callThrows(o) ==
  \/ o.method \notin Silent /\ ~ofDeployer(o.contract)
  \/ o.method \in Once /\ <<o.contract, o.method>> \in calls
  \/ o.method = "_become" /\ ~pendingImplementation(o.contract)

callChanges(o) ==
  /\ ofDeployer(o.contract)
  /\ \/ <<o.contract, o.method>> \notin calls
     \/ o.method = "_become"
     \/ o.method \in Offers /\ pendingOwner[o.contract] # adminAccount
-----------------------------------------------------------------------------
(* Bodies of the loops over the configured markets. *)

fromBlocksPerYear == 21024000
toBlocksPerYear == 42048000

\* The name keeps the blocks per year of before the checkpoint.
modelName_stale(row) == getRateModelName(row.interestRateModel, fromBlocksPerYear)
modelName(row) == getRateModelName(row.interestRateModel, blocksPerYear(chain))
oldModelName(row) == getRateModelName(row.interestRateModel, fromBlocksPerYear)
newModelName(row) == getRateModelName(row.interestRateModel, toBlocksPerYear)

\* ethers.getContractAt of an address that is none, and the call of decimals.
tokenFound(row) ==
  LET token == getToken(chain, row.asset)
  IN IF token.isMock THEN isDeployed(mockName(token))
     ELSE token.tokenAddress \notin {"native", "0x000000"}

rowThrows(kind, row) ==
  CASE kind = "rateModel" -> FALSE
    [] kind = "market" ->
         /\ ~isDeployed(row.symbol)
         /\ ~(tokenFound(row) /\ isDeployed("NormalTimelock")
              /\ modelName(row) \in DOMAIN rateModels)
    [] kind = "checkpointView" ->
         \/ {oldModelName(row), newModelName(row)} \notin SUBSET DOMAIN rateModels
         \/ /\ oldModelName(row) \in DOMAIN views
            /\ \/ ~isDeployed(row.symbol)
               \/ row.symbol = "vBNB" /\ ~isDeployed("VBNBAdmin")
    [] kind = "check" -> ~isDeployed(row.symbol)

rowChanges(kind, row) ==
  CASE kind = "rateModel" -> modelName(row) \notin DOMAIN rateModels
    [] kind = "market" -> ~isDeployed(row.symbol)
    [] kind = "checkpointView" -> oldModelName(row) \notin DOMAIN views
    [] kind = "check" -> FALSE

\* The markets at which the loop still throws or deploys something.
actingRows(kind) ==
  SelectSeq(rows, LAMBDA row : rowThrows(kind, row) \/ rowChanges(kind, row))
-----------------------------------------------------------------------------
(* A run. *)

throws(o) ==
  CASE o.kind = "get" -> ~isDeployed(o.contract)
    [] o.kind = "assert" -> ~o.holds
    [] o.kind = "call" -> callThrows(o)
    [] o.kind = "callUnlessAdmin" -> owner[o.contract] # adminAccount /\ callThrows(o)
    [] o.kind = "forMarkets" ->
         \E first \in {actingRows(o.body)} :
           first # <<>> /\ rowThrows(o.body, first[1])
    [] o.kind = "deploySetter" -> setter = empty /\ run.compiled = empty
    [] o.kind \in {"deploy", "writeGeneratedContract"} -> FALSE

\* The view of each market.
generated ==
  [symbol \in {row.symbol : row \in ToSet(rows)} |->
     oldModelName(SelectSeq(rows, LAMBDA row : row.symbol = symbol)[1])]

changes(o) ==
  CASE o.kind = "deploy" -> ~isDeployed(o.contract)
    [] o.kind = "call" -> callChanges(o)
    [] o.kind = "callUnlessAdmin" -> owner[o.contract] # adminAccount /\ callChanges(o)
    [] o.kind = "forMarkets" -> actingRows(o.body) # <<>>
    [] o.kind = "writeGeneratedContract" -> setterCode # generated
    [] o.kind = "deploySetter" -> setter = empty
    [] o.kind \in {"get", "assert"} -> FALSE

\* Where the run is: the operations that neither throw nor change anything
\* are passed over.  0 is the end of the script.
operations == body(Head(run.scripts)).ops
position(ops) ==
  LET from[i \in 1 .. Len(ops) + 1] ==
        IF i > Len(ops) THEN 0
        ELSE IF throws(ops[i]) \/ changes(ops[i]) THEN i ELSE from[i + 1]
  IN from[run.step]

stop == [run EXCEPT !.scripts = <<>>, !.step = 1]

Start(tag) ==
  /\ idle
  /\ tag \in Operated[chain]
  /\ live \/ deployments = {}
  /\ run' = [scripts |-> SelectSeq(Scripts, LAMBDA s : \E b \in {body(s)} :
                           /\ tag \in b.tags \cup {"all"}
                           /\ ~b.skip
                           /\ b.id \notin migrations),
             step |-> 1, compiled |-> setterCode]
  /\ UNCHANGED <<chain, version, forked, artifactVars, contractVars, migrations, crashes>>

\* A script ends, and with an id is recorded if it returns true.
EndScript ==
  /\ run' = [run EXCEPT !.scripts = Tail(@), !.step = 1]
  /\ migrations' = IF body(Head(run.scripts)).returns
                     THEN migrations \cup {body(Head(run.scripts)).id} ELSE migrations
  /\ UNCHANGED <<artifactVars, contractVars>>

Throw(o) ==
  /\ throws(o)
  /\ run' = stop
  /\ UNCHANGED <<artifactVars, contractVars, migrations>>

Deploy(o) ==
  /\ o.kind = "deploy"
  /\ deployments' = deployments \cup {o.contract}
  /\ owner' = IF o.contract \in Owned
                THEN [owner EXCEPT ![o.contract] = "deployer"] ELSE owner
  /\ UNCHANGED <<rateModels, views, setterCode, setter,
                 interestRateModel, calls, pendingOwner>>

\* _become takes the pending implementation.
Call(o) ==
  /\ o.kind \in {"call", "callUnlessAdmin"}
  /\ calls' = (IF o.method = "_become"
                 THEN calls \ {<<o.contract, "_setPendingImplementation">>} ELSE calls)
              \cup {<<o.contract, o.method>>}
  /\ pendingOwner' = IF o.method \in Offers
                       THEN [pendingOwner EXCEPT ![o.contract] = adminAccount]
                       ELSE pendingOwner
  /\ UNCHANGED <<artifactVars, interestRateModel, owner>>

DeployRateModel(row) ==
  /\ rateModels' = rateModels
       @@ (modelName(row) :> rateModel(row.interestRateModel, blocksPerYear(chain)))
  /\ UNCHANGED <<deployments, views, setterCode, setter, contractVars>>

DeployMarket(row) ==
  /\ deployments' = deployments \cup {"VBep20Delegate"}
  /\ interestRateModel' = interestRateModel @@ (row.symbol :> rateModels[modelName(row)])
  /\ UNCHANGED <<rateModels, views, setterCode, setter, calls, owner, pendingOwner>>

\* The checkpoint comes at time 1.
DeployCheckpointView(row) ==
  /\ views' = views
       @@ (oldModelName(row) :> checkpointView(rateModels[oldModelName(row)],
                                               rateModels[newModelName(row)], 1))
  /\ UNCHANGED <<deployments, rateModels, setterCode, setter, contractVars>>

ForMarkets(o) ==
  /\ o.kind = "forMarkets"
  /\ \E row \in {actingRows(o.body)[1]} :
       \/ o.body = "rateModel" /\ DeployRateModel(row)
       \/ o.body = "market" /\ DeployMarket(row)
       \/ o.body = "checkpointView" /\ DeployCheckpointView(row)

WriteGeneratedContract(o) ==
  /\ o.kind = "writeGeneratedContract"
  /\ setterCode' = generated
  /\ UNCHANGED <<deployments, rateModels, views, setter, contractVars>>

DeploySetter(o) ==
  /\ o.kind = "deploySetter"
  /\ setter' = run.compiled
  /\ UNCHANGED <<deployments, rateModels, views, setterCode, contractVars>>

Perform(i, o) ==
  /\ ~throws(o)
  /\ Deploy(o) \/ Call(o) \/ ForMarkets(o) \/ WriteGeneratedContract(o) \/ DeploySetter(o)
  /\ run' = [run EXCEPT !.step = IF o.kind = "forMarkets" THEN i ELSE i + 1]
  /\ UNCHANGED migrations

Step ==
  /\ ~idle
  /\ \E ops \in {operations} : \E i \in {position(ops)} :
       IF i = 0 THEN EndScript ELSE Throw(ops[i]) \/ Perform(i, ops[i])
  /\ UNCHANGED <<chain, version, forked, crashes>>

\* The process dies, or the node of the network refuses a transaction.  A
\* local network dies with its process.
Crash ==
  /\ ~idle /\ live
  /\ crashes < MaxCrashes
  /\ crashes' = crashes + 1
  /\ run' = stop
  /\ UNCHANGED <<chain, version, forked, artifactVars, contractVars, migrations>>
-----------------------------------------------------------------------------
(* Governance (external), the developers and the chain. *)

Accept(c) ==
  /\ pendingOwner[c] = "governance"
  /\ owner' = [owner EXCEPT ![c] = "governance"]
  /\ pendingOwner' = [pendingOwner EXCEPT ![c] = "nobody"]
  /\ UNCHANGED <<chain, version, forked, artifactVars, interestRateModel, calls,
                 migrations, run, crashes>>

\* run() of the setter, before the checkpoint.
ExecuteSetter ==
  /\ setter # empty /\ ~forked
  /\ interestRateModel' =
       [symbol \in DOMAIN interestRateModel |->
          IF symbol \in DOMAIN setter THEN views[setter[symbol]]
          ELSE interestRateModel[symbol]]
  /\ UNCHANGED <<chain, version, forked, artifactVars, calls, owner, pendingOwner,
                 migrations, run, crashes>>

\* A proposal gives the markets the models they are configured with, once the
\* blocks are as fast as these models take them to be.
Adopt ==
  /\ forked
  /\ interestRateModel' =
       [symbol \in DOMAIN interestRateModel |->
          LET rated == SelectSeq(rows, LAMBDA row : /\ row.symbol = symbol
                                                    /\ modelName(row) \in DOMAIN rateModels)
          IN IF rated = <<>> THEN interestRateModel[symbol]
             ELSE rateModels[modelName(rated[1])]]
  /\ UNCHANGED <<chain, version, forked, artifactVars, calls, owner, pendingOwner,
                 migrations, run, crashes>>

PassCheckpoint ==
  /\ ~forked
  /\ forked' = TRUE
  /\ UNCHANGED <<chain, version, artifactVars, contractVars, migrations, run, crashes>>

\* The next tables are written for the models of after the checkpoint.
EditConfig ==
  /\ idle /\ forked
  /\ version < Len(Configs[chain])
  /\ version' = version + 1
  /\ UNCHANGED <<chain, forked, artifactVars, contractVars, migrations, run, crashes>>
-----------------------------------------------------------------------------
Init ==
  /\ chain \in Networks
  /\ version = 1
  /\ LET initial == InitialStates[chain]
     IN /\ forked = initial.forked
        /\ deployments = initial.deployments
        /\ rateModels = initial.rateModels
        /\ interestRateModel = initial.interestRateModel
        /\ calls = initial.calls
        /\ owner = initial.owner
        /\ migrations = initial.migrations
  /\ views = empty /\ setterCode = empty /\ setter = empty
  /\ pendingOwner = [c \in Owned |-> "nobody"]
  /\ run = [scripts |-> <<>>, step |-> 1, compiled |-> empty]
  /\ crashes = 0

Next ==
  \/ \E tag \in Tags : Start(tag)
  \/ Step \/ Crash
  \/ \E c \in Owned : Accept(c)
  \/ ExecuteSetter \/ Adopt \/ PassCheckpoint \/ EditConfig

\* Governance accepts what it is offered and adopts what is configured, and
\* the checkpoint comes.  Each of these happens finitely often, so that none of
\* them is put off for ever by another.
Progress == (\E c \in Owned : Accept(c)) \/ Adopt \/ PassCheckpoint

\* The operator starts the scripts of the tags in Retried again and again.
Retry(i) == \E tag \in Tags : <<i, tag>> \in Retried[chain] /\ Start(tag)

Fairness ==
  /\ WF_vars(Step) /\ WF_vars(Progress)
  /\ \A i \in 1 .. MaxRetried : SF_vars(Retry(i))

Spec == Init /\ [][Next]_vars /\ Fairness
-----------------------------------------------------------------------------
(* Properties. *)

\* checkRateModel of the checks: whether what a model answers agrees with the
\* configured parameters, block by block.  Both blocks per year of the live
\* chains divide the number.
perBlock(rate, perYear) == rate * (toBlocksPerYear \div perYear)

checkRateModel(model, params, perYear) ==
  /\ model.params.model = params.model
  /\ \A field \in DOMAIN params \ {"model"} :
       IF field \in {"kink", "kink2"} THEN model.params[field] = params[field]
       ELSE perBlock(model.params[field], model.blocksPerYear)
            = perBlock(params[field], perYear)

inForce(symbol) == answering(interestRateModel[symbol], IF forked THEN 1 ELSE 0)

\* A market charges what some table so far says of it: the names under which
\* models and views are found, which drop all digits below a basis point and
\* are shared by markets, never bring it a model of other parameters.  Its
\* view takes blocks to be slow until the checkpoint, and fast after it.
RatesAsConfigured ==
  \A symbol \in DOMAIN interestRateModel :
    /\ \E v \in 1 .. version : \E row \in ToSet(Configs[chain][v]) :
         row.symbol = symbol /\ inForce(symbol).params = row.interestRateModel
    /\ isCheckpointView(interestRateModel[symbol]) =>
         inForce(symbol).blocksPerYear =
           IF forked THEN toBlocksPerYear ELSE fromBlocksPerYear

\* Contracts the scripts hand over to governance.
HandedOver == Owned \ {"VaiUnitroller"}

\* What has to be done before.
Required ==
  [c \in HandedOver |->
     CASE c = "XVSVaultProxy" -> {"_become", "initializeTimeManager", "setXvsStore",
                                  "setAccessControl"}
       [] c = "XVSStore" -> {"setNewOwner"}
       [] OTHER -> {}]

phase ==
  [c \in HandedOver |->
     CASE owner[c] = "nobody" -> "absent"
       [] owner[c] = "governance" -> "governed"
       [] owner[c] = "deployer" /\ pendingOwner[c] = "governance" -> "offered"
       [] OTHER -> "open"]

H == INSTANCE Handover
       WITH Contracts <- HandedOver,
            setup <- [c \in HandedOver |-> {m \in Required[c] : <<c, m>> \in calls}]

\* However runs are tagged, repeated and cut off, governance is only ever
\* offered a contract that is completely set up, and keeps what it has
\* accepted: the scripts implement the handover.
ImplementsHandover == H!Spec

\* Contracts whose handover cannot be taken up again where it was cut off:
\* initializeTimeManager reverts when it is repeated, and so does the first of
\* two transfers once governance has accepted it.
Fragile == {"XVSVaultProxy", "XVSStore", "PrimeLiquidityProvider"}

\* Every contract that is deployed comes under governance, the fragile ones if
\* no run is cut off.
EventuallyGoverned ==
  <>[](live => \A c \in HandedOver \cap deployments :
                 owner[c] = "governance" \/ (c \in Fragile /\ crashes > 0))

\* On the networks with market tables, every configured market is listed in
\* the end, with a model that passes the checks, whichever scripts are run
\* first and wherever they are cut off.
MarketsGoLive ==
  <>[](live /\ "Markets" \in Operated[chain] =>
         \A row \in ToSet(rows) :
           /\ row.symbol \in DOMAIN interestRateModel
           /\ checkRateModel(inForce(row.symbol), row.interestRateModel,
                             blocksPerYear(chain)))
=============================================================================
