------------------------------ MODULE Handover ------------------------------
(***************************************************************************)
(* What the deployment of a contract promises its governance: a contract   *)
(* is created by the deployer, set up, offered, and taken over.  Governance*)
(* is only ever offered what is set up, and what it has taken over it      *)
(* keeps.                                                                  *)
(***************************************************************************)
CONSTANTS
  Contracts,
  Required     \* the steps that set up each contract

VARIABLES
  phase,       \* of each contract
  setup        \* the steps taken on each contract

TypeOK ==
  /\ phase \in [Contracts -> {"absent", "open", "offered", "governed"}]
  /\ setup \in [Contracts -> SUBSET UNION {Required[c] : c \in Contracts}]

\* Some contracts were taken over before.
Init ==
  /\ phase \in [Contracts -> {"absent", "governed"}]
  /\ setup = [c \in Contracts |-> IF phase[c] = "governed" THEN Required[c] ELSE {}]

Create(c) ==
  /\ phase[c] = "absent"
  /\ phase' = [phase EXCEPT ![c] = "open"]
  /\ UNCHANGED setup

SetUp(c, m) ==
  /\ phase[c] = "open"
  /\ setup' = [setup EXCEPT ![c] = @ \cup {m}]
  /\ UNCHANGED phase

Offer(c) ==
  /\ phase[c] = "open" /\ setup[c] = Required[c]
  /\ phase' = [phase EXCEPT ![c] = "offered"]
  /\ UNCHANGED setup

Accept(c) ==
  /\ phase[c] = "offered"
  /\ phase' = [phase EXCEPT ![c] = "governed"]
  /\ UNCHANGED setup

Next ==
  \E c \in Contracts :
    \/ Create(c) \/ Offer(c) \/ Accept(c)
    \/ \E m \in Required[c] : SetUp(c, m)

vars == <<phase, setup>>

Spec == Init /\ [][Next]_vars
=============================================================================
