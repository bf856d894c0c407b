------------------------------ MODULE Provider ------------------------------
(***************************************************************************)
(* The provider module (modules/provider): the registry of consumer chains *)
(* that governance messages change, and the fees every block takes from    *)
(* the consumers' module accounts and pays to the validators.              *)
(*                                                                         *)
(* A block is a BeginBlock followed by messages.  A message the handler    *)
(* refuses changes nothing and is left out, as are names, versions and the *)
(* address of the module account, which is a function of the chain id.     *)
(* Bank, staking and gov are not part of the repository.                   *)
(***************************************************************************)
EXTENDS Integers, FiniteSets, Functions

CONSTANTS
  ChainIds,      \* bound: ids of consumer chains
  Validators,
  Fees,          \* bound: amounts governance may set fees_per_block to
  BondedSets,    \* bound: the bonded validators, as functions to their power
  Geneses,       \* bound: genesis states, [chains, feesPerBlock, balance]
  BlockHeights,  \* bound: values of a message's block_height
  MaxHeight,     \* bound: the last block
  MaxFunds,      \* bound: coins in all the accounts
  TransfersFail  \* whether the bank may refuse a transfer of fees

Statuses == {"UNSPECIFIED", "PENDING", "ACTIVE", "SUNSET", "REMOVED", "OVERDUE"}

ConsumerChain == [status : Statuses, addedAt : Nat, sunsetAt : Nat]

\* What the constants may be: the least the code guarantees of its inputs.
Parameters ==
  /\ IsFiniteSet(ChainIds) /\ IsFiniteSet(Validators)
  /\ Fees \subseteq Nat /\ BlockHeights \subseteq Nat
  /\ \A bonded \in BondedSets :
       DOMAIN bonded \subseteq Validators /\ \A v \in DOMAIN bonded : bonded[v] \in Nat
  /\ \A genesis \in Geneses :
       /\ genesis.feesPerBlock \in Nat
       /\ \E ids \in SUBSET ChainIds : genesis.chains \in [ids -> ConsumerChain]
       /\ genesis.balance \in [ChainIds -> Nat]
  /\ MaxHeight \in Nat /\ MaxFunds \in Nat
  /\ TransfersFail \in BOOLEAN

ASSUME ProviderAssumption == Parameters

VARIABLES
  height,          \* of the block being executed
  halted,          \* BeginBlock returned an error: the node stops
  ConsumerChains,  \* the registry, a function on the registered ids
  feesPerBlock,    \* the amount of Params.FeesPerBlock
  balance,         \* of the consumers' module accounts
  feeCollector,    \* what this module left in fee_collector
  received         \* fees the validators got

vars == <<height, halted, ConsumerChains, feesPerBlock, balance, feeCollector, received>>

\* The registry after chain c is stored as consumer.
Stored(c, consumer) ==
  [d \in DOMAIN ConsumerChains \cup {c} |-> IF d = c THEN consumer ELSE ConsumerChains[d]]

\* All the coins the fees may move.
Wealth == SumFunction(balance) + feeCollector + SumFunction(received)

-----------------------------------------------------------------------------
(* Variants with a mistake, one of which takes a definition's place to test a property *)

BadShare(total, bonded, v) == (total * bonded[v] + SumFunction(bonded) - 1) \div SumFunction(bonded) \* rounded up
BadCanSunset(c)      == ConsumerChains[c].status # "REMOVED"      \* a sunset chain sunset again
BadAfterFees(c)      == "ACTIVE"                                  \* never overdue
BadCollected         == feesPerBlock * Cardinality(DOMAIN ConsumerChains) \* debtors counted
BadCanPay(c)         == TRUE                                      \* balance not looked at
BadAdded(blockHeight) ==                                          \* started when registered
  [status |-> "ACTIVE", addedAt |-> blockHeight, sunsetAt |-> 0]

-----------------------------------------------------------------------------
(* Fees *)

\* Chains that owe fees: active ones, and overdue ones, which may pay again.
Payable(c) == ConsumerChains[c].status \in {"ACTIVE", "OVERDUE"}

CanPay(c) == balance[c] >= feesPerBlock

Billed == {c \in DOMAIN ConsumerChains : Payable(c)}
Payers == {c \in Billed : CanPay(c)}

AfterFees(c) == IF CanPay(c) THEN "ACTIVE" ELSE "OVERDUE"

\* CollectFeesFromConsumers: every chain that owes fees pays or becomes overdue.
CollectFees ==
  /\ ConsumerChains' = [c \in DOMAIN ConsumerChains |->
                         IF c \in Billed THEN [ConsumerChains[c] EXCEPT !.status = AfterFees(c)]
                         ELSE ConsumerChains[c]]
  /\ balance' = [c \in ChainIds |-> IF c \in Payers THEN balance[c] - feesPerBlock ELSE balance[c]]

Collected == feesPerBlock * Cardinality(Payers)

\* A validator's share of the collected fees, rounded down.
Share(total, bonded, v) == (total * bonded[v]) \div SumFunction(bonded)

\* DistributeFeesToValidators: the remainder, or everything when nobody is bonded,
\* stays in fee_collector.
DistributeFees(total, bonded) ==
  LET share == [v \in Validators |-> IF v \in DOMAIN bonded THEN Share(total, bonded, v) ELSE 0]
  IN  /\ received' = [v \in Validators |-> received[v] + share[v]]
      /\ feeCollector' = feeCollector + total - SumFunction(share)

-----------------------------------------------------------------------------
(* Blocks *)

\* InitGenesis: the module accounts are created, and any status is taken over.
Init ==
  /\ height = 0
  /\ halted = FALSE
  /\ \E genesis \in Geneses :
       /\ ConsumerChains = genesis.chains
       /\ feesPerBlock = genesis.feesPerBlock
       /\ balance = genesis.balance
  /\ feeCollector = 0
  /\ received = [v \in Validators |-> 0]

NextBlock ==
  /\ ~halted /\ height < MaxHeight
  /\ height' = height + 1
  /\ UNCHANGED <<halted, feesPerBlock>>

\* BeginBlocker with fees of zero leaves every chain as it is.
BeginBlockFree ==
  /\ feesPerBlock = 0
  /\ NextBlock
  /\ UNCHANGED <<ConsumerChains, balance, feeCollector, received>>

BeginBlock(bonded) ==
  /\ feesPerBlock > 0
  /\ NextBlock
  /\ CollectFees
  /\ \/ /\ Payers = {} \/ DOMAIN bonded = {}
        /\ feeCollector' = feeCollector + Collected
        /\ UNCHANGED received
     \/ /\ Payers # {} /\ DOMAIN bonded # {}
        /\ SumFunction(bonded) > 0
        /\ DistributeFees(Collected, bonded)

\* An error of BeginBlocker: a refused transfer, or bonded validators without power.
\* FinalizeBlock fails, so nothing of the block is kept.
BeginBlockFails(bonded) ==
  /\ feesPerBlock > 0 /\ Payers # {}
  /\ ~halted /\ height < MaxHeight
  /\ TransfersFail \/ (DOMAIN bonded # {} /\ SumFunction(bonded) = 0)
  /\ halted' = TRUE
  /\ UNCHANGED <<height, ConsumerChains, feesPerBlock, balance, feeCollector, received>>

-----------------------------------------------------------------------------
(* Governance messages and transfers to a module account *)

Deliver ==
  /\ ~halted /\ height > 0
  /\ UNCHANGED <<height, halted, feeCollector, received>>

UpdateParams(fees) ==
  /\ Deliver
  /\ feesPerBlock' = fees
  /\ UNCHANGED <<ConsumerChains, balance>>

\* The new entry of the registry: it starts later.
Added(blockHeight) == [status |-> "PENDING", addedAt |-> blockHeight, sunsetAt |-> 0]

AddConsumer(c, blockHeight) ==
  /\ Deliver
  /\ c \notin DOMAIN ConsumerChains
  /\ blockHeight > height
  /\ ConsumerChains' = Stored(c, Added(blockHeight))
  /\ UNCHANGED <<feesPerBlock, balance>>

CanSunset(c) == ConsumerChains[c].status \notin {"SUNSET", "REMOVED"}

\* A height that is not in the future removes the chain at once.
SunsetConsumer(c, blockHeight) ==
  /\ Deliver
  /\ c \in DOMAIN ConsumerChains /\ CanSunset(c)
  /\ ConsumerChains' =
       Stored(c, [ConsumerChains[c] EXCEPT
                    !.status = IF blockHeight <= height THEN "REMOVED" ELSE "SUNSET",
                    !.sunsetAt = blockHeight])
  /\ UNCHANGED <<feesPerBlock, balance>>

\* The chain is stored as it was: the new version and its height are kept nowhere.
UpgradeConsumer(c, blockHeight) ==
  /\ Deliver
  /\ c \in DOMAIN ConsumerChains
  /\ ConsumerChains[c].status \in {"ACTIVE", "PENDING", "OVERDUE"}
  /\ blockHeight > height
  /\ ConsumerChains' = Stored(c, ConsumerChains[c])
  /\ UNCHANGED <<feesPerBlock, balance>>

\* Anybody may send coins to the module account of a chain id, registered or not.
Fund(c) ==
  /\ Deliver
  /\ Wealth < MaxFunds
  /\ balance' = [balance EXCEPT ![c] = @ + 1]
  /\ UNCHANGED <<ConsumerChains, feesPerBlock>>

Messages ==
  \/ \E fees \in Fees : UpdateParams(fees)
  \/ \E c \in ChainIds : Fund(c)
  \/ \E c \in ChainIds, h \in BlockHeights :
       AddConsumer(c, h) \/ SunsetConsumer(c, h) \/ UpgradeConsumer(c, h)

Next ==
  \/ BeginBlockFree
  \/ \E bonded \in BondedSets : BeginBlock(bonded) \/ BeginBlockFails(bonded)
  \/ Messages

Spec == Init /\ [][Next]_vars

-----------------------------------------------------------------------------
(* Properties *)

\* The registry and the accounts are well formed; no amount is ever negative.
TypeOK ==
  /\ height \in Nat /\ halted \in BOOLEAN
  /\ DOMAIN ConsumerChains \subseteq ChainIds
  /\ \A c \in DOMAIN ConsumerChains : ConsumerChains[c] \in ConsumerChain
  /\ feesPerBlock \in Nat
  /\ balance \in [ChainIds -> Nat]
  /\ feeCollector \in Nat
  /\ received \in [Validators -> Nat]

\* Collection and distribution move coins and make none: what the payers lose, validators
\* and the fee collector get, rounding included.
FeesConserved ==
  [][Wealth' = Wealth \/ \E c \in ChainIds : Fund(c)]_vars

\* A distribution never draws on coins of earlier blocks, and rounding holds back less
\* than one coin per validator.
OnlyRoundingHeldBack ==
  [][received' # received =>
       feeCollector' - feeCollector \in 0 .. Cardinality(Validators) - 1]_vars

\* With a fee set, a chain is ACTIVE after BeginBlock exactly when it paid that block's
\* fee: nobody is served on credit, and an overdue chain that can pay is served again.
ActiveHasPaid ==
  [][(height' # height /\ feesPerBlock > 0) =>
       \A c \in DOMAIN ConsumerChains :
         /\ ConsumerChains'[c].status = "ACTIVE" <=>
              Payable(c) /\ balance[c] >= feesPerBlock
         /\ ConsumerChains'[c].status = "ACTIVE" => balance'[c] = balance[c] - feesPerBlock]_vars

\* A chain that is sunset or removed stays in the registry and is never billed, served or
\* scheduled again; all that may happen to it is that a SUNSET chain is REMOVED, not before
\* the height it was scheduled for.
RetiredIsFinal ==
  [][\A c \in DOMAIN ConsumerChains :
       ConsumerChains[c].status \in {"SUNSET", "REMOVED"} =>
         /\ c \in DOMAIN ConsumerChains'
         /\ balance'[c] >= balance[c]
         /\ \/ ConsumerChains'[c] = ConsumerChains[c]
            \/ /\ ConsumerChains[c].status = "SUNSET"
               /\ height' >= ConsumerChains[c].sunsetAt
               /\ ConsumerChains'[c] = [ConsumerChains[c] EXCEPT !.status = "REMOVED"]]_vars

\* No message and no block starts a chain early: one that is served or billed was so
\* before, or it was PENDING and its height has come.
NeverStartsEarly ==
  [][\A c \in DOMAIN ConsumerChains' :
       ConsumerChains'[c].status \in {"ACTIVE", "OVERDUE"} =>
         /\ c \in DOMAIN ConsumerChains
         /\ \/ Payable(c)
            \/ /\ ConsumerChains[c].status = "PENDING"
               /\ height' >= ConsumerChains[c].addedAt]_vars

-----------------------------------------------------------------------------
(* What comments of the code say *)

\* provider.proto:40,46 and tx.proto:69,91: PENDING is "scheduled to start" and SUNSET
\* "scheduled to be removed", at the block height of the message.
SchedulesTakeEffect ==
  \A c \in DOMAIN ConsumerChains :
    /\ ConsumerChains[c].status = "PENDING" => height < ConsumerChains[c].addedAt
    /\ ConsumerChains[c].status = "SUNSET"  => height < ConsumerChains[c].sunsetAt

=============================================================================
