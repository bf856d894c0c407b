--------------------------- MODULE ProviderProofs ---------------------------
(***************************************************************************)
(* Proofs about Provider: the registry and every account, for every set of *)
(* chains, every fee, every genesis, every message and every distribution  *)
(* of power.  What is paid out is a sum over a set: see Sums.              *)
(***************************************************************************)
EXTENDS Provider, Sums

\* The part of TypeOK that speaks of the registry and of what it is billed for.
RegistryOK ==
  /\ height \in Nat
  /\ DOMAIN ConsumerChains \subseteq ChainIds
  /\ ConsumerChains = [c \in DOMAIN ConsumerChains |-> ConsumerChains[c]]
  /\ \A c \in DOMAIN ConsumerChains : ConsumerChains[c] \in ConsumerChain
  /\ feesPerBlock \in Nat
  /\ balance \in [ChainIds -> Nat]

\* Storing one chain leaves the others as they are.
LEMMA StoredChains ==
  ASSUME NEW c, NEW consumer
  PROVE  /\ DOMAIN Stored(c, consumer) = DOMAIN ConsumerChains \cup {c}
         /\ Stored(c, consumer)[c] = consumer
         /\ \A d \in DOMAIN ConsumerChains \ {c} : Stored(c, consumer)[d] = ConsumerChains[d]
  BY DEF Stored

\* One BeginBlock, chain by chain: who is billed pays or is overdue, nobody else changes,
\* and no account is overdrawn.
LEMMA FeesPerChain ==
  ASSUME RegistryOK, CollectFees
  PROVE  /\ DOMAIN ConsumerChains' = DOMAIN ConsumerChains
         /\ balance' \in [ChainIds -> Nat]
         /\ \A c \in DOMAIN ConsumerChains :
              /\ ConsumerChains'[c] \in ConsumerChain
              /\ ~Payable(c) => ConsumerChains'[c] = ConsumerChains[c] /\ balance'[c] = balance[c]
              /\ Payable(c) /\ CanPay(c) =>
                   /\ ConsumerChains'[c].status = "ACTIVE"
                   /\ balance'[c] = balance[c] - feesPerBlock
              /\ Payable(c) /\ ~CanPay(c) =>
                   ConsumerChains'[c].status = "OVERDUE" /\ balance'[c] = balance[c]
<1>1. DOMAIN ConsumerChains' = DOMAIN ConsumerChains
      BY DEF CollectFees
<1>2. balance' \in [ChainIds -> Nat]
      BY DEF CollectFees, RegistryOK, Payers, CanPay
<1>3. ASSUME NEW c \in DOMAIN ConsumerChains
      PROVE  /\ ConsumerChains'[c] \in ConsumerChain
             /\ ~Payable(c) => ConsumerChains'[c] = ConsumerChains[c] /\ balance'[c] = balance[c]
             /\ Payable(c) /\ CanPay(c) =>
                  /\ ConsumerChains'[c].status = "ACTIVE"
                  /\ balance'[c] = balance[c] - feesPerBlock
             /\ Payable(c) /\ ~CanPay(c) =>
                  ConsumerChains'[c].status = "OVERDUE" /\ balance'[c] = balance[c]
  <2>1. ConsumerChains[c] \in ConsumerChain /\ c \in ChainIds
        BY DEF RegistryOK
  <2>2. ConsumerChains'[c] = IF Payable(c)
                             THEN [ConsumerChains[c] EXCEPT !.status = AfterFees(c)]
                             ELSE ConsumerChains[c]
        BY DEF CollectFees, Billed
  <2>3. balance'[c] = IF Payable(c) /\ CanPay(c) THEN balance[c] - feesPerBlock ELSE balance[c]
        BY <2>1 DEF CollectFees, Payers, Billed
  <2> QED BY <2>1, <2>2, <2>3 DEF AfterFees, ConsumerChain, Statuses
<1> QED BY <1>1, <1>2, <1>3

\* What a step does to the registry, message by message.
Registered ==
  \E c \in ChainIds \ DOMAIN ConsumerChains, h \in BlockHeights :
    ConsumerChains' = Stored(c, Added(h)) /\ UNCHANGED <<height, feesPerBlock, balance>>

Retired ==
  \E c \in DOMAIN ConsumerChains, h \in BlockHeights, s \in {"REMOVED", "SUNSET"} :
    /\ CanSunset(c)
    /\ ConsumerChains' = Stored(c, [ConsumerChains[c] EXCEPT !.status = s, !.sunsetAt = h])
    /\ UNCHANGED <<height, feesPerBlock, balance>>

Funded ==
  \E c \in ChainIds :
    balance' = [balance EXCEPT ![c] = @ + 1] /\ UNCHANGED <<height, feesPerBlock, ConsumerChains>>

Unchanged ==
  /\ UNCHANGED <<ConsumerChains, balance>>
  /\ UNCHANGED height \/ (height' = height + 1 /\ feesPerBlock = 0)
  /\ feesPerBlock' \in Nat

Billing == CollectFees /\ feesPerBlock > 0 /\ feesPerBlock' = feesPerBlock /\ height' = height + 1

LEMMA StepKinds ==
  ASSUME RegistryOK, [Next]_vars
  PROVE  Billing \/ Registered \/ Retired \/ Funded \/ Unchanged
<1>1. CASE UNCHANGED vars
      BY <1>1 DEF vars, Unchanged, RegistryOK
<1>2. CASE BeginBlockFree
      BY <1>2 DEF BeginBlockFree, NextBlock, Unchanged, RegistryOK
<1>3. ASSUME NEW bonded \in BondedSets, BeginBlock(bonded) PROVE Billing
      BY <1>3 DEF BeginBlock, NextBlock, Billing
<1>4. ASSUME NEW bonded \in BondedSets, BeginBlockFails(bonded) PROVE Unchanged
      BY <1>4 DEF BeginBlockFails, Unchanged, RegistryOK
<1>5. ASSUME NEW fees \in Fees, UpdateParams(fees) PROVE Unchanged
      BY <1>5, ProviderAssumption DEF UpdateParams, Deliver, Unchanged, Parameters
<1>6. ASSUME NEW c \in ChainIds, Fund(c) PROVE Funded
      BY <1>6 DEF Fund, Deliver, Funded
<1>7. ASSUME NEW c \in ChainIds, NEW h \in BlockHeights, AddConsumer(c, h) PROVE Registered
      BY <1>7 DEF AddConsumer, Deliver, Registered
<1>8. ASSUME NEW c \in ChainIds, NEW h \in BlockHeights, SunsetConsumer(c, h) PROVE Retired
      BY <1>8 DEF SunsetConsumer, Deliver, Retired
<1>9. ASSUME NEW c \in ChainIds, NEW h \in BlockHeights, UpgradeConsumer(c, h) PROVE Unchanged
  <2>1. Stored(c, ConsumerChains[c]) = ConsumerChains
        BY <1>9 DEF UpgradeConsumer, Stored, RegistryOK
  <2> QED BY <1>9, <2>1 DEF UpgradeConsumer, Deliver, Unchanged, RegistryOK
<1> QED BY <1>1, <1>2, <1>3, <1>4, <1>5, <1>6, <1>7, <1>8, <1>9 DEF Next, Messages

\* Genesis states have the types.
LEMMA InitRegistry == Init => RegistryOK
<1> SUFFICES ASSUME Init PROVE RegistryOK
    OBVIOUS
<1>1. PICK genesis \in Geneses :
        /\ ConsumerChains = genesis.chains
        /\ feesPerBlock = genesis.feesPerBlock
        /\ balance = genesis.balance
      BY DEF Init
<1> QED BY <1>1, ProviderAssumption DEF Init, RegistryOK, Parameters

\* Every step keeps them.
LEMMA StepRegistry == RegistryOK /\ [Next]_vars => RegistryOK'
<1> SUFFICES ASSUME RegistryOK, [Next]_vars PROVE RegistryOK'
    OBVIOUS
<1>1. CASE Billing
  <2>1. ConsumerChains' = [c \in DOMAIN ConsumerChains' |-> ConsumerChains'[c]]
        BY <1>1 DEF Billing, CollectFees
  <2> QED BY <1>1, <2>1, FeesPerChain DEF Billing, RegistryOK
<1>2. CASE Registered
  <2>1. PICK c \in ChainIds \ DOMAIN ConsumerChains, h \in BlockHeights :
          ConsumerChains' = Stored(c, Added(h)) /\ UNCHANGED <<height, feesPerBlock, balance>>
        BY <1>2 DEF Registered
  <2>2. Added(h) \in ConsumerChain
        BY ProviderAssumption DEF Added, ConsumerChain, Statuses, Parameters
  <2>3. ConsumerChains' = [d \in DOMAIN ConsumerChains' |-> ConsumerChains'[d]]
        BY <2>1 DEF Stored
  <2>4. /\ DOMAIN ConsumerChains' \subseteq ChainIds
        /\ \A d \in DOMAIN ConsumerChains' : ConsumerChains'[d] \in ConsumerChain
        BY <2>1, <2>2 DEF Stored, RegistryOK
  <2> QED BY <2>1, <2>3, <2>4 DEF RegistryOK
<1>3. CASE Retired
  <2>1. PICK c \in DOMAIN ConsumerChains, h \in BlockHeights, s \in {"REMOVED", "SUNSET"} :
          /\ ConsumerChains' = Stored(c, [ConsumerChains[c] EXCEPT !.status = s, !.sunsetAt = h])
          /\ UNCHANGED <<height, feesPerBlock, balance>>
        BY <1>3 DEF Retired
  <2>2. [ConsumerChains[c] EXCEPT !.status = s, !.sunsetAt = h] \in ConsumerChain
        BY ProviderAssumption DEF RegistryOK, ConsumerChain, Statuses, Parameters
  <2>3. ConsumerChains' = [d \in DOMAIN ConsumerChains' |-> ConsumerChains'[d]]
        BY <2>1 DEF Stored
  <2>4. /\ DOMAIN ConsumerChains' \subseteq ChainIds
        /\ \A d \in DOMAIN ConsumerChains' : ConsumerChains'[d] \in ConsumerChain
        BY <2>1, <2>2 DEF Stored, RegistryOK
  <2> QED BY <2>1, <2>3, <2>4 DEF RegistryOK
<1>4. CASE Funded
      BY <1>4 DEF Funded, RegistryOK
<1>5. CASE Unchanged
      BY <1>5 DEF Unchanged, RegistryOK
<1> QED BY <1>1, <1>2, <1>3, <1>4, <1>5, StepKinds

\* The registry is well formed and no consumer's account is overdrawn.
THEOREM RegistryCorrect == Spec => []RegistryOK
  BY InitRegistry, StepRegistry, PTL DEF Spec

-----------------------------------------------------------------------------
(* Status changes *)

\* A chain that was sunset or removed is never billed, served or scheduled again.
THEOREM RetiredForGood == Spec => RetiredIsFinal
<1> DEFINE Final ==
      \A c \in DOMAIN ConsumerChains :
        ConsumerChains[c].status \in {"SUNSET", "REMOVED"} =>
          /\ c \in DOMAIN ConsumerChains'
          /\ balance'[c] >= balance[c]
          /\ \/ ConsumerChains'[c] = ConsumerChains[c]
             \/ /\ ConsumerChains[c].status = "SUNSET"
                /\ height' >= ConsumerChains[c].sunsetAt
                /\ ConsumerChains'[c] = [ConsumerChains[c] EXCEPT !.status = "REMOVED"]
<1>1. RegistryOK /\ [Next]_vars => [Final]_vars
  <2> SUFFICES ASSUME RegistryOK, [Next]_vars,
                      NEW c \in DOMAIN ConsumerChains,
                      ConsumerChains[c].status \in {"SUNSET", "REMOVED"}
               PROVE  /\ c \in DOMAIN ConsumerChains'
                      /\ ConsumerChains'[c] = ConsumerChains[c]
                      /\ balance'[c] >= balance[c]
      OBVIOUS
  <2>0. balance[c] \in Nat /\ ~Payable(c) /\ ~CanSunset(c)
        BY DEF RegistryOK, Payable, CanSunset
  <2>1. CASE Billing
        BY <2>0, <2>1, FeesPerChain DEF Billing
  <2>2. CASE Registered
    <3>1. PICK d \in ChainIds \ DOMAIN ConsumerChains, h \in BlockHeights :
            ConsumerChains' = Stored(d, Added(h)) /\ balance' = balance
          BY <2>2 DEF Registered
    <3> QED BY <2>0, <3>1 DEF Stored
  <2>3. CASE Retired
    <3>1. PICK d \in DOMAIN ConsumerChains, h \in BlockHeights, s \in {"REMOVED", "SUNSET"} :
            /\ CanSunset(d)
            /\ ConsumerChains' = Stored(d, [ConsumerChains[d] EXCEPT !.status = s, !.sunsetAt = h])
            /\ balance' = balance
          BY <2>3 DEF Retired
    <3> QED BY <2>0, <3>1 DEF Stored
  <2>4. CASE Funded
        BY <2>0, <2>4 DEF Funded, RegistryOK
  <2>5. CASE Unchanged
        BY <2>0, <2>5 DEF Unchanged
  <2> QED BY <2>1, <2>2, <2>3, <2>4, <2>5, StepKinds
<1> QED BY <1>1, RegistryCorrect, PTL DEF Spec, RetiredIsFinal

\* No chain is served or billed before the height it was added for.
THEOREM NothingStartsEarly == Spec => NeverStartsEarly
<1> DEFINE Starts ==
      \A c \in DOMAIN ConsumerChains' :
        ConsumerChains'[c].status \in {"ACTIVE", "OVERDUE"} =>
          /\ c \in DOMAIN ConsumerChains
          /\ \/ Payable(c)
             \/ /\ ConsumerChains[c].status = "PENDING"
                /\ height' >= ConsumerChains[c].addedAt
<1>1. RegistryOK /\ [Next]_vars => [Starts]_vars
  <2> SUFFICES ASSUME RegistryOK, [Next]_vars,
                      NEW c \in DOMAIN ConsumerChains',
                      ConsumerChains'[c].status \in {"ACTIVE", "OVERDUE"}
               PROVE  c \in DOMAIN ConsumerChains /\ Payable(c)
      OBVIOUS
  <2>1. CASE Billing
        BY <2>1, FeesPerChain DEF Billing, Payable
  <2>2. CASE Registered
    <3>1. PICK d \in ChainIds \ DOMAIN ConsumerChains, h \in BlockHeights :
            ConsumerChains' = Stored(d, Added(h))
          BY <2>2 DEF Registered
    <3>2. Added(h).status = "PENDING"
          BY DEF Added
    <3> QED BY <3>1, <3>2 DEF Stored, Payable
  <2>3. CASE Retired
    <3>1. PICK d \in DOMAIN ConsumerChains, h \in BlockHeights, s \in {"REMOVED", "SUNSET"} :
            ConsumerChains' = Stored(d, [ConsumerChains[d] EXCEPT !.status = s, !.sunsetAt = h])
          BY <2>3 DEF Retired
    <3>2. ConsumerChains[d] \in ConsumerChain
          BY DEF RegistryOK
    <3>3. [ConsumerChains[d] EXCEPT !.status = s, !.sunsetAt = h].status = s
          BY <3>2 DEF ConsumerChain
    <3> QED BY <3>1, <3>3 DEF Stored, Payable
  <2>4. CASE Funded
        BY <2>4 DEF Funded, Payable
  <2>5. CASE Unchanged
        BY <2>5 DEF Unchanged, Payable
  <2> QED BY <2>1, <2>2, <2>3, <2>4, <2>5, StepKinds
<1> QED BY <1>1, RegistryCorrect, PTL DEF Spec, NeverStartsEarly

\* With a fee set, ACTIVE after BeginBlock means paid in this block, and only that.
THEOREM PaidIsActive == Spec => ActiveHasPaid
<1> DEFINE Paid ==
      (height' # height /\ feesPerBlock > 0) =>
        \A c \in DOMAIN ConsumerChains :
          /\ ConsumerChains'[c].status = "ACTIVE" <=>
               Payable(c) /\ balance[c] >= feesPerBlock
          /\ ConsumerChains'[c].status = "ACTIVE" => balance'[c] = balance[c] - feesPerBlock
<1>1. RegistryOK /\ [Next]_vars => [Paid]_vars
  <2> SUFFICES ASSUME RegistryOK, [Next]_vars,
                      height' # height, feesPerBlock > 0,
                      NEW c \in DOMAIN ConsumerChains
               PROVE  /\ ConsumerChains'[c].status = "ACTIVE" <=>
                           Payable(c) /\ balance[c] >= feesPerBlock
                      /\ ConsumerChains'[c].status = "ACTIVE" =>
                           balance'[c] = balance[c] - feesPerBlock
      OBVIOUS
  <2>1. Billing
    <3>1. ~Registered /\ ~Retired /\ ~Funded
          BY DEF Registered, Retired, Funded
    <3>2. ~Unchanged
          BY DEF Unchanged
    <3> QED BY <3>1, <3>2, StepKinds
  <2> QED BY <2>1, FeesPerChain DEF Billing, CanPay, Payable
<1> QED BY <1>1, RegistryCorrect, PTL DEF Spec, ActiveHasPaid

-----------------------------------------------------------------------------
(* Accounts *)

\* The rest of TypeOK: what the validators and the fee collector have got.
AccountsOK ==
  /\ halted \in BOOLEAN
  /\ feeCollector \in Nat
  /\ received \in [Validators -> Nat]

\* The fees of a block: every payer is charged, the validators get shares of it, and what
\* is left goes to the fee collector.
Payment(share) ==
  /\ share \in [Validators -> Nat]
  /\ CollectFees
  /\ received' = [v \in Validators |-> received[v] + share[v]]
  /\ feeCollector' = feeCollector + (Collected - SumFunction(share))
  /\ Collected - SumFunction(share) \in Nat
  /\ received' # received => Collected - SumFunction(share) \in 0 .. Cardinality(Validators) - 1

LEMMA CollectedType ==
  ASSUME RegistryOK
  PROVE  Payers \in SUBSET ChainIds /\ Collected \in Nat
<1>1. Payers \in SUBSET ChainIds
      BY DEF RegistryOK, Payers, Billed
<1>2. Cardinality(Payers) \in Nat
  <2>1. IsFiniteSet(Payers)
        BY <1>1, ProviderAssumption, FS_Subset DEF Parameters
  <2> QED BY <2>1, FS_CardinalityType
<1> QED BY <1>1, <1>2, Distributive DEF RegistryOK, Collected

\* DistributeFees gives shares: together never more than what was collected.
LEMMA DistributionPays ==
  ASSUME RegistryOK, AccountsOK, CollectFees, NEW bonded \in BondedSets,
         SumFunction(bonded) > 0, DistributeFees(Collected, bonded)
  PROVE  \E share : Payment(share)
<1> DEFINE share == [v \in Validators |->
             IF v \in DOMAIN bonded THEN Share(Collected, bonded, v) ELSE 0]
<1>1. /\ IsFiniteSet(Validators) /\ DOMAIN bonded \in SUBSET Validators
      /\ \A v \in DOMAIN bonded : bonded[v] \in Nat
      BY ProviderAssumption DEF Parameters
<1>2. Collected \in Nat
      BY CollectedType
<1>3. SumFunctionOnSet(bonded, DOMAIN bonded) > 0
      BY DEF SumFunction
<1>4. \A v \in Validators :
        share[v] = IF v \in DOMAIN bonded
                   THEN (Collected * bonded[v]) \div SumFunctionOnSet(bonded, DOMAIN bonded)
                   ELSE 0
      BY DEF Share, SumFunction
<1>5. /\ received' = [v \in Validators |-> received[v] + share[v]]
      /\ feeCollector' = feeCollector + Collected - SumFunction(share)
      BY DEF DistributeFees
<1>6. DOMAIN share = Validators /\ share = [v \in Validators |-> share[v]]
      OBVIOUS
<1> HIDE DEF share
<1>7. /\ \A v \in Validators : share[v] \in Nat
      /\ Collected - SumFunction(share) \in 0 .. Cardinality(Validators) - 1
      BY <1>1, <1>2, <1>3, <1>4, <1>6, SharesAmongSome DEF SumFunction
<1>8. SumFunction(share) \in Nat
      BY <1>1, <1>6, <1>7, SumNat DEF SumFunction
<1>9. share \in [Validators -> Nat]
      BY <1>6, <1>7
<1>10. feeCollector' = feeCollector + (Collected - SumFunction(share))
      BY <1>2, <1>5, <1>8 DEF AccountsOK
<1>11. Cardinality(Validators) \in Nat
      BY <1>1, FS_CardinalityType
<1>12. Collected - SumFunction(share) \in Nat
      BY <1>7, <1>11
<1> QED BY <1>5, <1>7, <1>9, <1>10, <1>12 DEF Payment

\* A block that bills somebody, or nobody, is a payment.
LEMMA BeginBlockPays ==
  ASSUME RegistryOK, AccountsOK, NEW bonded \in BondedSets, BeginBlock(bonded)
  PROVE  \E share : Payment(share)
<1>1. CollectFees
      BY DEF BeginBlock
<1>2. CASE feeCollector' = feeCollector + Collected /\ received' = received
  <2> DEFINE share == [v \in Validators |-> 0]
  <2>1. SumFunction(share) = 0
    <3>1. /\ IsFiniteSet(Validators) /\ {} \in SUBSET Validators
          /\ \A v \in {} : share[v] \in Nat
          /\ \A v \in Validators \ {} : share[v] = 0
          BY ProviderAssumption DEF Parameters
    <3>2. DOMAIN share = Validators
          OBVIOUS
    <3> HIDE DEF share
    <3>3. SumFunctionOnSet(share, Validators) = SumFunctionOnSet(share, {})
          BY <3>1, SumOfPart
    <3> QED BY <3>2, <3>3, SumEmpty DEF SumFunction
  <2>2. Collected \in Nat
        BY CollectedType
  <2>3. received' = [v \in Validators |-> received[v] + share[v]] /\ share \in [Validators -> Nat]
        BY <1>2 DEF AccountsOK
  <2> HIDE DEF share
  <2>4. Payment(share)
        BY <1>1, <1>2, <2>1, <2>2, <2>3 DEF Payment
  <2> QED BY <2>4
<1>3. CASE SumFunction(bonded) > 0 /\ DistributeFees(Collected, bonded)
      BY <1>1, <1>3, DistributionPays
<1> QED BY <1>2, <1>3 DEF BeginBlock

\* What a step does to the accounts.
LEMMA AccountSteps ==
  ASSUME RegistryOK, AccountsOK, [Next]_vars
  PROVE  /\ halted' \in BOOLEAN
         /\ \/ UNCHANGED <<balance, feeCollector, received>>
            \/ (\E c \in ChainIds : Fund(c)) /\ UNCHANGED <<feeCollector, received>>
            \/ \E share : Payment(share)
<1> DEFINE Moves == \/ UNCHANGED <<balance, feeCollector, received>>
                    \/ (\E c \in ChainIds : Fund(c)) /\ UNCHANGED <<feeCollector, received>>
                    \/ \E share : Payment(share)
<1>0. halted \in BOOLEAN
      BY DEF AccountsOK
<1>1. CASE UNCHANGED vars
      BY <1>0, <1>1 DEF vars
<1>2. CASE BeginBlockFree
      BY <1>0, <1>2 DEF BeginBlockFree, NextBlock
<1>3. ASSUME NEW bonded \in BondedSets, BeginBlock(bonded) PROVE halted' \in BOOLEAN /\ Moves
  <2>1. halted' = halted
        BY <1>3 DEF BeginBlock, NextBlock
  <2> QED BY <1>0, <1>3, <2>1, BeginBlockPays
<1>4. ASSUME NEW bonded \in BondedSets, BeginBlockFails(bonded) PROVE halted' \in BOOLEAN /\ Moves
      BY <1>4 DEF BeginBlockFails
<1>5. CASE Messages
  <2>1. Deliver /\ (UNCHANGED balance \/ \E c \in ChainIds : Fund(c))
        BY <1>5 DEF Messages, UpdateParams, Fund, AddConsumer, SunsetConsumer, UpgradeConsumer
  <2> QED BY <1>0, <2>1 DEF Deliver
<1> QED BY <1>1, <1>2, <1>3, <1>4, <1>5 DEF Next

LEMMA InitAccounts == Init => AccountsOK
<1> SUFFICES ASSUME Init PROVE AccountsOK
    OBVIOUS
<1>1. halted \in BOOLEAN
      BY DEF Init
<1>2. feeCollector \in Nat /\ received \in [Validators -> Nat]
      BY DEF Init
<1> QED BY <1>1, <1>2 DEF AccountsOK

LEMMA StepAccounts == RegistryOK /\ AccountsOK /\ [Next]_vars => AccountsOK'
<1> SUFFICES ASSUME RegistryOK, AccountsOK, [Next]_vars PROVE AccountsOK'
    OBVIOUS
<1>1. halted' \in BOOLEAN
      BY AccountSteps
<1>2. CASE UNCHANGED <<feeCollector, received>>
      BY <1>1, <1>2 DEF AccountsOK
<1>3. ASSUME NEW share, Payment(share) PROVE AccountsOK'
      BY <1>1, <1>3 DEF Payment, AccountsOK
<1> QED BY <1>2, <1>3, AccountSteps

LEMMA AccountsCorrect == Spec => [](RegistryOK /\ AccountsOK)
  BY InitAccounts, StepAccounts, RegistryCorrect, PTL DEF Spec

\* The registry and all the accounts keep their types: no amount is ever negative, the fee
\* collector's included, from which the validators' shares are taken.
THEOREM TypeCorrect == Spec => []TypeOK
<1>1. RegistryOK /\ AccountsOK => TypeOK
      BY DEF RegistryOK, AccountsOK, TypeOK
<1> QED BY <1>1, AccountsCorrect, PTL

\* What a payment does to the three sums.
LEMMA PaymentSums ==
  ASSUME RegistryOK, AccountsOK, NEW share, Payment(share)
  PROVE  /\ SumFunction(balance') \in Nat
         /\ SumFunction(balance) = SumFunction(balance') + Collected
         /\ SumFunction(received') = SumFunction(received) + SumFunction(share)
         /\ SumFunction(received) \in Nat /\ SumFunction(share) \in Nat
<1> DEFINE charge == [c \in ChainIds |-> IF c \in Payers THEN feesPerBlock ELSE 0]
<1>1. IsFiniteSet(ChainIds) /\ IsFiniteSet(Validators)
      BY ProviderAssumption DEF Parameters
<1>2. /\ balance \in [ChainIds -> Nat] /\ feesPerBlock \in Nat
      /\ received \in [Validators -> Nat] /\ share \in [Validators -> Nat]
      BY DEF RegistryOK, AccountsOK, Payment
<1>3. balance' \in [ChainIds -> Nat]
      BY FeesPerChain DEF Payment
<1>4. \A c \in ChainIds :
        /\ balance'[c] \in Nat /\ charge[c] \in Nat
        /\ balance[c] = balance'[c] + charge[c]
        /\ charge[c] = IF c \in Payers THEN feesPerBlock ELSE 0
      BY <1>2, <1>3 DEF Payment, CollectFees
<1> HIDE DEF charge
<1>5. SumFunctionOnSet(balance, ChainIds)
        = SumFunctionOnSet(balance', ChainIds) + SumFunctionOnSet(charge, ChainIds)
      BY <1>1, <1>4, SumPlus
<1>6. SumFunctionOnSet(charge, ChainIds) = Collected
      BY <1>1, <1>2, <1>4, CollectedType, SumOnPart DEF Collected
<1>7. SumFunctionOnSet(received', Validators)
        = SumFunctionOnSet(received, Validators) + SumFunctionOnSet(share, Validators)
  <2>1. \A v \in Validators :
          received[v] \in Nat /\ share[v] \in Nat /\ received'[v] = received[v] + share[v]
        BY <1>2 DEF Payment
  <2> QED BY <1>1, <2>1, SumPlus
<1>8. DOMAIN received' = Validators
      BY DEF Payment
<1>9. /\ SumFunctionOnSet(balance', ChainIds) \in Nat
      /\ SumFunctionOnSet(received, Validators) \in Nat
      /\ SumFunctionOnSet(share, Validators) \in Nat
      BY <1>1, <1>2, <1>3, SumNat
<1> QED BY <1>2, <1>3, <1>5, <1>6, <1>7, <1>8, <1>9 DEF SumFunction

\* No block makes or destroys a coin: what the payers lose, the validators and the fee
\* collector get.
THEOREM CoinsConserved == Spec => FeesConserved
<1>1. RegistryOK /\ AccountsOK /\ [Next]_vars
        => [Wealth' = Wealth \/ \E c \in ChainIds : Fund(c)]_vars
  <2> SUFFICES ASSUME RegistryOK, AccountsOK, [Next]_vars
               PROVE  Wealth' = Wealth \/ \E c \in ChainIds : Fund(c)
      OBVIOUS
  <2>1. CASE UNCHANGED <<balance, feeCollector, received>>
        BY <2>1 DEF Wealth
  <2>2. ASSUME NEW share, Payment(share) PROVE Wealth' = Wealth
    <3>1. /\ SumFunction(balance') \in Nat
          /\ SumFunction(balance) = SumFunction(balance') + Collected
          /\ SumFunction(received') = SumFunction(received) + SumFunction(share)
          /\ SumFunction(received) \in Nat /\ SumFunction(share) \in Nat
          BY <2>2, PaymentSums
    <3>2. feeCollector' = feeCollector + (Collected - SumFunction(share)) /\ feeCollector \in Nat
          BY <2>2 DEF Payment, AccountsOK
    <3>3. Collected \in Nat
          BY CollectedType
    <3>4. Wealth' = SumFunction(balance') + feeCollector' + SumFunction(received')
          BY DEF Wealth
    <3> QED BY <3>1, <3>2, <3>3, <3>4 DEF Wealth
  <2> QED BY <2>1, <2>2, AccountSteps
<1> QED BY <1>1, AccountsCorrect, PTL DEF Spec, FeesConserved

\* A distribution draws on the coins of its own block only, and holds back less than one
\* coin per validator, whatever the powers and the amount.
THEOREM RoundingOnly == Spec => OnlyRoundingHeldBack
<1> DEFINE Rounds ==
      received' # received => feeCollector' - feeCollector \in 0 .. Cardinality(Validators) - 1
<1>1. RegistryOK /\ AccountsOK /\ [Next]_vars => [Rounds]_vars
  <2> SUFFICES ASSUME RegistryOK, AccountsOK, [Next]_vars, received' # received
               PROVE  feeCollector' - feeCollector \in 0 .. Cardinality(Validators) - 1
      OBVIOUS
  <2>1. PICK share : Payment(share)
        BY AccountSteps
  <2>2. /\ Collected - SumFunction(share) \in 0 .. Cardinality(Validators) - 1
        /\ Collected - SumFunction(share) \in Nat
        /\ feeCollector' = feeCollector + (Collected - SumFunction(share))
        BY <2>1 DEF Payment
  <2>3. feeCollector' - feeCollector = Collected - SumFunction(share)
        BY <2>2 DEF AccountsOK
  <2> QED BY <2>2, <2>3
<1> QED BY <1>1, AccountsCorrect, PTL DEF Spec, OnlyRoundingHeldBack

\* Every bonded validator gets its exact part of the fees but for less than one coin, and
\* more power never gets less.
THEOREM FairShares ==
  ASSUME NEW bonded \in BondedSets, SumFunction(bonded) > 0, NEW total \in Nat,
         NEW v \in DOMAIN bonded, NEW w \in DOMAIN bonded
  PROVE  /\ Share(total, bonded, v) \in Nat
         /\ total * bonded[v] - SumFunction(bonded) * Share(total, bonded, v)
              \in 0 .. SumFunction(bonded) - 1
         /\ bonded[v] <= bonded[w] => Share(total, bonded, v) <= Share(total, bonded, w)
<1>1. DOMAIN bonded \subseteq Validators /\ \A x \in DOMAIN bonded : bonded[x] \in Nat
      BY ProviderAssumption DEF Parameters
<1>2. IsFiniteSet(DOMAIN bonded)
      BY <1>1, ProviderAssumption, FS_Subset DEF Parameters
<1>3. SumFunction(bonded) \in Nat
      BY <1>1, <1>2, SumNat DEF SumFunction
<1>4. PICK p \in Nat : p = SumFunction(bonded) /\ p > 0
      BY <1>3
<1>5. ASSUME NEW x \in DOMAIN bonded
      PROVE  /\ Share(total, bonded, x) \in Nat
             /\ p * Share(total, bonded, x) <= total * bonded[x]
             /\ total * bonded[x] <= p * Share(total, bonded, x) + (p - 1)
  <2>1. total * bonded[x] \in Nat
        BY <1>1
  <2> QED BY <1>4, <2>1, Quotient DEF Share
<1>6. ASSUME NEW a \in Nat, NEW b \in Nat, NEW m \in Nat, NEW n \in Nat,
             a = Share(total, bonded, v), b = Share(total, bonded, w),
             m = bonded[v], n = bonded[w], m <= n
      PROVE  a <= b
  <2>1. p * a <= total * m /\ total * n <= p * b + (p - 1)
        BY <1>5, <1>6
  <2>2. total * m <= total * n
        BY <1>6
  <2>3. total * m \in Nat /\ total * n \in Nat /\ p * a \in Nat /\ p * b \in Nat
        BY <1>4, <1>6
  <2>4. p * a <= p * b + (p - 1)
        BY <1>4, <2>1, <2>2, <2>3
  <2>5. ASSUME a >= b + 1 PROVE FALSE
    <3>1. p * a >= p * (b + 1) /\ p * (b + 1) = p * b + p
          BY <1>4, <1>6, <2>5
    <3> QED BY <1>4, <2>3, <2>4, <3>1
  <2> QED BY <2>5
<1>7. bonded[v] <= bonded[w] => Share(total, bonded, v) <= Share(total, bonded, w)
      BY <1>1, <1>5, <1>6
<1>8. total * bonded[v] - p * Share(total, bonded, v) \in 0 .. p - 1
  <2>1. total * bonded[v] \in Nat /\ p * Share(total, bonded, v) \in Nat
        BY <1>1, <1>4, <1>5
  <2> QED BY <1>4, <1>5, <2>1
<1> QED BY <1>4, <1>5, <1>7, <1>8

=============================================================================
