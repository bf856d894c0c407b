------------------------- MODULE CompositionProofs --------------------------
(***************************************************************************)
(* The provider chain inside of Replicas behaves as Provider says: there   *)
(* every step of the composed system is a step of the provider or none.    *)
(* So what ProviderProofs proves of the provider alone holds for it among  *)
(* the nodes, and the types of Replicas are complete.                      *)
(*                                                                         *)
(* An instance has its own copy of every definition, those of the standard *)
(* modules included.  The first lemmas say that the copy Replicas uses and *)
(* the one the theorems speak of are the same.                             *)
(***************************************************************************)
EXTENDS ReplicasProofs

\* The theorems about the provider, for the constants Replicas gives it.
Proved == INSTANCE ProviderProofs WITH ChainIds <- Consumers, TransfersFail <- FALSE

-----------------------------------------------------------------------------
(* The two copies *)

LEMMA SameLibrary ==
  /\ \A S : Proved!IsFiniteSet(S) <=> Registry!IsFiniteSet(S)
  /\ \A S : Proved!Cardinality(S) = Registry!Cardinality(S)
  /\ \A f : Proved!SumFunction(f) = Registry!SumFunction(f)
<1>1. ASSUME NEW S PROVE Proved!IsFiniteSet(S) <=> Registry!IsFiniteSet(S)
      BY DEF Proved!IsFiniteSet, Registry!IsFiniteSet
<1>2. ASSUME NEW S PROVE Proved!Cardinality(S) = Registry!Cardinality(S)
      BY DEF Proved!Cardinality, Registry!Cardinality
<1>3. ASSUME NEW f PROVE Proved!SumFunction(f) = Registry!SumFunction(f)
      BY DEF Proved!SumFunction, Proved!SumFunctionOnSet, Proved!FoldFunctionOnSet,
             Proved!MapThenFoldSet, Registry!SumFunction, Registry!SumFunctionOnSet,
             Registry!FoldFunctionOnSet, Registry!MapThenFoldSet
<1> QED BY <1>1, <1>2, <1>3

LEMMA SameState ==
  /\ Proved!vars = Registry!vars
  /\ Proved!ConsumerChain = Registry!ConsumerChain
  /\ Proved!Billed = Registry!Billed
  /\ Proved!Payers = Registry!Payers
  /\ Proved!Wealth = Registry!Wealth /\ Proved!Wealth' = Registry!Wealth'
  /\ Proved!Collected = Registry!Collected
<1>1. Proved!vars = Registry!vars
      BY DEF Proved!vars, Registry!vars
<1>2. Proved!ConsumerChain = Registry!ConsumerChain
      BY DEF Proved!ConsumerChain, Registry!ConsumerChain, Proved!Statuses, Registry!Statuses
<1>3. Proved!Billed = Registry!Billed /\ Proved!Payers = Registry!Payers
      BY DEF Proved!Billed, Registry!Billed, Proved!Payers, Registry!Payers,
             Proved!Payable, Registry!Payable, Proved!CanPay, Registry!CanPay
<1>4. Proved!Wealth = Registry!Wealth /\ Proved!Wealth' = Registry!Wealth'
      BY SameLibrary DEF Proved!Wealth, Registry!Wealth
<1>5. Proved!Collected = Registry!Collected
      BY <1>3, SameLibrary DEF Proved!Collected, Registry!Collected
<1> QED BY <1>1, <1>2, <1>3, <1>4, <1>5

\* The constants of Replicas are ones Provider allows.
LEMMA AllowedParameters == Proved!Parameters
<1>1. /\ Registry!IsFiniteSet(Consumers) /\ Registry!IsFiniteSet(Validators)
      /\ Fees \subseteq Nat /\ BlockHeights \subseteq Nat
      /\ \A bonded \in BondedSets :
           DOMAIN bonded \subseteq Validators /\ \A v \in DOMAIN bonded : bonded[v] \in Nat
      /\ \A genesis \in Geneses :
           /\ genesis.feesPerBlock \in Nat
           /\ \E ids \in SUBSET Consumers : genesis.chains \in [ids -> Registry!ConsumerChain]
           /\ genesis.balance \in [Consumers -> Nat]
      /\ MaxHeight \in Nat /\ MaxFunds \in Nat
      BY ReplicasAssumption DEF ReplicasAssumption, Registry!Parameters
<1>2. FALSE \in BOOLEAN
      OBVIOUS
<1> QED BY <1>1, <1>2, SameLibrary, SameState, Zenon DEF Proved!Parameters

LEMMA SameFund ==
  ASSUME NEW c
  PROVE  Proved!Fund(c) <=> Registry!Fund(c)
  BY SameState DEF Proved!Fund, Registry!Fund, Proved!Deliver, Registry!Deliver

LEMMA SameMessages == Proved!Messages <=> Registry!Messages
<1> USE DEF Proved!Deliver, Registry!Deliver, Proved!Stored, Registry!Stored
<1>1. \A fees \in Fees : Proved!UpdateParams(fees) <=> Registry!UpdateParams(fees)
      BY DEF Proved!UpdateParams, Registry!UpdateParams
<1>2. \A c \in Consumers, h \in BlockHeights : Proved!AddConsumer(c, h) <=> Registry!AddConsumer(c, h)
      BY DEF Proved!AddConsumer, Registry!AddConsumer, Proved!Added, Registry!Added
<1>3. \A c \in Consumers, h \in BlockHeights : Proved!SunsetConsumer(c, h) <=> Registry!SunsetConsumer(c, h)
      BY DEF Proved!SunsetConsumer, Registry!SunsetConsumer, Proved!CanSunset, Registry!CanSunset
<1>4. \A c \in Consumers, h \in BlockHeights : Proved!UpgradeConsumer(c, h) <=> Registry!UpgradeConsumer(c, h)
      BY DEF Proved!UpgradeConsumer, Registry!UpgradeConsumer
<1> QED BY <1>1, <1>2, <1>3, <1>4, SameFund DEF Proved!Messages, Registry!Messages

LEMMA SameBlocks ==
  /\ Proved!BeginBlockFree <=> Registry!BeginBlockFree
  /\ \A bonded \in BondedSets :
       /\ Proved!BeginBlock(bonded) <=> Registry!BeginBlock(bonded)
       /\ Proved!BeginBlockFails(bonded) <=> Registry!BeginBlockFails(bonded)
<1>1. Proved!NextBlock <=> Registry!NextBlock
      BY DEF Proved!NextBlock, Registry!NextBlock
<1>2. Proved!CollectFees <=> Registry!CollectFees
      BY SameState DEF Proved!CollectFees, Registry!CollectFees, Proved!AfterFees, Registry!AfterFees,
                       Proved!CanPay, Registry!CanPay
<1>3. ASSUME NEW bonded \in BondedSets
      PROVE  /\ Proved!BeginBlock(bonded) <=> Registry!BeginBlock(bonded)
             /\ Proved!BeginBlockFails(bonded) <=> Registry!BeginBlockFails(bonded)
  <2> DEFINE total == Registry!Collected
  <2>1. \A v : Proved!Share(total, bonded, v) = Registry!Share(total, bonded, v)
        BY SameLibrary DEF Proved!Share, Registry!Share
  <2>2. Proved!DistributeFees(total, bonded) <=> Registry!DistributeFees(total, bonded)
    <3> HIDE DEF total
    <3> QED BY <2>1, SameLibrary DEF Proved!DistributeFees, Registry!DistributeFees
  <2>3. Proved!BeginBlock(bonded) <=> Registry!BeginBlock(bonded)
        BY <1>1, <1>2, <2>2, SameState, SameLibrary DEF Proved!BeginBlock, Registry!BeginBlock
  <2>4. Proved!BeginBlockFails(bonded) <=> Registry!BeginBlockFails(bonded)
        BY SameState, SameLibrary DEF Proved!BeginBlockFails, Registry!BeginBlockFails
  <2> QED BY <2>3, <2>4
<1>4. Proved!BeginBlockFree <=> Registry!BeginBlockFree
      BY <1>1 DEF Proved!BeginBlockFree, Registry!BeginBlockFree
<1> QED BY <1>3, <1>4

LEMMA SameSpec == Registry!Spec => Proved!Spec
<1>1. Registry!Init => Proved!Init
      BY DEF Registry!Init, Proved!Init
<1>2. Registry!Next => Proved!Next
      BY SameMessages, SameBlocks DEF Registry!Next, Proved!Next
<1>3. [Registry!Next]_Registry!vars => [Proved!Next]_Proved!vars
      BY <1>2 DEF Registry!vars, Proved!vars
<1> QED BY <1>1, <1>3, PTL DEF Registry!Spec, Proved!Spec

-----------------------------------------------------------------------------
(* The provider among the nodes *)

\* The composed system takes the provider chain through the behaviours of Provider: a
\* decided block is its BeginBlock, then come its messages, and neither a node that is
\* late, asked about another proposal or restarted, nor the end of the block touches it.
THEOREM ProviderInside == Spec => Registry!Spec
<1>1. Init => Registry!Init
      BY DEF Init
<1>2. [Next]_vars => [Registry!Next]_Registry!vars
  <2> SUFFICES ASSUME [Next]_vars PROVE [Registry!Next]_Registry!vars
      OBVIOUS
  <2>1. CASE UNCHANGED providerVars
        BY <2>1 DEF providerVars, Registry!vars
  <2>2. CASE UNCHANGED vars
        BY <2>1, <2>2 DEF vars
  <2>3. ASSUME NEW n \in Nodes, Restart(n) \/ ExecuteBlock(n) PROVE UNCHANGED providerVars
        BY <2>3 DEF Restart, ExecuteBlock
  <2>4. ASSUME NEW n \in Nodes, NEW b \in Blocks, Propose(n, b) PROVE UNCHANGED providerVars
        BY <2>4 DEF Propose
  <2>5. ASSUME NEW n \in Nodes, NEW p \in proposals, ProcessProposal(n, p) PROVE UNCHANGED providerVars
        BY <2>5 DEF ProcessProposal
  <2>6. ASSUME NEW p \in proposals, Decide(p) PROVE Registry!Next
        BY <2>6 DEF Decide, Registry!Next
  <2>7. CASE Deliver
        BY <2>7 DEF Deliver, Registry!Next
  <2>8. CASE EndBlock
        BY <2>1, <2>8 DEF EndBlock
  <2> QED BY <2>1, <2>2, <2>3, <2>4, <2>5, <2>6, <2>7, <2>8 DEF Next
<1> QED BY <1>1, <1>2, PTL DEF Spec, Registry!Spec

\* Consensus, the nodes, the registry and the accounts keep their types together.
THEOREM TypeCorrect == Spec => []TypeOK
<1>1. Proved!Spec => []Proved!TypeOK
      BY AllowedParameters, Proved!TypeCorrect
<1>2. Proved!TypeOK => Registry!TypeOK
      BY SameState DEF Proved!TypeOK, Registry!TypeOK
<1>3. Spec => []Registry!TypeOK
      BY <1>1, <1>2, ProviderInside, SameSpec, PTL
<1> QED BY <1>3, NodesTypeCorrect, PTL DEF TypeOK

\* Coins are conserved among the nodes too, rounding is all that is held back from the
\* validators, ACTIVE means paid, and a retired chain stays retired.
THEOREM PromisesInside ==
  Spec => /\ Registry!FeesConserved /\ Registry!OnlyRoundingHeldBack
          /\ Registry!ActiveHasPaid /\ Registry!RetiredIsFinal
<1>1. /\ Proved!Spec => Proved!FeesConserved
      /\ Proved!Spec => Proved!OnlyRoundingHeldBack
      /\ Proved!Spec => Proved!ActiveHasPaid
      /\ Proved!Spec => Proved!RetiredIsFinal
      BY AllowedParameters, Proved!CoinsConserved, Proved!RoundingOnly, Proved!PaidIsActive,
         Proved!RetiredForGood
<1>2. Proved!FeesConserved => Registry!FeesConserved
  <2>1. [Proved!Wealth' = Proved!Wealth \/ \E c \in Consumers : Proved!Fund(c)]_Proved!vars
          => [Registry!Wealth' = Registry!Wealth \/ \E c \in Consumers : Registry!Fund(c)]_Registry!vars
        BY SameState, SameFund DEF Proved!vars, Registry!vars
  <2> QED BY <2>1, PTL DEF Proved!FeesConserved, Registry!FeesConserved
<1>3. Proved!OnlyRoundingHeldBack => Registry!OnlyRoundingHeldBack
  <2>1. [received' # received =>
           feeCollector' - feeCollector \in 0 .. Proved!Cardinality(Validators) - 1]_Proved!vars
          => [received' # received =>
                feeCollector' - feeCollector \in 0 .. Registry!Cardinality(Validators) - 1]_Registry!vars
        BY SameLibrary DEF Proved!vars, Registry!vars
  <2> QED BY <2>1, PTL DEF Proved!OnlyRoundingHeldBack, Registry!OnlyRoundingHeldBack
<1>4. Proved!ActiveHasPaid => Registry!ActiveHasPaid
      BY PTL DEF Proved!ActiveHasPaid, Registry!ActiveHasPaid, Proved!vars, Registry!vars,
                 Proved!Payable, Registry!Payable
<1>5. Proved!RetiredIsFinal => Registry!RetiredIsFinal
      BY PTL DEF Proved!RetiredIsFinal, Registry!RetiredIsFinal, Proved!vars, Registry!vars
<1> QED BY <1>1, <1>2, <1>3, <1>4, <1>5, ProviderInside, SameSpec, PTL

=============================================================================
