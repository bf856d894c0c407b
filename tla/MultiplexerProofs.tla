------------------------- MODULE MultiplexerProofs -------------------------
(***************************************************************************)
(* Proofs about Multiplexer, for every set of consumers, every set of      *)
(* blocks and configurations, and every number and kind of troubles.       *)
(***************************************************************************)
EXTENDS Multiplexer, TLAPS

\* The record types of TypeOK.
ProviderStates == [height : Nat, active : SUBSET Consumers, final : Nat, next : SUBSET Consumers]
AppStates == [genesis : GenesisKinds, initial : Nat, height : Nat, final : Nat]

\* What the actions do to a consumer application keeps it one.
LEMMA AppTypes ==
  ASSUME app \in [Consumers -> AppStates], NEW c \in Consumers, decided \in Nat
  PROVE  /\ AppInitChain(c) => app' \in [Consumers -> AppStates]
         /\ AppFinalizeBlock(c, decided) => app' \in [Consumers -> AppStates]
         /\ AppCommit(c) => app' \in [Consumers -> AppStates]
         /\ AppRestart(c) => app' \in [Consumers -> AppStates]
  BY DEF AppStates, GenesisKinds, InitialHeight, AppInitChain, AppFinalizeBlock, AppCommit, AppRestart

\* The initial state has the types.
LEMMA InitTypes == Init => TypeOK
<1> SUFFICES ASSUME Init PROVE TypeOK
    OBVIOUS
<1>1. DOMAIN txResults = {}
      BY DEF Init
<1>2. app \in [Consumers -> AppStates]
      BY DEF Init, AppStates, GenesisKinds
<1>3. provider \in ProviderStates
      BY DEF Init, ProviderStates
<1>4. budget \in Nat
      BY MultiplexerAssumption DEF Init, MultiplexerAssumption
<1>5. /\ phase \in Phases /\ proposal \in HeaderBlocks /\ block \in HeaderBlocks
      /\ decided \in Nat /\ ~(decided > 0)
      BY DEF Init, Phases, HeaderBlocks
<1>6. /\ chainHandlers = {} /\ rejectedConsumerChains = {} /\ initializedConsumerChains = {}
      /\ activeChains = {} /\ providerGenesis = FALSE
      /\ todo = {} /\ waiting = {} /\ hashed = {}
      BY DEF Init
<1> QED BY <1>1, <1>2, <1>3, <1>4, <1>5, <1>6 DEF TypeOK, AppStates, ProviderStates

\* Every step keeps the types.
LEMMA StepTypes == TypeOK /\ [Next]_vars => TypeOK'
<1> SUFFICES ASSUME TypeOK, [Next]_vars PROVE TypeOK'
    OBVIOUS
<1> USE MultiplexerAssumption DEF MultiplexerAssumption, TypeOK, Phases, HeaderBlocks, Chains,
        cometVars, muxVars, respVars, Trouble, NoTrouble
<1>1. CASE UNCHANGED vars
      BY <1>1 DEF vars
<1>2. CASE Start
  <2>1. chainHandlers' \subseteq Consumers
        BY <1>2 DEF Start
  <2>2. provider' \in ProviderStates
        BY <1>2 DEF Start, ProviderStates
  <2>3. DOMAIN txResults' = {}
        BY <1>2 DEF Start
  <2> QED BY <1>2, <2>1, <2>2, <2>3 DEF Start, ProviderStates
<1>3. CASE Crash
      BY <1>3 DEF Crash
<1>4. CASE Run
  <2>1. CASE InitChain
        BY <2>1 DEF InitChain
  <2>2. CASE InitChainFails
        BY <2>2 DEF InitChainFails, Halt
  <2>3. CASE InitChainReturns
        BY <2>3 DEF InitChainReturns
  <2>4. CASE ProcessProposalReturns
        BY <2>4 DEF ProcessProposalReturns
  <2>5. CASE FinalizeBlock
    <3>1. block \in Blocks
          BY <2>5 DEF FinalizeBlock, Finalizable
    <3>2. DOMAIN block \subseteq Nat /\ DOMAIN txResults' = DOMAIN block
          BY <2>5, <3>1 DEF FinalizeBlock
    <3>3. \A i \in DOMAIN txResults' : txResults'[i] \in TxAnswers
          BY <2>5, <3>2 DEF FinalizeBlock, TxAnswers
    <3>4. activeChains' \subseteq Consumers
          BY <2>5 DEF FinalizeBlock, ActiveConsumerChains
    <3>5. PICK next \in ActiveSets : ProviderFinalizeBlock(next)
          BY <2>5 DEF FinalizeBlock
    <3>6. provider' \in ProviderStates
          BY <3>5 DEF ProviderFinalizeBlock, ProviderStates
    <3> QED BY <2>5, <3>2, <3>3, <3>4, <3>6 DEF FinalizeBlock, ProviderStates
  <2>6. CASE FinalizeBlockFails
        BY <2>6 DEF FinalizeBlockFails, Halt
  <2>7. CASE FinalizeBlockReturns
        BY <2>7 DEF FinalizeBlockReturns
  <2>8. CASE Commit
        BY <2>8 DEF Commit, ProviderCommit, CommitTargets
  <2>9. CASE CommitFails
        BY <2>9 DEF CommitFails, Halt
  <2>10. CASE CommitReturns
        BY <2>10 DEF CommitReturns
  <2> QED BY <1>4, <2>1, <2>2, <2>3, <2>4, <2>5, <2>6, <2>7, <2>8, <2>9, <2>10 DEF Run
<1>5. ASSUME NEW b \in Blocks,
             ProcessProposalRejects(b) \/ ProcessProposal(b) \/ Decide(b)
      PROVE  TypeOK'
  <2>1. CASE ProcessProposalRejects(b)
        BY <2>1 DEF ProcessProposalRejects, Proposable
  <2>2. CASE ProcessProposal(b)
    <3>1. Asked(b) \subseteq Chains
          BY DEF Asked
    <3> QED BY <2>2, <3>1 DEF ProcessProposal, Proposable
  <2>3. CASE Decide(b)
        BY <2>3 DEF Decide
  <2> QED BY <1>5, <2>1, <2>2, <2>3
<1>6. ASSUME NEW c \in Chains, ProcessProposalResult(c)
      PROVE  TypeOK'
      BY <1>6 DEF ProcessProposalResult, Skippable
<1>7. ASSUME NEW c \in Consumers, Answer(c) \/ ConsumerCrash(c)
      PROVE  TypeOK'
  <2>0. /\ AppInitChain(c) => app' \in [Consumers -> AppStates]
        /\ AppFinalizeBlock(c, decided) => app' \in [Consumers -> AppStates]
        /\ AppCommit(c) => app' \in [Consumers -> AppStates]
        /\ AppRestart(c) => app' \in [Consumers -> AppStates]
        BY AppTypes DEF AppStates
  <2>1. CASE InitChainResult(c)
        BY <2>1, <2>0 DEF InitChainResult, AppStates
  <2>2. CASE LoopSkips(c)
        BY <2>2 DEF LoopSkips
  <2>3. CASE LoopDispatches(c)
        BY <2>3 DEF LoopDispatches
  <2>4. CASE LoopInitializes(c)
    <3>1. app' \in [Consumers -> AppStates]
          BY <2>4, <2>0 DEF LoopInitializes, AppStates
    <3>2. budget' \in Nat
          BY <2>4 DEF LoopInitializes, InitChainTrouble
    <3>3. initializedConsumerChains' \subseteq Consumers /\ waiting' \subseteq Consumers
          BY <2>4 DEF LoopInitializes
    <3> QED BY <2>4, <3>1, <3>2, <3>3 DEF LoopInitializes, Served, AppStates
  <2>5. CASE FinalizeBlockResult(c)
    <3>1. /\ DOMAIN txResults' \subseteq Nat
          /\ \A i \in DOMAIN txResults' : txResults'[i] \in TxAnswers
          BY <2>5 DEF FinalizeBlockResult, TxAnswers
    <3> QED BY <2>5, <2>0, <3>1 DEF FinalizeBlockResult, AppStates
  <2>6. CASE CommitResult(c)
        BY <2>6, <2>0 DEF CommitResult, AppStates
  <2>7. CASE ConsumerCrash(c)
    <3>1. /\ app' \in [Consumers -> AppStates]
          /\ UNCHANGED <<phase, cometVars, muxVars, todo, waiting, respVars, provider>>
          BY <2>7, <2>0 DEF ConsumerCrash
    <3>2. Trouble("consumerCrash")
          BY <2>7 DEF ConsumerCrash
    <3> QED BY <3>1, <3>2 DEF AppStates
  <2> QED BY <1>7, <2>1, <2>2, <2>3, <2>4, <2>5, <2>6, <2>7 DEF Answer
<1> QED BY <1>1, <1>2, <1>3, <1>4, <1>5, <1>6, <1>7 DEF Next

\* Type correctness of every reachable state of a node.
THEOREM TypeCorrect == Spec => []TypeOK
  BY InitTypes, StepTypes, PTL DEF Spec

-----------------------------------------------------------------------------
(* Heights *)

\* Every height a consumer holds, committed or only executed, and every height the
\* provider and consensus are at: the inductive strengthening of ConsumerNeverAhead.
\* A consumer may hold the next block executed (the provider executed it first), and
\* once the provider has committed, everything the consumer holds is within its height;
\* so the Commit a consumer then receives cannot take it ahead.
HeightInv ==
  /\ decided \in {provider.height, provider.height + 1}
  /\ phase \in {"finalizing", "finalized"} =>
       decided = provider.height + 1 /\ provider.final = decided
  /\ \A c \in Consumers :
       /\ app[c].height <= provider.height
       /\ app[c].final <= provider.height + 1
       /\ app[c].final = 0 \/ app[c].final > app[c].height
       /\ phase = "committing" => app[c].final <= provider.height

\* A step that changes no height, and enters no phase in which heights change.
Quiet ==
  /\ UNCHANGED <<provider, app, decided>>
  /\ phase' \in {"finalizing", "finalized", "committing"} =>
       phase' = phase \/ (phase = "finalizing" /\ phase' = "finalized")

\* A step of one consumer application: where the calls that change its heights are made.
ConsumerStep(c) ==
  /\ UNCHANGED <<phase, provider, decided>>
  /\ \/ AppInitChain(c)
     \/ phase = "finalizing" /\ AppFinalizeBlock(c, decided)
     \/ phase = "committing" /\ AppCommit(c)
     \/ AppRestart(c)

\* The steps of a node, by what they do to heights.
LEMMA StepKinds ==
  ASSUME [Next]_vars
  PROVE  \/ Quiet \/ Start \/ FinalizeBlock \/ Commit
         \/ \E b \in Blocks : Decide(b)
         \/ \E c \in Consumers : ConsumerStep(c)
<1> USE DEF cometVars, muxVars, respVars, Quiet
<1>1. CASE UNCHANGED vars
      BY <1>1 DEF vars
<1>2. CASE Crash
      BY <1>2 DEF Crash
<1>3. CASE Run
  <2>1. CASE InitChain \/ InitChainFails \/ InitChainReturns
        BY <2>1 DEF InitChain, InitChainFails, InitChainReturns, Halt
  <2>2. CASE ProcessProposalReturns
        BY <2>2 DEF ProcessProposalReturns
  <2>3. CASE FinalizeBlockFails \/ FinalizeBlockReturns
        BY <2>3 DEF FinalizeBlockFails, FinalizeBlockReturns, Halt
  <2>4. CASE CommitFails \/ CommitReturns
        BY <2>4 DEF CommitFails, CommitReturns, Halt
  <2> QED BY <1>3, <2>1, <2>2, <2>3, <2>4 DEF Run
<1>4. ASSUME NEW b \in Blocks, ProcessProposalRejects(b) \/ ProcessProposal(b)
      PROVE  Quiet
      BY <1>4 DEF ProcessProposalRejects, ProcessProposal, Proposable
<1>5. ASSUME NEW c \in Chains, ProcessProposalResult(c)
      PROVE  Quiet
      BY <1>5 DEF ProcessProposalResult
<1>6. ASSUME NEW c \in Consumers, Answer(c) \/ ConsumerCrash(c)
      PROVE  Quiet \/ ConsumerStep(c)
  <2>1. CASE InitChainResult(c)
        BY <2>1 DEF InitChainResult, ConsumerStep
  <2>2. CASE LoopSkips(c) \/ LoopDispatches(c)
        BY <2>2 DEF LoopSkips, LoopDispatches
  <2>3. CASE LoopInitializes(c)
        BY <2>3 DEF LoopInitializes, ConsumerStep
  <2>4. CASE FinalizeBlockResult(c)
        BY <2>4 DEF FinalizeBlockResult, ConsumerStep
  <2>5. CASE CommitResult(c)
        BY <2>5 DEF CommitResult, ConsumerStep
  <2>6. CASE ConsumerCrash(c)
        BY <2>6 DEF ConsumerCrash, ConsumerStep
  <2> QED BY <1>6, <2>1, <2>2, <2>3, <2>4, <2>5, <2>6 DEF Answer
<1> QED BY <1>1, <1>2, <1>3, <1>4, <1>5, <1>6 DEF Next

\* Heights start at zero.
LEMMA InitHeights == Init => HeightInv
  BY DEF Init, HeightInv

\* Every step keeps the heights in order.
LEMMA StepHeights == TypeOK /\ HeightInv /\ [Next]_vars => HeightInv'
<1> SUFFICES ASSUME TypeOK, HeightInv, [Next]_vars PROVE HeightInv'
    OBVIOUS
<1>0. /\ provider \in ProviderStates /\ app \in [Consumers -> AppStates] /\ decided \in Nat
      BY DEF TypeOK, ProviderStates, AppStates
<1>1. CASE Quiet
      BY <1>1 DEF Quiet, HeightInv
<1>2. CASE Start
  <2>1. /\ UNCHANGED <<decided, app>> /\ provider'.height = provider.height
        /\ phase' \in {"handshake", "idle"}
        BY <1>2, <1>0 DEF Start, ProviderStates
  <2> QED BY <2>1 DEF HeightInv
<1>3. CASE FinalizeBlock
  <2>1. /\ UNCHANGED <<decided, app>> /\ phase' = "finalizing"
        /\ provider'.height = provider.height /\ provider'.final = decided
        /\ decided = provider.height + 1
        BY <1>3, <1>0 DEF FinalizeBlock, ProviderFinalizeBlock, Finalizable, ProviderStates, cometVars
  <2> QED BY <2>1 DEF HeightInv
<1>4. CASE Commit
  <2>1. /\ UNCHANGED <<decided, app>> /\ phase' = "committing"
        /\ provider'.height = provider.height + 1 /\ decided = provider.height + 1
        BY <1>4, <1>0 DEF Commit, ProviderCommit, HeightInv, cometVars
  <2> QED BY <1>0, <2>1 DEF HeightInv, ProviderStates, AppStates
<1>5. ASSUME NEW b \in Blocks, Decide(b) PROVE HeightInv'
  <2>1. /\ UNCHANGED <<provider, app, phase>> /\ phase = "idle"
        /\ decided = provider.height /\ decided' = decided + 1
        BY <1>5 DEF Decide
  <2> QED BY <1>0, <2>1 DEF HeightInv, ProviderStates
<1>6. ASSUME NEW c \in Consumers, ConsumerStep(c) PROVE HeightInv'
  <2>1. UNCHANGED <<phase, provider, decided>>
        BY <1>6 DEF ConsumerStep
  <2>2. \A d \in Consumers \ {c} : app'[d] = app[d]
        BY <1>6, <1>0 DEF ConsumerStep, AppInitChain, AppFinalizeBlock, AppCommit, AppRestart
  <2>3. \/ app'[c].height = app[c].height /\ app'[c].final = 0
        \/ /\ phase = "finalizing"
           /\ app'[c].height = app[c].height /\ app'[c].final = decided
        \/ /\ phase = "committing" /\ app[c].final > 0
           /\ app'[c].height = app[c].final /\ app'[c].final = 0
        BY <1>6, <1>0
        DEF ConsumerStep, AppInitChain, AppFinalizeBlock, AppCommit, AppRestart, AppStates
  <2>4. /\ app'[c].height <= provider.height
        /\ app'[c].final <= provider.height + 1
        /\ app'[c].final = 0 \/ app'[c].final > app'[c].height
        /\ phase = "committing" => app'[c].final <= provider.height
        BY <1>0, <2>3 DEF HeightInv, ProviderStates, AppStates
  <2> QED BY <2>1, <2>2, <2>4 DEF HeightInv
<1> QED BY <1>1, <1>2, <1>3, <1>4, <1>5, <1>6, StepKinds

\* Heights are in order in every reachable state.
THEOREM HeightsInOrder == Spec => []HeightInv
  BY TypeCorrect, InitHeights, StepHeights, PTL DEF Spec

\* No crash, restart, lost or failed call ever puts a consumer ahead of the provider.
THEOREM ConsumersStayBehind == Spec => []ConsumerNeverAhead
<1>1. HeightInv => ConsumerNeverAhead
      BY DEF HeightInv, ConsumerNeverAhead
<1> QED BY HeightsInOrder, <1>1, PTL

-----------------------------------------------------------------------------
(* Refinement of SharedHeight *)

\* The heights of a node start where those of the abstract specification do.
LEMMA InitShared == Init => Shared!Init
  BY DEF Init, Shared!Init

\* A step of a node is a step of its heights, or leaves them alone: Commit advances the
\* provider, and a consumer's own Commit makes it follow.
LEMMA StepShared ==
  TypeOK /\ HeightInv /\ [Next]_vars
    => [Shared!Next]_<<provider.height, [c \in Consumers |-> app[c].height]>>
<1> DEFINE heights == [c \in Consumers |-> app[c].height]
<1> SUFFICES ASSUME TypeOK, HeightInv, [Next]_vars
             PROVE  Shared!Next \/ UNCHANGED <<provider.height, heights>>
    OBVIOUS
<1>0. /\ provider \in ProviderStates /\ app \in [Consumers -> AppStates] /\ decided \in Nat
      BY DEF TypeOK, ProviderStates, AppStates
<1>1. CASE Quiet
      BY <1>1 DEF Quiet
<1>2. CASE Start
  <2>1. app' = app /\ provider'.height = provider.height
        BY <1>2, <1>0 DEF Start, ProviderStates
  <2> QED BY <2>1
<1>3. CASE FinalizeBlock
  <2>1. app' = app /\ provider'.height = provider.height
        BY <1>3, <1>0 DEF FinalizeBlock, ProviderFinalizeBlock, ProviderStates
  <2> QED BY <2>1
<1>4. CASE Commit
  <2>1. app' = app /\ provider'.height = provider.height + 1
        BY <1>4, <1>0 DEF Commit, ProviderCommit, HeightInv
  <2>2. Shared!Lead
        BY <2>1 DEF Shared!Lead
  <2> QED BY <2>2 DEF Shared!Next
<1>5. ASSUME NEW b \in Blocks, Decide(b) PROVE UNCHANGED <<provider.height, heights>>
      BY <1>5 DEF Decide
<1>6. ASSUME NEW c \in Consumers, ConsumerStep(c)
      PROVE  Shared!Next \/ UNCHANGED <<provider.height, heights>>
  <2>1. provider' = provider
        BY <1>6 DEF ConsumerStep
  <2>2. CASE phase = "committing" /\ AppCommit(c)
    <3>1. /\ app' = [app EXCEPT ![c].height = app[c].final, ![c].final = 0]
          /\ app[c].final > 0
          BY <2>2 DEF AppCommit
    <3>2. app[c].final \in app[c].height + 1 .. provider.height
          BY <1>0, <2>2, <3>1 DEF HeightInv, ProviderStates, AppStates
    <3>3. heights' = [heights EXCEPT ![c] = app[c].final]
          BY <1>0, <3>1 DEF AppStates
    <3>4. heights[c] = app[c].height
          OBVIOUS
    <3>5. Shared!Follow(c)
          BY <2>1, <3>2, <3>3, <3>4 DEF Shared!Follow
    <3> QED BY <3>5 DEF Shared!Next
  <2>3. CASE AppInitChain(c) \/ AppFinalizeBlock(c, decided) \/ AppRestart(c)
    <3>1. \A d \in Consumers : app'[d].height = app[d].height
          BY <1>0, <2>3 DEF AppInitChain, AppFinalizeBlock, AppRestart, AppStates
    <3> QED BY <2>1, <3>1
  <2> QED BY <1>6, <2>2, <2>3 DEF ConsumerStep
<1> QED BY <1>1, <1>2, <1>3, <1>4, <1>5, <1>6, StepKinds

\* A node implements SharedHeight.
THEOREM Refinement == Spec => ImplementsSharedHeight
  BY TypeCorrect, HeightsInOrder, InitShared, StepShared, PTL
  DEF Spec, ImplementsSharedHeight, Shared!Spec

-----------------------------------------------------------------------------
(* Order of execution *)

\* No consumer executes a block the provider has not executed before it.
THEOREM ProviderFirst == Spec => ProviderExecutesFirst
<1> DEFINE Order ==
      \A c \in Consumers :
        (app'[c].final # app[c].final /\ app'[c].final # 0)
          => app'[c].final = provider.final /\ provider.final = provider.height + 1
<1>1. TypeOK /\ HeightInv /\ [Next]_vars => [Order]_vars
  <2> SUFFICES ASSUME TypeOK, HeightInv, [Next]_vars PROVE Order
      OBVIOUS
  <2>0. app \in [Consumers -> AppStates]
        BY DEF TypeOK, AppStates
  <2>1. CASE app' = app
        BY <2>1
  <2>2. ASSUME NEW c \in Consumers, ConsumerStep(c) PROVE Order
    <3>1. \A d \in Consumers \ {c} : app'[d] = app[d]
          BY <2>2, <2>0 DEF ConsumerStep, AppInitChain, AppFinalizeBlock, AppCommit, AppRestart
    <3>2. \/ app'[c].final = 0
          \/ phase = "finalizing" /\ app'[c].final = decided
          BY <2>2, <2>0
          DEF ConsumerStep, AppInitChain, AppFinalizeBlock, AppCommit, AppRestart, AppStates
    <3> QED BY <3>1, <3>2 DEF HeightInv
  <2>3. app' = app \/ \E c \in Consumers : ConsumerStep(c)
        BY StepKinds DEF Quiet, Start, FinalizeBlock, Commit, Decide
  <2> QED BY <2>1, <2>2, <2>3
<1> QED BY <1>1, TypeCorrect, HeightsInOrder, PTL DEF Spec, ProviderExecutesFirst

-----------------------------------------------------------------------------
(* Routing: what rejection and results have to do with what was executed *)

\* The answer transaction i holds while FinalizeBlock collects results.
AnsweredBy(i) ==
  \/ txResults[i] = Skipped /\ SkippedTx(block, i)
  \/ txResults[i] = block[i] /\ block[i] \in hashed
  \/ txResults[i] = Missing /\ ~SkippedTx(block, i) /\ block[i] \in chainHandlers \ hashed

\* The part of the state FinalizeBlock builds up, as long as the response is being made.
\* It ties the answers to the chains whose hash is in the response, which is what
\* ResultsMatchExecution asks of the finished response.
RoutingInv ==
  /\ phase \notin {"finalizing", "down"} => waiting = {}
  /\ phase \in {"handshake", "genesis"} => rejectedConsumerChains = {}
  /\ phase = "committing" => todo \cap rejectedConsumerChains = {}
  /\ phase \in {"finalizing", "finalized"} =>
       /\ block \in Blocks /\ WellFormed(block)
       /\ waiting \subseteq chainHandlers \ rejectedConsumerChains
       /\ Provider \in hashed
       /\ hashed \subseteq (chainHandlers \cup {Provider}) \ rejectedConsumerChains
       /\ DOMAIN txResults = DOMAIN block
       /\ \A i \in DOMAIN block : AnsweredBy(i)

\* Before the first FinalizeBlock there is nothing to relate.
LEMMA InitRouting == Init => RoutingInv
  BY DEF Init, RoutingInv

\* A step that leaves the response and the rejected chains alone keeps the relation.
LEMMA SamePhase ==
  ASSUME RoutingInv,
         UNCHANGED <<phase, block, chainHandlers, rejectedConsumerChains, txResults, hashed>>,
         phase \in {"finalizing", "finalized"} =>
           waiting' \subseteq chainHandlers \ rejectedConsumerChains,
         phase \notin {"finalizing", "down"} => waiting' = waiting,
         phase = "committing" => todo' \subseteq todo
  PROVE  RoutingInv'
  BY DEF RoutingInv, AnsweredBy, SkippedTx, WellFormed

\* A step out of the phases it speaks of keeps it.
LEMMA OtherPhase ==
  ASSUME \/ phase' \in {"idle", "halted", "proposal"} /\ waiting' = {}
         \/ phase' = "down"
  PROVE  RoutingInv'
  BY DEF RoutingInv

\* Every step keeps the relation between answers, hashes and rejections.
LEMMA StepRouting == TypeOK /\ RoutingInv /\ [Next]_vars => RoutingInv'
<1> SUFFICES ASSUME TypeOK, RoutingInv, [Next]_vars PROVE RoutingInv'
    OBVIOUS
<1> USE DEF cometVars, muxVars, respVars
<1>1. CASE UNCHANGED vars
  <2>1. UNCHANGED <<phase, block, chainHandlers, rejectedConsumerChains, txResults, hashed,
                    waiting, todo>>
        BY <1>1 DEF vars
  <2> QED BY <2>1, SamePhase DEF RoutingInv
<1>2. CASE Start
      BY <1>2 DEF Start, RoutingInv
<1>3. CASE Crash
      BY <1>3, OtherPhase DEF Crash
<1>4. CASE Run
  <2>1. CASE InitChain
        BY <2>1 DEF InitChain, RoutingInv
  <2>2. CASE InitChainFails \/ InitChainReturns \/ ProcessProposalReturns
             \/ FinalizeBlockFails \/ CommitFails \/ CommitReturns
    <3>1. phase' \in {"idle", "halted"} /\ waiting' = {}
          BY <2>2
          DEF InitChainFails, InitChainReturns, ProcessProposalReturns, FinalizeBlockFails,
              CommitFails, CommitReturns, Halt, RoutingInv
    <3> QED BY <3>1, OtherPhase
  <2>3. CASE FinalizeBlock
    <3>1. /\ block \in Blocks /\ WellFormed(block)
          /\ UNCHANGED <<block, chainHandlers, rejectedConsumerChains, waiting>>
          /\ phase' = "finalizing" /\ waiting = {} /\ hashed' = {Provider}
          BY <2>3 DEF FinalizeBlock, Finalizable, TypeOK, RoutingInv
    <3>2. /\ DOMAIN txResults' = DOMAIN block
          /\ \A i \in DOMAIN block :
               txResults'[i] = IF SkippedTx(block, i) THEN Skipped
                               ELSE IF block[i] = Provider THEN Provider ELSE Missing
          BY <2>3 DEF FinalizeBlock
    <3>3. ASSUME NEW i \in DOMAIN block PROVE AnsweredBy(i)'
          BY <3>1, <3>2, MultiplexerAssumption
          DEF AnsweredBy, SkippedTx, TypeOK, MultiplexerAssumption
    <3>4. Provider \notin rejectedConsumerChains
          BY MultiplexerAssumption DEF TypeOK, MultiplexerAssumption
    <3> QED BY <3>1, <3>2, <3>3, <3>4 DEF RoutingInv, WellFormed
  <2>4. CASE FinalizeBlockReturns
        BY <2>4 DEF FinalizeBlockReturns, RoutingInv, AnsweredBy, SkippedTx, WellFormed
  <2>5. CASE Commit
        BY <2>5 DEF Commit, CommitTargets, RoutingInv
  <2> QED BY <1>4, <2>1, <2>2, <2>3, <2>4, <2>5 DEF Run
<1>5. ASSUME NEW b \in Blocks,
             ProcessProposalRejects(b) \/ ProcessProposal(b) \/ Decide(b)
      PROVE  RoutingInv'
  <2>1. phase' \in {"idle", "proposal"} /\ waiting' = {}
        BY <1>5 DEF ProcessProposalRejects, ProcessProposal, Proposable, Decide, RoutingInv
  <2> QED BY <2>1, OtherPhase
<1>6. ASSUME NEW c \in Chains, ProcessProposalResult(c)
      PROVE  RoutingInv'
  <2>1. phase' \in {"idle", "proposal", "halted"} /\ waiting' = {}
        BY <1>6 DEF ProcessProposalResult, RoutingInv
  <2> QED BY <2>1, OtherPhase
<1>7. ASSUME NEW c \in Consumers, Answer(c) \/ ConsumerCrash(c)
      PROVE  RoutingInv'
  <2>1. CASE InitChainResult(c)
        BY <2>1 DEF InitChainResult, RoutingInv
  <2>2. CASE LoopSkips(c)
        BY <2>2, SamePhase DEF LoopSkips, RoutingInv
  <2>3. CASE LoopDispatches(c)
        BY <2>3, SamePhase DEF LoopDispatches, Served, RoutingInv
  <2>4. CASE LoopInitializes(c)
        BY <2>4, SamePhase DEF LoopInitializes, Served, RoutingInv
  <2>5. CASE FinalizeBlockResult(c)
    <3>1. /\ phase = "finalizing" /\ c \in waiting /\ waiting' = waiting \ {c}
          /\ UNCHANGED <<phase, block, chainHandlers, rejectedConsumerChains, todo>>
          BY <2>5 DEF FinalizeBlockResult
    <3>2. CASE UNCHANGED <<txResults, hashed>>
          BY <3>1, <3>2, SamePhase DEF RoutingInv
    <3>3. CASE /\ txResults' = [i \in DOMAIN txResults |->
                     IF block[i] = c /\ ~SkippedTx(block, i) THEN c ELSE txResults[i]]
               /\ hashed' = hashed \cup {c}
      <4>1. c \in chainHandlers \ rejectedConsumerChains
            BY <3>1 DEF RoutingInv
      <4>2. ASSUME NEW i \in DOMAIN block PROVE AnsweredBy(i)'
            BY <3>1, <3>3, <4>1 DEF RoutingInv, AnsweredBy, SkippedTx
      <4> QED BY <3>1, <3>3, <4>1, <4>2 DEF RoutingInv, WellFormed
    <3> QED BY <2>5, <3>2, <3>3 DEF FinalizeBlockResult
  <2>6. CASE CommitResult(c)
        BY <2>6, SamePhase DEF CommitResult, RoutingInv
  <2>7. CASE ConsumerCrash(c)
        BY <2>7, SamePhase DEF ConsumerCrash, RoutingInv
  <2> QED BY <1>7, <2>1, <2>2, <2>3, <2>4, <2>5, <2>6, <2>7 DEF Answer
<1> QED BY <1>1, <1>2, <1>3, <1>4, <1>5, <1>6, <1>7 DEF Next

\* The relation holds in every reachable state.
THEOREM RoutingInOrder == Spec => []RoutingInv
  BY TypeCorrect, InitRouting, StepRouting, PTL DEF Spec

\* The response of FinalizeBlock says what was executed, whatever failed on the way.
THEOREM ExactResults == Spec => []ResultsMatchExecution
<1>1. TypeOK /\ RoutingInv => ResultsMatchExecution
  <2> SUFFICES ASSUME TypeOK, RoutingInv, phase = "finalized"
               PROVE  /\ hashed \cap rejectedConsumerChains = {}
                      /\ \A i \in DOMAIN block :
                           \/ txResults[i] = block[i] /\ block[i] \in hashed
                           \/ /\ txResults[i] = Skipped
                              /\ block[i] \notin (chainHandlers \cup {Provider})
                                                   \ rejectedConsumerChains
                           \/ /\ txResults[i] = Missing
                              /\ block[i] \in chainHandlers \ (hashed \cup rejectedConsumerChains)
      BY DEF ResultsMatchExecution
  <2> QED BY MultiplexerAssumption
          DEF RoutingInv, AnsweredBy, SkippedTx, TypeOK, MultiplexerAssumption
<1> QED BY <1>1, TypeCorrect, RoutingInOrder, PTL

\* A consumer that rejected a proposal keeps its state until the next proposal.
THEOREM RejectedUntouched == Spec => RejectedLeftAlone
<1> DEFINE LeftAlone ==
      \A c \in rejectedConsumerChains :
        /\ app'[c].height = app[c].height
        /\ app'[c].final \in {0, app[c].final}
<1>1. TypeOK /\ RoutingInv /\ [Next]_vars => [LeftAlone]_vars
  <2> SUFFICES ASSUME TypeOK, RoutingInv, [Next]_vars PROVE LeftAlone
      OBVIOUS
  <2>0. app \in [Consumers -> AppStates] /\ rejectedConsumerChains \subseteq Consumers
        BY DEF TypeOK, AppStates
  <2>1. CASE app' = app
        BY <2>1
  <2>2. ASSUME NEW c \in Consumers, AppRestart(c) PROVE LeftAlone
        BY <2>2, <2>0 DEF AppRestart, AppStates
  <2>3. ASSUME NEW c \in Consumers \ rejectedConsumerChains,
               AppInitChain(c) \/ AppFinalizeBlock(c, decided) \/ AppCommit(c)
        PROVE  LeftAlone
        BY <2>3, <2>0 DEF AppInitChain, AppFinalizeBlock, AppCommit, AppStates
  <2>4. ASSUME NEW c \in Consumers, Answer(c)
        PROVE  \/ app' = app
               \/ /\ c \notin rejectedConsumerChains
                  /\ AppInitChain(c) \/ AppFinalizeBlock(c, decided) \/ AppCommit(c)
    <3>1. CASE InitChainResult(c)
          BY <3>1 DEF InitChainResult, RoutingInv
    <3>2. CASE LoopSkips(c) \/ LoopDispatches(c)
          BY <3>2 DEF LoopSkips, LoopDispatches
    <3>3. CASE LoopInitializes(c)
          BY <3>3 DEF LoopInitializes, Served
    <3>4. CASE FinalizeBlockResult(c)
          BY <3>4 DEF FinalizeBlockResult, RoutingInv
    <3>5. CASE CommitResult(c)
          BY <3>5 DEF CommitResult, RoutingInv
    <3> QED BY <2>4, <3>1, <3>2, <3>3, <3>4, <3>5 DEF Answer
  <2>5. \/ app' = app
        \/ \E c \in Consumers : Answer(c) \/ AppRestart(c)
        BY DEF Next, vars, Start, Crash, Run, InitChain, InitChainFails, InitChainReturns,
               ProcessProposalReturns, FinalizeBlock, FinalizeBlockFails, FinalizeBlockReturns,
               Commit, CommitFails, CommitReturns, Halt, ProcessProposalRejects, ProcessProposal,
               Decide, ProcessProposalResult, ConsumerCrash
  <2> QED BY <2>1, <2>2, <2>3, <2>4, <2>5
<1> QED BY <1>1, TypeCorrect, RoutingInOrder, PTL DEF Spec, RejectedLeftAlone

=============================================================================
