-------------------------- MODULE AgreementProofs --------------------------
(***************************************************************************)
(* Proofs about Multiplexer that need a trouble or two not to happen: each *)
(* theorem names, in its assumption, the calls that must not fail.         *)
(***************************************************************************)
EXTENDS MultiplexerProofs

-----------------------------------------------------------------------------
(* Initialized once *)

\* InitChain of all consumers comes before the provider's first commit.
GenesisPhaseInv ==
  phase \in {"handshake", "genesis"} => provider.height = 0

LEMMA StepGenesisPhase == TypeOK /\ GenesisPhaseInv /\ [Next]_vars => GenesisPhaseInv'
<1> SUFFICES ASSUME TypeOK, GenesisPhaseInv, [Next]_vars PROVE GenesisPhaseInv'
    OBVIOUS
<1>1. CASE Start
      BY <1>1 DEF Start, GenesisPhaseInv, TypeOK
<1>2. CASE InitChain
      BY <1>2 DEF InitChain, GenesisPhaseInv
<1>3. CASE phase' = phase /\ provider' = provider
      BY <1>3 DEF GenesisPhaseInv
<1>4. CASE phase' \notin {"handshake", "genesis"}
      BY <1>4 DEF GenesisPhaseInv
<1>5. CASE Crash \/ (Run /\ ~InitChain)
      BY <1>4, <1>5
      DEF Crash, Run, InitChainFails, InitChainReturns, ProcessProposalReturns, FinalizeBlock,
          FinalizeBlockFails, FinalizeBlockReturns, Commit, CommitFails, CommitReturns, Halt
<1>6. ASSUME NEW b \in Blocks, ProcessProposalRejects(b) \/ ProcessProposal(b) \/ Decide(b)
      PROVE  GenesisPhaseInv'
      BY <1>3, <1>4, <1>6 DEF ProcessProposalRejects, ProcessProposal, Proposable, Decide
<1>7. ASSUME NEW c \in Chains, ProcessProposalResult(c) PROVE GenesisPhaseInv'
      BY <1>3, <1>4, <1>7 DEF ProcessProposalResult
<1>8. ASSUME NEW c \in Consumers, Answer(c) \/ ConsumerCrash(c) PROVE GenesisPhaseInv'
      BY <1>3, <1>8 DEF Answer, InitChainResult, LoopSkips, LoopDispatches, LoopInitializes,
                        FinalizeBlockResult, CommitResult, ConsumerCrash
<1>9. CASE UNCHANGED vars
      BY <1>3, <1>9 DEF vars
<1> QED BY <1>1, <1>2, <1>5, <1>6, <1>7, <1>8, <1>9 DEF Next

\* The steps that change a consumer application, and when.
LEMMA AppSteps ==
  ASSUME [Next]_vars
  PROVE  \/ app' = app
         \/ \E c \in Consumers :
              \/ phase = "genesis" /\ AppInitChain(c)
              \/ LoopInitializes(c)
              \/ FinalizeBlockResult(c) \/ CommitResult(c)
              \/ "consumerCrash" \in Troubles /\ AppRestart(c)
<1>1. CASE Start \/ Crash \/ Run \/ UNCHANGED vars
      BY <1>1 DEF vars, Start, Crash, Run, InitChain, InitChainFails, InitChainReturns,
        ProcessProposalReturns, FinalizeBlock, FinalizeBlockFails, FinalizeBlockReturns,
        Commit, CommitFails, CommitReturns, Halt
<1>2. ASSUME NEW b \in Blocks, ProcessProposalRejects(b) \/ ProcessProposal(b) \/ Decide(b)
      PROVE  app' = app
      BY <1>2 DEF ProcessProposalRejects, ProcessProposal, Decide
<1>3. ASSUME NEW c \in Chains, ProcessProposalResult(c) PROVE app' = app
      BY <1>3 DEF ProcessProposalResult
<1>4. ASSUME NEW c \in Consumers, InitChainResult(c)
      PROVE  app' = app \/ (phase = "genesis" /\ AppInitChain(c))
      BY <1>4 DEF InitChainResult
<1>5. ASSUME NEW c \in Consumers, LoopSkips(c) \/ LoopDispatches(c) PROVE app' = app
      BY <1>5 DEF LoopSkips, LoopDispatches
<1>6. ASSUME NEW c \in Consumers, ConsumerCrash(c)
      PROVE  "consumerCrash" \in Troubles /\ AppRestart(c)
      BY <1>6 DEF ConsumerCrash, Trouble
<1> QED BY <1>1, <1>2, <1>3, <1>4, <1>5, <1>6 DEF Next, Answer

\* As long as Info calls do not fail, no consumer with committed blocks gets an InitChain:
\* not by a lost answer, nor by a crash of the node or of the consumer.
THEOREM InitializedOnce ==
  ASSUME "info" \notin Troubles
  PROVE  Spec => []NeverInitializedAgain
<1>1. Init => NeverInitializedAgain /\ GenesisPhaseInv
      BY DEF Init, NeverInitializedAgain, GenesisPhaseInv
<1>2. TypeOK /\ HeightInv /\ GenesisPhaseInv /\ NeverInitializedAgain /\ [Next]_vars
        => NeverInitializedAgain'
  <2> SUFFICES ASSUME TypeOK, HeightInv, GenesisPhaseInv, NeverInitializedAgain, [Next]_vars
               PROVE  NeverInitializedAgain'
      OBVIOUS
  <2>0. app \in [Consumers -> AppStates] /\ provider.height \in Nat
        BY DEF TypeOK, AppStates
  <2>1. CASE app' = app
        BY <2>1 DEF NeverInitializedAgain
  <2>2. ASSUME NEW c \in Consumers, AppInitChain(c), ~(app[c].height > 0)
        PROVE  NeverInitializedAgain'
        BY <2>0, <2>2 DEF AppInitChain, AppStates, NeverInitializedAgain
  <2>3. ASSUME NEW c \in Consumers, phase = "genesis", AppInitChain(c) PROVE NeverInitializedAgain'
    <3>1. ~(app[c].height > 0)
          BY <2>0, <2>3 DEF GenesisPhaseInv, HeightInv, AppStates
    <3> QED BY <2>2, <2>3, <3>1
  <2>4. ASSUME NEW c \in Consumers, LoopInitializes(c) PROVE NeverInitializedAgain'
    <3>1. app' = app \/ (AppInitChain(c) /\ ~HasState(c))
          BY <2>4 DEF LoopInitializes, InitChainTrouble, Trouble
    <3> QED BY <2>1, <2>2, <3>1 DEF HasState
  <2>5. ASSUME NEW c \in Consumers, FinalizeBlockResult(c) \/ CommitResult(c) \/ AppRestart(c)
        PROVE  NeverInitializedAgain'
    <3>1. \A d \in Consumers : app'[d].genesis \in {app[d].genesis, "none"}
          BY <2>0, <2>5 DEF FinalizeBlockResult, AppFinalizeBlock, CommitResult, AppCommit,
                            AppRestart, AppStates
    <3> QED BY <3>1 DEF NeverInitializedAgain
  <2> QED BY <2>1, <2>3, <2>4, <2>5, AppSteps
<1> QED BY <1>1, <1>2, StepGenesisPhase, TypeCorrect, HeightsInOrder, PTL DEF Spec

-----------------------------------------------------------------------------
(* Genesis before blocks *)

\* Every consumer with a block has a genesis state, and so has one this process counts as
\* initialized, unless it does because of a hash; only the latter are waited for.
GenesisInv ==
  /\ \A c \in Consumers :
       (app[c].height > 0 \/ app[c].final > 0 \/ c \in initializedConsumerChains \ Hashed)
         => app[c].genesis # "none"
  /\ waiting \subseteq initializedConsumerChains

LEMMA StepGenesis ==
  ASSUME "consumerCrash" \notin Troubles, TypeOK, GenesisInv, [Next]_vars
  PROVE  GenesisInv'
<1>0. /\ app \in [Consumers -> AppStates] /\ decided \in Nat
      /\ initializedConsumerChains \subseteq Consumers
      BY DEF TypeOK, AppStates
<1>1. ASSUME app' = app, initializedConsumerChains' \in {initializedConsumerChains, {}},
             waiting' = waiting \/ waiting' = {}, initializedConsumerChains' = {} => waiting' = {}
      PROVE  GenesisInv'
      BY <1>1 DEF GenesisInv
<1>2. ASSUME UNCHANGED <<app, initializedConsumerChains>>, waiting' \in {waiting, {}} PROVE GenesisInv'
      BY <1>2 DEF GenesisInv
<1>3. CASE Start
      BY <1>1, <1>3 DEF Start
<1>4. CASE Crash \/ Run \/ UNCHANGED vars
      BY <1>2, <1>4 DEF vars, muxVars, Crash, Run, InitChain, InitChainFails, InitChainReturns,
        ProcessProposalReturns, FinalizeBlock, FinalizeBlockFails, FinalizeBlockReturns,
        Commit, CommitFails, CommitReturns, Halt
<1>5. ASSUME NEW b \in Blocks, ProcessProposalRejects(b) \/ ProcessProposal(b) \/ Decide(b)
      PROVE  GenesisInv'
      BY <1>2, <1>5 DEF ProcessProposalRejects, ProcessProposal, Decide, muxVars
<1>6. ASSUME NEW c \in Chains, ProcessProposalResult(c) PROVE GenesisInv'
      BY <1>2, <1>6 DEF ProcessProposalResult
<1>7. ASSUME NEW c \in Consumers, AppInitChain(c),
             initializedConsumerChains' \in {initializedConsumerChains, initializedConsumerChains \cup {c}},
             waiting' \subseteq waiting \cup {c}, c \in waiting' => c \in initializedConsumerChains'
      PROVE  GenesisInv'
  <2>1. /\ app'[c].genesis # "none"
        /\ \A d \in Consumers \ {c} : app'[d] = app[d]
        BY <1>0, <1>7 DEF AppInitChain, AppStates
  <2> QED BY <1>7, <2>1 DEF GenesisInv
<1>8. ASSUME NEW c \in Consumers, InitChainResult(c) PROVE GenesisInv'
      BY <1>2, <1>7, <1>8 DEF InitChainResult, GenesisInv
<1>9. ASSUME NEW c \in Consumers, LoopSkips(c) PROVE GenesisInv'
      BY <1>2, <1>9 DEF LoopSkips, muxVars
<1>10. ASSUME NEW c \in Consumers, LoopDispatches(c) PROVE GenesisInv'
      BY <1>10 DEF LoopDispatches, HasState, GenesisInv
<1>11. ASSUME NEW c \in Consumers, LoopInitializes(c) PROVE GenesisInv'
      BY <1>2, <1>7, <1>11 DEF LoopInitializes, GenesisInv
<1>12. ASSUME NEW c \in Consumers, FinalizeBlockResult(c) PROVE GenesisInv'
  <2>1. /\ \A d \in Consumers : app'[d].genesis = app[d].genesis /\ app'[d].height = app[d].height
        /\ \A d \in Consumers : app'[d].final = app[d].final \/ app[d].genesis # "none"
        BY <1>0, <1>12 DEF FinalizeBlockResult, AppFinalizeBlock, Executable, AppStates
  <2>2. initializedConsumerChains' = initializedConsumerChains /\ waiting' \subseteq waiting
        BY <1>12 DEF FinalizeBlockResult, muxVars
  <2> QED BY <2>1, <2>2 DEF GenesisInv
<1>13. ASSUME NEW c \in Consumers, CommitResult(c) PROVE GenesisInv'
  <2>1. \A d \in Consumers :
          /\ app'[d].genesis = app[d].genesis
          /\ app'[d] = app[d] \/ app[d].final > 0
        BY <1>0, <1>13 DEF CommitResult, AppCommit, AppStates
  <2>2. UNCHANGED <<initializedConsumerChains, waiting>>
        BY <1>13 DEF CommitResult, muxVars
  <2> QED BY <2>1, <2>2 DEF GenesisInv
<1>14. \A c \in Consumers : ~ConsumerCrash(c)
      BY DEF ConsumerCrash, Trouble
<1> QED BY <1>3, <1>4, <1>5, <1>6, <1>8, <1>9, <1>10, <1>11, <1>12, <1>13, <1>14 DEF Next, Answer

\* A consumer that does not die, and shows no hash before it has a genesis state, is asked to
\* execute blocks only with one, whatever is lost or fails, and however often the node restarts.
THEOREM GenesisFirst ==
  ASSUME "consumerCrash" \notin Troubles
  PROVE  Spec => []GenesisBeforeBlocks
<1>1. Init => GenesisInv
      BY DEF Init, GenesisInv
<1>2. TypeOK /\ GenesisInv /\ [Next]_vars => GenesisInv'
      BY StepGenesis
<1>3. TypeOK /\ GenesisInv => GenesisBeforeBlocks
      BY DEF TypeOK, GenesisInv, GenesisBeforeBlocks
<1> QED BY <1>1, <1>2, <1>3, TypeCorrect, PTL DEF Spec

-----------------------------------------------------------------------------
(* What the hash covers *)

\* Chains FinalizeBlock hands the block to; those of them it finds initialized at its end
\* are CommitTargets.
Selected == (activeChains \cap chainHandlers) \ rejectedConsumerChains

\* What a consumer holds executed is a block it could execute.
ExecutedInv ==
  \A c \in Consumers : app[c].final > 0 => Executable(c, app[c].final)

\* A consumer while FinalizeBlock collects the answers: it is still to be dealt with, or
\* is waited for, or has executed the block and is in the hash, or could not.
Collected(c) ==
  /\ c \in todo => c \in activeChains /\ c \notin waiting \cup hashed
  /\ c \in waiting => c \in Selected \cap initializedConsumerChains /\ c \notin hashed
  /\ c \in hashed => c \in Selected \cap initializedConsumerChains /\ app[c].final = decided
  /\ c \in Selected \ (todo \cup waiting \cup hashed) =>
       c \in initializedConsumerChains /\ ~Executable(c, decided)

\* A consumer while Commit goes through its targets.
Settled(c) ==
  /\ c \in hashed =>
       IF c \in todo THEN app[c].final = provider.height ELSE app[c].height = provider.height
  /\ c \notin hashed =>
       /\ app[c].height < provider.height
       /\ c \in todo => app[c].final # provider.height

HashInv ==
  /\ ExecutedInv
  /\ phase \in {"finalizing", "finalized"} => \A c \in Consumers : Collected(c)
  /\ phase = "finalized" => todo = {} /\ waiting = {}
  /\ phase = "committing" => provider.height > 0 /\ \A c \in Consumers : Settled(c)

\* A step that does not concern a consumer.
LEMMA OtherCollected ==
  ASSUME NEW d \in Consumers, Collected(d), app'[d] = app[d],
         UNCHANGED <<activeChains, chainHandlers, rejectedConsumerChains, decided>>,
         d \in todo' <=> d \in todo, d \in waiting' <=> d \in waiting, d \in hashed' <=> d \in hashed,
         d \in initializedConsumerChains' <=> d \in initializedConsumerChains
  PROVE  Collected(d)'
<1>1. Executable(d, decided)' <=> Executable(d, decided)
      BY DEF Executable, NextBlock
<1>2. d \in Selected' <=> d \in Selected
      BY DEF Selected
<1> QED BY <1>1, <1>2 DEF Collected

LEMMA OtherSettled ==
  ASSUME NEW d \in Consumers, Settled(d), app'[d] = app[d], UNCHANGED <<provider, hashed>>,
         d \in todo' <=> d \in todo
  PROVE  Settled(d)'
  BY DEF Settled

\* What the applications hold stays executable: InitChain and Commit leave nothing held.
LEMMA StepExecuted ==
  ASSUME TypeOK, ExecutedInv, [Next]_vars
  PROVE  ExecutedInv'
<1>0. app \in [Consumers -> AppStates]
      BY DEF TypeOK, AppStates
<1>1. ASSUME NEW d \in Consumers, app'[d] = app[d]
      PROVE  (app'[d].final > 0 => Executable(d, app[d].final)')
      BY <1>1 DEF ExecutedInv, Executable, NextBlock
<1>2. ASSUME NEW c \in Consumers, AppInitChain(c) \/ AppCommit(c) \/ AppRestart(c)
      PROVE  ExecutedInv'
  <2>1. /\ \A d \in Consumers \ {c} : app'[d] = app[d]
        /\ app'[c].final = 0
        BY <1>0, <1>2 DEF AppInitChain, AppCommit, AppRestart, AppStates
  <2> QED BY <1>1, <2>1 DEF ExecutedInv
<1>3. ASSUME NEW c \in Consumers, AppFinalizeBlock(c, decided) PROVE ExecutedInv'
  <2>1. /\ \A d \in Consumers \ {c} : app'[d] = app[d]
        /\ app'[c].final = decided /\ app'[c].genesis = app[c].genesis
        /\ app'[c].height = app[c].height /\ app'[c].initial = app[c].initial
        /\ Executable(c, decided)
        BY <1>0, <1>3 DEF AppFinalizeBlock, AppStates
  <2>2. Executable(c, app[c].final)'
        BY <2>1 DEF Executable, NextBlock
  <2> QED BY <1>1, <2>1, <2>2 DEF ExecutedInv
<1>4. CASE app' = app
      BY <1>1, <1>4 DEF ExecutedInv
<1> QED BY <1>2, <1>3, <1>4, AppSteps DEF LoopInitializes, FinalizeBlockResult, CommitResult

\* Every step keeps the relation, if no call to a consumer fails or loses its answer and
\* no consumer dies.
LEMMA StepHash ==
  ASSUME {"rpc", "lost", "consumerCrash"} \cap Troubles = {},
         TypeOK, HeightInv, RoutingInv, HashInv, [Next]_vars
  PROVE  HashInv'
<1>0. /\ app \in [Consumers -> AppStates] /\ decided \in Nat /\ provider \in ProviderStates
      BY DEF TypeOK, AppStates, ProviderStates
<1>1. ExecutedInv'
      BY StepExecuted DEF HashInv
<1>2. CASE phase' \notin {"finalizing", "finalized", "committing"}
      BY <1>1, <1>2 DEF HashInv
<1>3. CASE UNCHANGED vars
  <2>1. \A d \in Consumers : Collected(d) => Collected(d)'
        BY <1>3, OtherCollected DEF vars, muxVars, cometVars, respVars
  <2>2. \A d \in Consumers : Settled(d) => Settled(d)'
        BY <1>3, OtherSettled DEF vars, respVars
  <2> QED BY <1>1, <1>3, <2>1, <2>2 DEF HashInv, vars
<1>4. CASE FinalizeBlock
  <2>1. /\ phase' = "finalizing" /\ waiting' = {} /\ hashed' = {Provider} /\ todo' = activeChains'
        BY <1>4 DEF FinalizeBlock, Finalizable, RoutingInv
  <2>2. \A c \in Consumers : Collected(c)'
        BY <2>1, MultiplexerAssumption DEF Collected, Selected, MultiplexerAssumption
  <2> QED BY <1>1, <2>1, <2>2 DEF HashInv
<1>5. CASE FinalizeBlockReturns
  <2>1. /\ phase = "finalizing" /\ phase' = "finalized" /\ todo' = {} /\ waiting' = {}
        BY <1>5 DEF FinalizeBlockReturns
  <2>2. \A c \in Consumers : Collected(c)'
        BY <1>5, <2>1, OtherCollected DEF FinalizeBlockReturns, HashInv, muxVars, cometVars, respVars
  <2> QED BY <1>1, <2>1, <2>2 DEF HashInv
<1>6. CASE Commit
  <2>1. /\ phase = "finalized" /\ phase' = "committing" /\ todo' = CommitTargets
        /\ UNCHANGED <<app, hashed, decided>>
        /\ provider'.height = decided /\ decided = provider.height + 1
        BY <1>6 DEF Commit, ProviderCommit, HeightInv, cometVars, respVars
  <2>2. ASSUME NEW c \in Consumers PROVE Settled(c)'
    <3>1. Collected(c) /\ todo = {} /\ waiting = {} /\ app[c].height <= provider.height
          BY <2>1 DEF HashInv, HeightInv
    <3>2. c \in CommitTargets <=> c \in Selected \cap initializedConsumerChains
          BY DEF CommitTargets, Selected
    <3>3. CASE c \in hashed
          BY <2>1, <3>1, <3>2, <3>3 DEF Collected, Settled
    <3>4. CASE c \notin hashed
      <4>1. c \in CommitTargets => ~Executable(c, decided)
            BY <3>1, <3>2, <3>4 DEF Collected
      <4>2. app[c].final = decided => Executable(c, decided)
            BY <1>0, <2>1 DEF HashInv, ExecutedInv, ProviderStates
      <4>3. app[c].height < decided
            BY <1>0, <2>1, <3>1 DEF ProviderStates, AppStates
      <4> QED BY <2>1, <3>4, <4>1, <4>2, <4>3 DEF Settled
    <3> QED BY <3>3, <3>4
  <2>3. provider'.height > 0
        BY <1>0, <2>1 DEF ProviderStates
  <2> QED BY <1>1, <2>1, <2>2, <2>3 DEF HashInv
<1>7. ASSUME NEW c \in Consumers, LoopSkips(c) PROVE HashInv'
  <2>1. /\ phase = "finalizing" /\ phase' = phase /\ c \in todo /\ todo' = todo \ {c} /\ c \notin Selected
        /\ UNCHANGED <<app, activeChains, chainHandlers, rejectedConsumerChains, decided, waiting,
                       hashed, initializedConsumerChains>>
        BY <1>7 DEF LoopSkips, Selected, muxVars, cometVars, respVars
  <2>2. ASSUME NEW d \in Consumers \ {c} PROVE Collected(d)'
        BY <2>1, OtherCollected DEF HashInv
  <2>3. Collected(c)'
        BY <2>1 DEF HashInv, Collected, Selected
  <2> QED BY <1>1, <2>1, <2>2, <2>3 DEF HashInv
<1>8. ASSUME NEW c \in Consumers, LoopDispatches(c) \/ LoopInitializes(c) PROVE HashInv'
  <2>1. /\ phase = "finalizing" /\ phase' = phase /\ c \in todo /\ todo' = todo \ {c}
        /\ c \in chainHandlers \ rejectedConsumerChains
        /\ waiting' = waiting \cup {c}
        /\ initializedConsumerChains' = initializedConsumerChains \cup {c}
        /\ UNCHANGED <<activeChains, chainHandlers, rejectedConsumerChains, decided, hashed>>
        BY <1>8 DEF LoopDispatches, LoopInitializes, Served, InitChainTrouble, Trouble, cometVars, respVars
  <2>2. \A d \in Consumers \ {c} : app'[d] = app[d]
        BY <1>0, <1>8 DEF LoopDispatches, LoopInitializes, AppInitChain, InitChainTrouble, Trouble
  <2>3. ASSUME NEW d \in Consumers \ {c} PROVE Collected(d)'
        BY <2>1, <2>2, OtherCollected DEF HashInv
  <2>4. Collected(c)'
        BY <2>1 DEF HashInv, Collected, Selected
  <2> QED BY <1>1, <2>1, <2>3, <2>4 DEF HashInv
<1>9. ASSUME NEW c \in Consumers, FinalizeBlockResult(c) PROVE HashInv'
  <2>1. /\ phase = "finalizing" /\ phase' = phase /\ c \in waiting /\ waiting' = waiting \ {c}
        /\ UNCHANGED <<activeChains, chainHandlers, rejectedConsumerChains, decided,
                       initializedConsumerChains, todo>>
        BY <1>9 DEF FinalizeBlockResult, muxVars, cometVars
  <2>2. \/ /\ app'[c].final = decided /\ hashed' = hashed \cup {c}
           /\ \A d \in Consumers \ {c} : app'[d] = app[d]
        \/ ~Executable(c, decided) /\ UNCHANGED <<app, hashed>>
        BY <1>0, <1>9 DEF FinalizeBlockResult, AppFinalizeBlock, Trouble, respVars, AppStates
  <2>3. ASSUME NEW d \in Consumers \ {c} PROVE Collected(d)'
        BY <2>1, <2>2, OtherCollected DEF HashInv
  <2>4. Collected(c)
        BY <2>1 DEF HashInv
  <2>5. Selected' = Selected
        BY <2>1 DEF Selected
  <2>6. CASE app'[c].final = decided /\ hashed' = hashed \cup {c}
        BY <1>1, <2>1, <2>3, <2>4, <2>5, <2>6 DEF HashInv, Collected
  <2>7. CASE ~Executable(c, decided) /\ UNCHANGED <<app, hashed>>
    <3>1. ~Executable(c, decided)'
          BY <2>1, <2>7 DEF Executable, NextBlock
    <3> QED BY <1>1, <2>1, <2>3, <2>4, <2>5, <2>7, <3>1 DEF HashInv, Collected
  <2> QED BY <2>2, <2>6, <2>7
<1>10. ASSUME NEW c \in Consumers, CommitResult(c) PROVE HashInv'
  <2>1. /\ phase = "committing" /\ phase' = phase /\ c \in todo /\ todo' = todo \ {c}
        /\ UNCHANGED <<provider, hashed>>
        BY <1>10 DEF CommitResult, respVars
  <2>2. /\ \A d \in Consumers \ {c} : app'[d] = app[d]
        /\ \/ app[c].final > 0 /\ app'[c].height = app[c].final
           \/ app[c].final = 0 /\ app'[c] = app[c]
        BY <1>0, <1>10 DEF CommitResult, AppCommit, Trouble, AppStates
  <2>3. ASSUME NEW d \in Consumers \ {c} PROVE Settled(d)'
        BY <2>1, <2>2, OtherSettled DEF HashInv
  <2>4. Settled(c) /\ provider.height > 0 /\ app[c].final <= provider.height
        BY <2>1 DEF HashInv, HeightInv
  <2>5. Settled(c)'
        BY <1>0, <2>1, <2>2, <2>4 DEF Settled, AppStates, ProviderStates
  <2> QED BY <1>1, <2>1, <2>3, <2>5 DEF HashInv
<1>11. CASE Start \/ Crash \/ (Run /\ ~FinalizeBlock /\ ~FinalizeBlockReturns /\ ~Commit)
      BY <1>2, <1>11 DEF Start, Crash, Run, InitChain, InitChainFails, InitChainReturns,
        ProcessProposalReturns, FinalizeBlockFails, CommitFails, CommitReturns, Halt
<1>12. ASSUME NEW b \in Blocks, ProcessProposalRejects(b) \/ ProcessProposal(b) \/ Decide(b)
       PROVE  HashInv'
      BY <1>2, <1>12 DEF ProcessProposalRejects, ProcessProposal, Proposable, Decide
<1>13. ASSUME NEW c \in Chains, ProcessProposalResult(c) PROVE HashInv'
      BY <1>2, <1>13 DEF ProcessProposalResult
<1>14. ASSUME NEW c \in Consumers, InitChainResult(c) PROVE HashInv'
      BY <1>2, <1>14 DEF InitChainResult
<1>15. \A c \in Consumers : ~ConsumerCrash(c)
      BY DEF ConsumerCrash, Trouble
<1> QED BY <1>3, <1>4, <1>5, <1>6, <1>7, <1>8, <1>9, <1>10, <1>11, <1>12, <1>13, <1>14, <1>15
        DEF Next, Answer

LEMMA Hashes ==
  ASSUME {"rpc", "lost", "consumerCrash"} \cap Troubles = {}
  PROVE  Spec => [](TypeOK /\ GenesisInv /\ HashInv)
<1>1. Init => GenesisInv /\ HashInv
      BY DEF Init, GenesisInv, HashInv, ExecutedInv
<1>2. TypeOK /\ GenesisInv /\ [Next]_vars => GenesisInv'
      BY StepGenesis
<1>3. TypeOK /\ HeightInv /\ RoutingInv /\ HashInv /\ [Next]_vars => HashInv'
      BY StepHash
<1> QED BY <1>1, <1>2, <1>3, TypeCorrect, HeightsInOrder, RoutingInOrder, PTL DEF Spec

\* As long as consumers answer, the hash given to consensus covers exactly the consumers
\* that commit the block: through rejections, restarts of the node with other chains
\* configured, failed queries and Info calls, and blocks left over from a crash.
THEOREM HashIsExact ==
  ASSUME {"rpc", "lost", "consumerCrash"} \cap Troubles = {}
  PROVE  Spec => []HashCoversCommitted
<1>1. TypeOK /\ HashInv => HashCoversCommitted
  <2> SUFFICES ASSUME TypeOK, HashInv, phase = "committing", todo = {}
               PROVE  hashed \ {Provider} = {c \in Consumers : app[c].height = provider.height}
      BY DEF HashCoversCommitted, Committed
  <2>1. \A c \in Consumers : c \in hashed <=> app[c].height = provider.height
    <3> SUFFICES ASSUME NEW c \in Consumers PROVE c \in hashed <=> app[c].height = provider.height
        OBVIOUS
    <3>1. Settled(c) /\ provider.height \in Nat /\ app[c].height \in Nat
          BY DEF HashInv, TypeOK
    <3> QED BY <3>1 DEF Settled
  <2>2. hashed \subseteq Consumers \cup {Provider} /\ Provider \notin Consumers
        BY MultiplexerAssumption DEF TypeOK, Chains, MultiplexerAssumption
  <2> QED BY <2>1, <2>2
<1> QED BY <1>1, Hashes, PTL

\* As long as consumers answer, every selected consumer executes the block, or cannot
\* because it is not the next one for it, or because a hash hid that it has no genesis.
THEOREM SelectedExecute ==
  ASSUME {"rpc", "lost", "consumerCrash"} \cap Troubles = {}
  PROVE  Spec => []ServedExecutes
<1>1. TypeOK /\ GenesisInv /\ HashInv => ServedExecutes
  <2> SUFFICES ASSUME TypeOK, GenesisInv, HashInv, phase = "finalized", NEW c \in Selected
               PROVE  \/ c \in hashed /\ app[c].final = decided
                      \/ c \notin Lenient /\ app[c].genesis # "none" /\ NextBlock(c) # decided
                      \/ c \in Hashed /\ app[c].genesis = "none"
      BY DEF ServedExecutes, Selected
  <2>1. c \in Consumers /\ todo = {} /\ waiting = {}
        BY DEF HashInv, Selected, TypeOK
  <2>2. Collected(c)
        BY <2>1 DEF HashInv
  <2>3. CASE c \in hashed
        BY <2>2, <2>3 DEF Collected
  <2>4. CASE c \notin hashed
        BY <2>1, <2>2, <2>4 DEF Collected, GenesisInv, Executable
  <2> QED BY <2>3, <2>4
<1> QED BY <1>1, Hashes, PTL

\* When FinalizeBlock has returned, the consumers in the hash are the selected ones that can
\* execute the block, all of these have executed it, and every selected one counts as
\* initialized, whatever the order of the goroutines' answers.
BlockIsExact ==
  phase = "finalized" =>
    /\ hashed \ {Provider} = {c \in Selected : Executable(c, decided)}
    /\ \A c \in hashed \ {Provider} : app[c].final = decided
    /\ Selected \subseteq initializedConsumerChains

LEMMA ExactBlock == TypeOK /\ HeightInv /\ HashInv => BlockIsExact
<1> SUFFICES ASSUME TypeOK, HeightInv, HashInv, phase = "finalized"
             PROVE  /\ hashed \ {Provider} = {c \in Selected : Executable(c, decided)}
                    /\ \A c \in hashed \ {Provider} : app[c].final = decided
                    /\ Selected \subseteq initializedConsumerChains
    BY DEF BlockIsExact
<1>1. /\ todo = {} /\ waiting = {} /\ \A c \in Consumers : Collected(c)
      /\ decided > 0
      BY DEF HashInv, HeightInv, TypeOK
<1>2. Selected \subseteq Consumers /\ hashed \ {Provider} \subseteq Consumers
      BY MultiplexerAssumption DEF Selected, TypeOK, Chains, MultiplexerAssumption
<1>3. \A c \in Consumers : c \in hashed => c \in Selected /\ app[c].final = decided
      BY <1>1 DEF Collected
<1>4. \A c \in Consumers : app[c].final = decided => Executable(c, decided)
      BY <1>1 DEF HashInv, ExecutedInv
<1>5. \A c \in Selected : Executable(c, decided) => c \in hashed
      BY <1>1, <1>2 DEF Collected
<1>6. \A c \in Selected : c \in initializedConsumerChains
      BY <1>1, <1>2 DEF Collected
<1>7. Provider \notin Consumers
      BY MultiplexerAssumption DEF MultiplexerAssumption
<1> QED BY <1>2, <1>3, <1>4, <1>5, <1>6, <1>7

\* As long as consumers answer, FinalizeBlock with its parallel goroutines does in the end
\* what Replicas' BlockEntry says in one step.
THEOREM OneStepIsEnough ==
  ASSUME {"rpc", "lost", "consumerCrash"} \cap Troubles = {}
  PROVE  Spec => []BlockIsExact
  BY ExactBlock, Hashes, HeightsInOrder, PTL

-----------------------------------------------------------------------------
(* Only active chains are served *)

\* Until the provider's first commit no chain is active; after that FinalizeBlock deals
\* with the chains its committed state has.
ActiveInv ==
  /\ provider.height = 0 => activeChains = {}
  /\ phase = "finalizing" =>
       activeChains \subseteq provider.active /\ todo \subseteq activeChains /\ waiting \subseteq activeChains

LEMMA StepActive ==
  ASSUME "query" \notin Troubles, TypeOK, HeightInv, RoutingInv, ActiveInv, [Next]_vars
  PROVE  ActiveInv'
<1>0. provider \in ProviderStates
      BY DEF TypeOK, ProviderStates
<1>1. ASSUME UNCHANGED <<provider, activeChains>>, phase' # "finalizing" PROVE ActiveInv'
      BY <1>1 DEF ActiveInv
<1>2. ASSUME UNCHANGED <<phase, provider, activeChains>>,
             phase = "finalizing" => todo' \subseteq todo /\ waiting' \subseteq waiting \cup todo
      PROVE  ActiveInv'
      BY <1>2 DEF ActiveInv
<1>3. CASE Start
      BY <1>3 DEF Start, ActiveInv
<1>4. CASE FinalizeBlock
  <2>1. /\ decided = provider.height + 1 /\ waiting' = {} /\ todo' = activeChains'
        /\ activeChains' = IF decided > 1 THEN provider.active ELSE activeChains
        /\ provider'.height = provider.height /\ provider'.active = provider.active
        BY <1>0, <1>4 DEF FinalizeBlock, Finalizable, Trouble, ActiveConsumerChains,
          ProviderFinalizeBlock, ProviderStates, RoutingInv
  <2> QED BY <1>0, <2>1 DEF ActiveInv, ProviderStates
<1>5. CASE Commit
  <2>1. phase' = "committing" /\ provider'.height = provider.height + 1
        BY <1>5 DEF Commit, ProviderCommit, HeightInv
  <2> QED BY <1>0, <2>1 DEF ActiveInv, ProviderStates
<1>6. CASE Crash \/ (Run /\ ~FinalizeBlock /\ ~Commit)
      BY <1>1, <1>6 DEF Crash, Run, InitChain, InitChainFails, InitChainReturns, muxVars,
        ProcessProposalReturns, FinalizeBlockFails, FinalizeBlockReturns, CommitFails, CommitReturns, Halt
<1>7. ASSUME NEW b \in Blocks, ProcessProposalRejects(b) \/ ProcessProposal(b) \/ Decide(b)
      PROVE  ActiveInv'
      BY <1>1, <1>7 DEF ProcessProposalRejects, ProcessProposal, Proposable, Decide, muxVars
<1>8. ASSUME NEW c \in Chains, ProcessProposalResult(c) PROVE ActiveInv'
      BY <1>1, <1>8 DEF ProcessProposalResult
<1>9. ASSUME NEW c \in Consumers, Answer(c) \/ ConsumerCrash(c) PROVE ActiveInv'
  <2>1. /\ UNCHANGED <<phase, provider, activeChains>>
        /\ phase = "finalizing" => todo' \subseteq todo /\ waiting' \subseteq waiting \cup todo
        BY <1>9 DEF Answer, InitChainResult, LoopSkips, LoopDispatches, LoopInitializes, Served,
          FinalizeBlockResult, CommitResult, ConsumerCrash, muxVars
  <2> QED BY <1>2, <2>1
<1>10. CASE UNCHANGED vars
      BY <1>2, <1>10 DEF vars, muxVars
<1> QED BY <1>3, <1>4, <1>5, <1>6, <1>7, <1>8, <1>9, <1>10 DEF Next

\* As long as the query is answered, a consumer executes a block only if the provider's
\* state of the height before holds it active, on a node that replays the block as well.
THEOREM ActiveServed ==
  ASSUME "query" \notin Troubles
  PROVE  Spec => ServedIsActive
<1> DEFINE Active ==
      \A c \in Consumers :
        (app'[c].final # app[c].final /\ app'[c].final # 0) => c \in provider.active
<1>1. Init => ActiveInv
      BY DEF Init, ActiveInv
<1>2. TypeOK /\ HeightInv /\ RoutingInv /\ ActiveInv /\ [Next]_vars => ActiveInv'
      BY StepActive
<1>3. TypeOK /\ ActiveInv /\ [Next]_vars => [Active]_vars
  <2> SUFFICES ASSUME TypeOK, ActiveInv, [Next]_vars PROVE Active
      OBVIOUS
  <2>0. app \in [Consumers -> AppStates]
        BY DEF TypeOK, AppStates
  <2>1. CASE app' = app
        BY <2>1
  <2>2. ASSUME NEW c \in Consumers, AppInitChain(c) \/ AppCommit(c) \/ AppRestart(c) PROVE Active
        BY <2>0, <2>2 DEF AppInitChain, AppCommit, AppRestart, AppStates
  <2>3. ASSUME NEW c \in Consumers, FinalizeBlockResult(c) PROVE Active
    <3>1. c \in provider.active
          BY <2>3 DEF FinalizeBlockResult, ActiveInv
    <3>2. \A d \in Consumers \ {c} : app'[d] = app[d]
          BY <2>0, <2>3 DEF FinalizeBlockResult, AppFinalizeBlock
    <3> QED BY <3>1, <3>2
  <2> QED BY <2>1, <2>2, <2>3, AppSteps DEF LoopInitializes, CommitResult
<1> QED BY <1>1, <1>2, <1>3, TypeCorrect, HeightsInOrder, RoutingInOrder, PTL DEF Spec, ServedIsActive

-----------------------------------------------------------------------------
(* A block is one step *)

\* A process knows of a chain only if it has a handler for it; InitChain finds no chain
\* initialized.
FieldsInv ==
  /\ rejectedConsumerChains \subseteq chainHandlers \cap initializedConsumerChains
  /\ phase = "proposal" => todo \subseteq {Provider} \cup (chainHandlers \cap initializedConsumerChains)
  /\ phase = "handshake" => initializedConsumerChains = {}
  /\ phase = "genesis" => todo \subseteq chainHandlers \ initializedConsumerChains
  /\ phase = "committing" => todo \subseteq initializedConsumerChains

LEMMA StepFields == TypeOK /\ FieldsInv /\ [Next]_vars => FieldsInv'
<1> SUFFICES ASSUME TypeOK, FieldsInv, [Next]_vars PROVE FieldsInv'
    OBVIOUS
<1>1. ASSUME UNCHANGED <<rejectedConsumerChains, chainHandlers, initializedConsumerChains>>,
             phase' \notin {"proposal", "handshake", "genesis", "committing"}
      PROVE  FieldsInv'
      BY <1>1 DEF FieldsInv
<1>2. ASSUME UNCHANGED <<phase, rejectedConsumerChains, chainHandlers, initializedConsumerChains>>,
             todo' \subseteq todo
      PROVE  FieldsInv'
      BY <1>2 DEF FieldsInv
<1>3. ASSUME UNCHANGED <<phase, rejectedConsumerChains, chainHandlers>>, phase = "finalizing",
             initializedConsumerChains \subseteq initializedConsumerChains'
      PROVE  FieldsInv'
      BY <1>3 DEF FieldsInv
<1>4. CASE Start
      BY <1>4 DEF Start, FieldsInv
<1>5. CASE InitChain
      BY <1>5 DEF InitChain, FieldsInv
<1>6. CASE Commit
      BY <1>6 DEF Commit, CommitTargets, muxVars, FieldsInv
<1>7. CASE Crash \/ (Run /\ ~InitChain /\ ~Commit)
      BY <1>1, <1>7 DEF Crash, Run, InitChainFails, InitChainReturns, ProcessProposalReturns, muxVars,
        FinalizeBlock, FinalizeBlockFails, FinalizeBlockReturns, CommitFails, CommitReturns, Halt
<1>8. ASSUME NEW b \in Blocks, ProcessProposal(b) PROVE FieldsInv'
      BY <1>8 DEF ProcessProposal, Asked, FieldsInv
<1>9. ASSUME NEW b \in Blocks, ProcessProposalRejects(b) \/ Decide(b) PROVE FieldsInv'
      BY <1>2, <1>9 DEF ProcessProposalRejects, Decide, muxVars
<1>10. ASSUME NEW c \in Chains, ProcessProposalResult(c) PROVE FieldsInv'
  <2>1. /\ phase = "proposal" /\ phase' \in {"proposal", "idle", "halted"} /\ todo' \subseteq todo
        /\ UNCHANGED <<chainHandlers, initializedConsumerChains>>
        /\ \/ rejectedConsumerChains' = rejectedConsumerChains
           \/ c # Provider /\ c \in todo /\ rejectedConsumerChains' = rejectedConsumerChains \cup {c}
        BY <1>10 DEF ProcessProposalResult, Skippable
  <2> QED BY <2>1 DEF FieldsInv
<1>11. ASSUME NEW c \in Consumers, InitChainResult(c) PROVE FieldsInv'
      BY <1>11 DEF InitChainResult, FieldsInv
<1>12. ASSUME NEW c \in Consumers, LoopDispatches(c) \/ LoopInitializes(c) PROVE FieldsInv'
      BY <1>3, <1>12 DEF LoopDispatches, LoopInitializes, Served
<1>13. ASSUME NEW c \in Consumers,
              LoopSkips(c) \/ FinalizeBlockResult(c) \/ CommitResult(c) \/ ConsumerCrash(c)
       PROVE  FieldsInv'
      BY <1>2, <1>13 DEF LoopSkips, FinalizeBlockResult, CommitResult, ConsumerCrash, muxVars
<1>14. CASE UNCHANGED vars
      BY <1>2, <1>14 DEF vars, muxVars
<1> QED BY <1>4, <1>5, <1>6, <1>7, <1>8, <1>9, <1>10, <1>11, <1>12, <1>13, <1>14 DEF Next, Answer

\* As long as nothing stops the process in the middle of a block, nothing is left in a
\* consumer.
LEMMA StepNothingLeft ==
  ASSUME {"rpc", "lost", "consumerCrash"} \cap Troubles = {},
         TypeOK, HeightInv, HashInv, NothingLeft, [Next /\ Undisturbed]_vars
  PROVE  NothingLeft'
<1>0. app \in [Consumers -> AppStates] /\ decided \in Nat
      BY DEF TypeOK, AppStates
<1>1. ASSUME app' = app, phase \notin {"finalizing", "finalized", "committing"} PROVE NothingLeft'
      BY <1>1 DEF NothingLeft
<1>2. ASSUME UNCHANGED <<app, hashed>>, phase \in {"finalizing", "finalized"},
             phase' \in {"finalizing", "finalized"}
      PROVE  NothingLeft'
      BY <1>2 DEF NothingLeft
<1>3. ASSUME NEW c \in Consumers, AppInitChain(c), phase' = phase, phase # "committing",
             hashed \subseteq hashed'
      PROVE  NothingLeft'
  <2>1. app'[c].final = 0 /\ \A d \in Consumers \ {c} : app'[d] = app[d]
        BY <1>0, <1>3 DEF AppInitChain, AppStates
  <2> QED BY <1>3, <2>1 DEF NothingLeft
<1>4. CASE Commit
  <2>1. BlockIsExact
        BY ExactBlock
  <2>2. /\ phase = "finalized" /\ phase' = "committing" /\ todo' = CommitTargets
        /\ UNCHANGED <<app, hashed>>
        BY <1>4 DEF Commit, respVars
  <2>3. \A c \in Consumers : c \in hashed => c \in CommitTargets
    <3>1. Provider \notin Consumers
          BY MultiplexerAssumption DEF MultiplexerAssumption
    <3>2. \A c \in Consumers : c \in hashed => c \in Selected \cap initializedConsumerChains
          BY <2>1, <2>2, <3>1 DEF BlockIsExact
    <3> QED BY <3>2 DEF CommitTargets, Selected
  <2> QED BY <2>2, <2>3 DEF NothingLeft
<1>5. CASE CommitReturns
      BY <1>5 DEF CommitReturns, NothingLeft
<1>6. CASE FinalizeBlockReturns
      BY <1>2, <1>6 DEF FinalizeBlockReturns, respVars
<1>7. CASE Start \/ (Run /\ ~FinalizeBlockReturns /\ ~Commit /\ ~CommitFails /\ ~CommitReturns)
      BY <1>1, <1>7 DEF Start, Run, InitChain, InitChainFails, InitChainReturns,
        ProcessProposalReturns, FinalizeBlock, FinalizeBlockFails, Finalizable, Halt
<1>8. CASE Undisturbed /\ (Crash \/ CommitFails)
      BY <1>1, <1>8 DEF Undisturbed, Crash, CommitFails, Halt
<1>9. ASSUME NEW b \in Blocks, ProcessProposalRejects(b) \/ ProcessProposal(b) \/ Decide(b)
      PROVE  NothingLeft'
      BY <1>1, <1>9 DEF ProcessProposalRejects, ProcessProposal, Proposable, Decide
<1>10. ASSUME NEW c \in Chains, ProcessProposalResult(c) PROVE NothingLeft'
      BY <1>1, <1>10 DEF ProcessProposalResult
<1>11. ASSUME NEW c \in Consumers, InitChainResult(c) PROVE NothingLeft'
      BY <1>3, <1>11 DEF InitChainResult, Trouble
<1>12. ASSUME NEW c \in Consumers, LoopSkips(c) \/ LoopDispatches(c) PROVE NothingLeft'
      BY <1>2, <1>12 DEF LoopSkips, LoopDispatches, Served, respVars
<1>13. ASSUME NEW c \in Consumers, LoopInitializes(c) PROVE NothingLeft'
      BY <1>3, <1>13 DEF LoopInitializes, Served, InitChainTrouble, Trouble, respVars
<1>14. ASSUME NEW c \in Consumers, FinalizeBlockResult(c) PROVE NothingLeft'
  <2>1. /\ phase = "finalizing" /\ phase' = "finalizing"
        /\ \/ AppFinalizeBlock(c, decided) /\ hashed' = hashed \cup {c}
           \/ UNCHANGED <<app, hashed>>
        BY <1>14 DEF FinalizeBlockResult, Trouble, respVars
  <2>2. AppFinalizeBlock(c, decided) => \A d \in Consumers \ {c} : app'[d] = app[d]
        BY <1>0 DEF AppFinalizeBlock
  <2> QED BY <1>2, <2>1, <2>2 DEF NothingLeft
<1>15. ASSUME NEW c \in Consumers, CommitResult(c) PROVE NothingLeft'
  <2>1. /\ phase = "committing" /\ phase' = "committing" /\ hashed' = hashed /\ todo' = todo \ {c}
        /\ \A d \in Consumers \ {c} : app'[d] = app[d]
        /\ app'[c].final = 0
        BY <1>0, <1>15 DEF CommitResult, AppCommit, Trouble, AppStates, respVars
  <2> QED BY <2>1 DEF NothingLeft
<1>16. \A c \in Consumers : ~ConsumerCrash(c)
      BY DEF ConsumerCrash, Trouble
<1>17. CASE UNCHANGED vars
      BY <1>17 DEF vars, respVars, NothingLeft
<1> QED BY <1>4, <1>5, <1>6, <1>7, <1>8, <1>9, <1>10, <1>11, <1>12, <1>13, <1>14, <1>15, <1>16, <1>17
        DEF Next, Answer, Run

\* A consumer that is about to commit.
Committing(c) == phase = "committing" /\ c \in todo \cap hashed

\* A chain's standing, and with it the whole view of the node, stays as it is.
LEMMA SameStanding ==
  ASSUME NEW c \in Consumers, provider'.height = provider.height,
         app'[c].genesis = app[c].genesis /\ app'[c].initial = app[c].initial,
         app'[c].height = app[c].height,
         c \in initializedConsumerChains' <=> c \in initializedConsumerChains,
         Committing(c)' <=> Committing(c)
  PROVE  Standing(c)' = Standing(c)
  BY DEF Standing, HasState, Committing

LEMMA AtomicStutters ==
  ASSUME UNCHANGED <<chainHandlers, rejectedConsumerChains, initializedConsumerChains, providerGenesis>>,
         provider'.height = provider.height,
         \A c \in Consumers : Standing(c)' = Standing(c)
  PROVE  UNCHANGED Atomic!vars
<1>1. [c \in Consumers |-> Standing(c)'] = [c \in Consumers |-> Standing(c)]
      OBVIOUS
<1> QED BY <1>1 DEF Atomic!vars

LEMMA InitAtomic == Init => Atomic!Init
<1> SUFFICES ASSUME Init PROVE Atomic!Init
    OBVIOUS
<1>1. /\ provider.height = 0 /\ providerGenesis = FALSE /\ chainHandlers = {}
      /\ rejectedConsumerChains = {} /\ initializedConsumerChains = {}
      BY DEF Init
<1>2. \A c \in Consumers : Standing(c) = Atomic!Unborn
      BY <1>1 DEF Init, Standing, HasState, Atomic!Unborn
<1>3. [c \in Consumers |-> Standing(c)] =
        [c \in Consumers |-> IF c \in initializedConsumerChains THEN Atomic!Born(1) ELSE Atomic!Unborn]
      BY <1>1, <1>2
<1> QED BY <1>1, <1>3 DEF Atomic!Init

LEMMA StartAtomic ==
  ASSUME TypeOK, Start
  PROVE  Atomic!Restart
<1>0. app \in [Consumers -> AppStates] /\ provider \in ProviderStates
      BY DEF TypeOK, AppStates, ProviderStates
<1>1. /\ phase \in {"down", "halted"} /\ phase' \in {"handshake", "idle"}
      /\ chainHandlers' \in Configs /\ rejectedConsumerChains' = {} /\ initializedConsumerChains' = {}
      /\ providerGenesis' = FALSE /\ app' = app
      BY DEF Start
<1>2. provider'.height = provider.height
      BY <1>0 DEF Start, ProviderStates
<1>3. chainHandlers' \in SUBSET Consumers
      BY <1>1, MultiplexerAssumption DEF MultiplexerAssumption
<1>4. ASSUME NEW c \in Consumers
      PROVE  Standing(c)' = IF Standing(c).last > 0 \/ c \in Hashed THEN Standing(c) ELSE Atomic!Unborn
  <2>1. app[c].height \in Nat /\ (HasState(c)' <=> HasState(c))
        BY <1>0, <1>1 DEF AppStates, HasState
  <2>2. CASE ~HasState(c)
    <3>1. app[c].height = 0 /\ c \notin Hashed
          BY <2>1, <2>2 DEF HasState
    <3>2. Standing(c).last = 0
          BY <1>1, <3>1 DEF Standing
    <3>3. Standing(c)' = Atomic!Unborn
          BY <1>1, <2>1, <2>2 DEF Standing, Atomic!Unborn
    <3> QED BY <3>1, <3>2, <3>3
  <2>3. CASE HasState(c)
    <3>1. Standing(c)' = Standing(c) /\ Standing(c).last = app[c].height
          BY <1>1, <2>1, <2>3 DEF Standing
    <3> QED BY <2>3, <3>1 DEF HasState
  <2> QED BY <2>2, <2>3
<1>5. [c \in Consumers |-> Standing(c)'] =
        [c \in Consumers |-> IF Atomic!HasState(c) THEN [d \in Consumers |-> Standing(d)][c]
                             ELSE Atomic!Unborn]
      BY <1>4 DEF Atomic!HasState
<1> QED BY <1>1, <1>2, <1>3, <1>5 DEF Atomic!Restart

\* A chain is initialized: it has state, or none committed and InitChain tells it the height
\* to come.
LEMMA InitializeAtomic ==
  ASSUME TypeOK, NEW c \in Consumers, c \in chainHandlers \ initializedConsumerChains,
         initializedConsumerChains' = initializedConsumerChains \cup {c},
         UNCHANGED <<phase, chainHandlers, rejectedConsumerChains, providerGenesis, provider>>,
         phase # "committing",
         \/ app' = app /\ HasState(c)
         \/ AppInitChain(c) /\ app[c].height = 0 /\ InitialHeight = provider.height + 1
  PROVE  Atomic!Initialize(c)
<1>0. app \in [Consumers -> AppStates] /\ provider.height \in Nat
      BY DEF TypeOK, AppStates
<1>1. ASSUME NEW d \in Consumers \ {c} PROVE Standing(d)' = Standing(d)
  <2>1. app'[d] = app[d]
        BY <1>0 DEF AppInitChain
  <2>2. Committing(d)' <=> Committing(d)
        BY DEF Committing
  <2> QED BY <2>1, <2>2, SameStanding
<1>2. CASE app' = app /\ HasState(c)
  <2>1. Standing(c)' = Standing(c)
        BY <1>2 DEF Standing, HasState
  <2>2. Standing(c).last > 0 \/ c \in Hashed
        BY <1>2 DEF Standing, HasState
  <2>3. [d \in Consumers |-> Standing(d)'] = [d \in Consumers |-> Standing(d)]
        BY <1>1, <2>1
  <2>4. Atomic!HasState(c)
        BY <2>2 DEF Atomic!HasState
  <2> QED BY <2>3, <2>4 DEF Atomic!Initialize
<1>3. CASE AppInitChain(c) /\ app[c].height = 0 /\ InitialHeight = provider.height + 1
  <2>1. /\ app'[c].height = 0 /\ app'[c].initial = provider.height + 1
        /\ app'[c].genesis = IF providerGenesis THEN "provider" ELSE "fallback"
        BY <1>0, <1>3 DEF AppInitChain, AppStates
  <2>2. Standing(c)' = Atomic!Born(provider.height + 1) /\ Standing(c).last = 0
        BY <1>3, <2>1 DEF Standing, Atomic!Born
  <2>3. [d \in Consumers |-> Standing(d)'] =
          [d \in Consumers |-> IF d = c THEN Atomic!Born(provider.height + 1)
                               ELSE [e \in Consumers |-> Standing(e)][d]]
        BY <1>1, <2>2
  <2>4. [e \in Consumers |-> Standing(e)][c].last = 0
        BY <2>2
  <2> QED BY <2>3, <2>4 DEF Atomic!Initialize
<1> QED BY <1>2, <1>3

\* The provider's Commit is the block: who is in the hash will commit it.
LEMMA CommitAtomic ==
  ASSUME TypeOK, HeightInv, BlockIsExact, Commit
  PROVE  Atomic!Block(activeChains) /\ activeChains \in SUBSET Consumers
<1>0. app \in [Consumers -> AppStates] /\ provider \in ProviderStates /\ Provider \notin Consumers
      BY MultiplexerAssumption DEF TypeOK, AppStates, ProviderStates, MultiplexerAssumption
<1>1. /\ phase = "finalized" /\ phase' = "committing" /\ todo' = CommitTargets
      /\ UNCHANGED <<chainHandlers, rejectedConsumerChains, initializedConsumerChains, activeChains,
                     providerGenesis, hashed, app, decided>>
      /\ provider'.height = provider.final
      BY DEF Commit, ProviderCommit, respVars, muxVars, cometVars
<1>2. /\ provider'.height = provider.height + 1 /\ decided = provider.height + 1
      /\ provider.height \in Nat
      BY <1>0, <1>1 DEF HeightInv, ProviderStates
<1>3. /\ Selected \subseteq initializedConsumerChains
      /\ \A c \in Consumers : c \in hashed <=> c \in Selected /\ Executable(c, decided)
      /\ CommitTargets = Selected
      BY <1>0, <1>1 DEF BlockIsExact, CommitTargets, Selected
<1>4. ASSUME NEW c \in Consumers \ Selected PROVE Standing(c)' = Standing(c)
      BY <1>1, <1>3 DEF Standing, HasState
<1>5. ASSUME NEW c \in Consumers, c \in Selected PROVE Standing(c)' = Atomic!Advanced(c)
  <2> DEFINE known == IF app[c].genesis = "fallback" THEN "document" ELSE app[c].genesis
  <2>1. Standing(c) = [genesis |-> known, initial |-> app[c].initial, last |-> app[c].height]
        BY <1>1, <1>3, <1>5 DEF Standing
  <2>2. Standing(c)' = [genesis |-> known, initial |-> app[c].initial,
                        last |-> IF c \in hashed THEN provider.height + 1 ELSE app[c].height]
        BY <1>1, <1>2, <1>3, <1>5 DEF Standing
  <2>3. Executable(c, decided) <=>
          /\ known # "none"
          /\ c \in Lenient \/ decided = IF app[c].height = 0 THEN app[c].initial ELSE app[c].height + 1
        BY DEF Executable, NextBlock
  <2>4. c \in hashed <=> Executable(c, decided)
        BY <1>3, <1>5
  <2> HIDE DEF known
  <2>5. Atomic!Executable(c, Standing(c), provider.height + 1) <=> Executable(c, decided)
        BY <1>2, <2>1, <2>3 DEF Atomic!Executable
  <2>6. Atomic!Advanced(c) = IF Atomic!Executable(c, Standing(c), provider.height + 1)
                             THEN [genesis |-> Standing(c).genesis, initial |-> Standing(c).initial,
                                   last |-> provider.height + 1]
                             ELSE Standing(c)
        BY <1>3, <1>5 DEF Atomic!Advanced
  <2> QED BY <2>1, <2>2, <2>4, <2>5, <2>6
<1>6. [c \in Consumers |-> Standing(c)'] =
        [c \in Consumers |-> IF c \in Selected THEN Atomic!Advanced(c)
                             ELSE [d \in Consumers |-> Standing(d)][c]]
      BY <1>4, <1>5
<1>7. Atomic!Block(activeChains)
      BY <1>1, <1>2, <1>3, <1>6 DEF Atomic!Block, Selected
<1>8. activeChains \in SUBSET Consumers
      BY DEF TypeOK
<1> QED BY <1>7, <1>8

\* A consumer's own Commit has been taken account of.
LEMMA CommitResultAtomic ==
  ASSUME {"rpc", "lost", "consumerCrash"} \cap Troubles = {},
         TypeOK, HashInv, FieldsInv, NothingLeft, NEW c \in Consumers, CommitResult(c)
  PROVE  UNCHANGED Atomic!vars
<1>0. app \in [Consumers -> AppStates] /\ provider.height \in Nat
      BY DEF TypeOK, AppStates
<1>1. /\ phase = "committing" /\ phase' = phase /\ c \in todo /\ todo' = todo \ {c}
      /\ UNCHANGED <<chainHandlers, rejectedConsumerChains, initializedConsumerChains, providerGenesis,
                     provider, hashed>>
      /\ AppCommit(c) \/ (app[c].final = 0 /\ app' = app)
      BY DEF CommitResult, Trouble, muxVars, respVars
<1>2. c \in initializedConsumerChains /\ Settled(c) /\ provider.height > 0
      BY <1>1 DEF FieldsInv, HashInv
<1>3. ASSUME NEW d \in Consumers \ {c} PROVE Standing(d)' = Standing(d)
  <2>1. app'[d] = app[d] /\ (Committing(d)' <=> Committing(d))
        BY <1>0, <1>1 DEF AppCommit, Committing
  <2> QED BY <1>1, <2>1, SameStanding
<1>4. CASE AppCommit(c)
  <2>1. /\ app[c].final > 0 /\ app'[c].height = app[c].final
        /\ app'[c].genesis = app[c].genesis /\ app'[c].initial = app[c].initial
        BY <1>0, <1>4 DEF AppCommit, AppStates
  <2>2. c \in hashed /\ app[c].final = provider.height
        BY <1>1, <1>2, <2>1 DEF NothingLeft, Settled
  <2>3. Standing(c)' = Standing(c)
        BY <1>1, <1>2, <2>1, <2>2 DEF Standing
  <2> QED BY <1>1, <1>3, <2>3, AtomicStutters
<1>5. CASE app[c].final = 0 /\ app' = app
  <2>1. c \notin hashed
        BY <1>1, <1>2, <1>5 DEF Settled
  <2>2. Committing(c)' <=> Committing(c)
        BY <1>1, <2>1 DEF Committing
  <2>3. Standing(c)' = Standing(c)
        BY <1>1, <1>5, <2>2, SameStanding
  <2> QED BY <1>1, <1>3, <2>3, AtomicStutters
<1> QED BY <1>1, <1>4, <1>5

LEMMA StepAtomic ==
  ASSUME {"rpc", "lost", "consumerCrash"} \cap Troubles = {},
         TypeOK, HeightInv, GenesisPhaseInv, HashInv, FieldsInv, NothingLeft, [Next]_vars, Undisturbed,
         NeverInitializedAgain'
  PROVE  [Atomic!Next]_(Atomic!vars)
<1>0. app \in [Consumers -> AppStates] /\ provider \in ProviderStates
      BY DEF TypeOK, AppStates, ProviderStates
<1>1. ASSUME UNCHANGED <<chainHandlers, rejectedConsumerChains, initializedConsumerChains, providerGenesis>>,
             provider'.height = provider.height,
             \A c \in Consumers :
               /\ app'[c].genesis = app[c].genesis /\ app'[c].initial = app[c].initial
               /\ app'[c].height = app[c].height
               /\ Committing(c)' <=> Committing(c)
      PROVE  UNCHANGED Atomic!vars
      BY <1>1, SameStanding, AtomicStutters
<1>2. ASSUME UNCHANGED <<chainHandlers, rejectedConsumerChains, initializedConsumerChains, providerGenesis, app>>,
             provider'.height = provider.height, phase # "committing", phase' # "committing"
      PROVE  UNCHANGED Atomic!vars
      BY <1>1, <1>2 DEF Committing
<1>3. CASE Start
      BY <1>3, StartAtomic DEF Atomic!Next
<1>4. CASE InitChain
  <2>1. /\ UNCHANGED <<chainHandlers, rejectedConsumerChains, initializedConsumerChains, provider, app>>
        /\ providerGenesis' = TRUE /\ provider.height = 0
        /\ phase # "committing" /\ phase' # "committing"
        BY <1>4 DEF InitChain, GenesisPhaseInv
  <2>2. \A c \in Consumers : Standing(c)' = Standing(c)
        BY <2>1 DEF Standing, HasState
  <2>3. [c \in Consumers |-> Standing(c)'] = [c \in Consumers |-> Standing(c)]
        BY <2>2
  <2>4. Atomic!Genesis
        BY <2>1, <2>3 DEF Atomic!Genesis
  <2> QED BY <2>4 DEF Atomic!Next
<1>5. CASE Commit
      BY <1>5, CommitAtomic, ExactBlock DEF Atomic!Next
<1>6. CASE CommitReturns
  <2>1. /\ UNCHANGED <<chainHandlers, rejectedConsumerChains, initializedConsumerChains, providerGenesis, app>>
        /\ UNCHANGED provider /\ todo = {} /\ phase' # "committing"
        BY <1>6 DEF CommitReturns, muxVars
  <2> QED BY <1>1, <2>1 DEF Committing
<1>7. CASE Crash \/ CommitFails
      BY <1>2, <1>7 DEF Undisturbed, Crash, CommitFails, Halt, muxVars
<1>8. CASE InitChainFails \/ InitChainReturns \/ ProcessProposalReturns
           \/ FinalizeBlockFails \/ FinalizeBlockReturns
      BY <1>2, <1>8 DEF InitChainFails, InitChainReturns, ProcessProposalReturns,
        FinalizeBlockFails, Finalizable, FinalizeBlockReturns, Halt, muxVars
<1>9. CASE FinalizeBlock
  <2>1. provider'.height = provider.height
        BY <1>0, <1>9 DEF FinalizeBlock, ProviderFinalizeBlock, ProviderStates
  <2> QED BY <1>2, <1>9, <2>1 DEF FinalizeBlock, Finalizable
<1>10. ASSUME NEW b \in Blocks, ProcessProposalRejects(b) \/ Decide(b) PROVE UNCHANGED Atomic!vars
      BY <1>2, <1>10 DEF ProcessProposalRejects, Proposable, Decide, muxVars
<1>11. ASSUME rejectedConsumerChains' \subseteq chainHandlers \cap initializedConsumerChains,
              UNCHANGED <<chainHandlers, initializedConsumerChains, providerGenesis, provider, app>>,
              phase # "committing", phase' # "committing"
       PROVE  Atomic!Next
  <2>1. \A c \in Consumers : Standing(c)' = Standing(c)
        BY <1>11 DEF Standing, HasState
  <2>2. [c \in Consumers |-> Standing(c)'] = [c \in Consumers |-> Standing(c)]
        BY <2>1
  <2>3. Atomic!Reject
        BY <1>11, <2>2 DEF Atomic!Reject
  <2> QED BY <2>3 DEF Atomic!Next
<1>12. ASSUME NEW b \in Blocks, ProcessProposal(b) PROVE Atomic!Next
      BY <1>11, <1>12 DEF ProcessProposal, Proposable
<1>13. ASSUME NEW c \in Chains, ProcessProposalResult(c) PROVE Atomic!Next
  <2>1. /\ phase = "proposal" /\ phase' \in {"proposal", "idle", "halted"}
        /\ UNCHANGED <<chainHandlers, initializedConsumerChains, providerGenesis, provider, app>>
        /\ \/ rejectedConsumerChains' = rejectedConsumerChains
           \/ c # Provider /\ c \in todo /\ rejectedConsumerChains' = rejectedConsumerChains \cup {c}
        BY <1>13 DEF ProcessProposalResult, Skippable
  <2>2. rejectedConsumerChains' \subseteq chainHandlers \cap initializedConsumerChains
        BY <2>1 DEF FieldsInv
  <2> QED BY <1>11, <2>1, <2>2
<1>14. ASSUME NEW c \in Consumers, InitChainResult(c) PROVE Atomic!Next
  <2>1. /\ phase = "genesis" /\ c \in todo /\ AppInitChain(c)
        /\ initializedConsumerChains' = initializedConsumerChains \cup {c}
        /\ UNCHANGED <<phase, chainHandlers, rejectedConsumerChains, providerGenesis, provider>>
        BY <1>14 DEF InitChainResult, Trouble
  <2>2. provider.height = 0 /\ InitialHeight = provider.height + 1 /\ app[c].height = 0
        BY <1>0, <2>1 DEF GenesisPhaseInv, InitialHeight, HeightInv, AppStates
  <2>3. c \in chainHandlers \ initializedConsumerChains
        BY <2>1 DEF FieldsInv
  <2>4. Atomic!Initialize(c)
        BY <2>1, <2>2, <2>3, InitializeAtomic
  <2> QED BY <2>4 DEF Atomic!Next
<1>15. ASSUME NEW c \in Consumers, LoopSkips(c) PROVE UNCHANGED Atomic!vars
      BY <1>2, <1>15 DEF LoopSkips, muxVars
<1>16. ASSUME NEW c \in Consumers, LoopDispatches(c) PROVE [Atomic!Next]_(Atomic!vars)
  <2>1. /\ phase = "finalizing" /\ c \in chainHandlers
        /\ c \in initializedConsumerChains \/ HasState(c)
        /\ initializedConsumerChains' = initializedConsumerChains \cup {c}
        /\ UNCHANGED <<phase, chainHandlers, rejectedConsumerChains, providerGenesis, provider, app>>
        BY <1>16 DEF LoopDispatches, Served
  <2>2. CASE c \in initializedConsumerChains
        BY <1>2, <2>1, <2>2
  <2>3. CASE c \notin initializedConsumerChains
    <3>1. Atomic!Initialize(c)
          BY <2>1, <2>3, InitializeAtomic
    <3> QED BY <3>1 DEF Atomic!Next
  <2> QED BY <2>2, <2>3
<1>17. ASSUME NEW c \in Consumers, LoopInitializes(c) PROVE Atomic!Next
  <2>1. /\ phase = "finalizing" /\ c \in chainHandlers \ initializedConsumerChains
        /\ AppInitChain(c)
        /\ initializedConsumerChains' = initializedConsumerChains \cup {c}
        /\ UNCHANGED <<phase, chainHandlers, rejectedConsumerChains, providerGenesis, provider>>
        BY <1>17 DEF LoopInitializes, Served, InitChainTrouble, Trouble
  <2>2. app[c].height = 0
    <3>1. app[c].height > 0 => app'[c].genesis = "again"
          BY <1>0, <2>1 DEF AppInitChain, AppStates
    <3>2. app'[c].genesis # "again"
          BY DEF NeverInitializedAgain
    <3> QED BY <1>0, <3>1, <3>2 DEF AppStates
  <2>3. InitialHeight = provider.height + 1
        BY <2>1 DEF InitialHeight, HeightInv
  <2>4. Atomic!Initialize(c)
        BY <2>1, <2>2, <2>3, InitializeAtomic
  <2> QED BY <2>4 DEF Atomic!Next
<1>18. ASSUME NEW c \in Consumers, FinalizeBlockResult(c) PROVE UNCHANGED Atomic!vars
  <2>1. /\ phase = "finalizing" /\ phase' = phase
        /\ UNCHANGED <<chainHandlers, rejectedConsumerChains, initializedConsumerChains, providerGenesis, provider>>
        /\ \A d \in Consumers :
             /\ app'[d].genesis = app[d].genesis /\ app'[d].initial = app[d].initial
             /\ app'[d].height = app[d].height
        BY <1>0, <1>18 DEF FinalizeBlockResult, AppFinalizeBlock, AppStates, muxVars
  <2> QED BY <1>1, <2>1 DEF Committing
<1>19. ASSUME NEW c \in Consumers, CommitResult(c) PROVE UNCHANGED Atomic!vars
      BY <1>19, CommitResultAtomic
<1>20. \A c \in Consumers : ~ConsumerCrash(c)
      BY DEF ConsumerCrash, Trouble
<1>21. CASE UNCHANGED vars
  <2>1. UNCHANGED <<phase, chainHandlers, rejectedConsumerChains, initializedConsumerChains, providerGenesis,
                    provider, app, todo, hashed>>
        BY <1>21 DEF vars, muxVars, respVars
  <2> QED BY <1>1, <2>1 DEF Committing
<1> QED BY <1>3, <1>4, <1>5, <1>6, <1>7, <1>8, <1>9, <1>10, <1>12, <1>13, <1>14, <1>15, <1>16,
           <1>17, <1>18, <1>19, <1>20, <1>21 DEF Next, Run, Answer

\* Only Commit ends a block.
LEMMA OnlyCommitEnds ==
  ASSUME TypeOK, [Next]_vars, ~Commit
  PROVE  provider'.height = provider.height
<1>1. CASE Start \/ FinalizeBlock
      BY <1>1 DEF TypeOK, Start, FinalizeBlock, ProviderFinalizeBlock
<1>2. CASE Crash \/ CommitFails \/ CommitReturns \/ InitChain \/ InitChainFails \/ InitChainReturns
           \/ ProcessProposalReturns \/ FinalizeBlockFails \/ FinalizeBlockReturns
      BY <1>2 DEF Crash, CommitFails, CommitReturns, InitChain, InitChainFails, InitChainReturns,
        ProcessProposalReturns, FinalizeBlockFails, FinalizeBlockReturns, Halt
<1>3. ASSUME NEW b \in Blocks, ProcessProposalRejects(b) \/ ProcessProposal(b) \/ Decide(b)
      PROVE  provider' = provider
      BY <1>3 DEF ProcessProposalRejects, ProcessProposal, Decide
<1>4. ASSUME NEW c \in Chains, ProcessProposalResult(c) PROVE provider' = provider
      BY <1>4 DEF ProcessProposalResult
<1>5. ASSUME NEW c \in Consumers, Answer(c) \/ ConsumerCrash(c) PROVE provider' = provider
      BY <1>5 DEF Answer, InitChainResult, LoopSkips, LoopDispatches, LoopInitializes,
        FinalizeBlockResult, CommitResult, ConsumerCrash
<1>6. CASE UNCHANGED vars
      BY <1>6 DEF vars
<1> QED BY <1>1, <1>2, <1>3, <1>4, <1>5, <1>6 DEF Next, Run

LEMMA AtomicInvariants ==
  ASSUME {"rpc", "lost", "consumerCrash"} \cap Troubles = {}
  PROVE  Spec => [](TypeOK /\ HeightInv /\ GenesisPhaseInv /\ HashInv /\ FieldsInv)
<1>1. Init => GenesisPhaseInv /\ FieldsInv
      BY DEF Init, GenesisPhaseInv, FieldsInv
<1> QED BY <1>1, Hashes, HeightsInOrder, StepGenesisPhase, StepFields, PTL DEF Spec

\* As long as consumers answer, a node does with a block, over all its steps and in any
\* order of them, what AtomicBlocks says in one, but for the steps BlocksAreAtomic excepts.
THEOREM BlocksImplementAtomicBlocks ==
  ASSUME {"rpc", "lost", "consumerCrash"} \cap Troubles = {}
  PROVE  Spec => BlocksAreAtomic
<1>1. TypeOK /\ HeightInv /\ GenesisPhaseInv /\ HashInv /\ FieldsInv /\ [Next]_vars
        => [(NothingLeft /\ Undisturbed /\ NeverInitializedAgain')
              => /\ [Atomic!Next]_(Atomic!vars)
                 /\ provider'.height # provider.height => Atomic!Block(activeChains)]_vars
      BY StepAtomic, OnlyCommitEnds, CommitAtomic, ExactBlock
<1> QED BY <1>1, AtomicInvariants, InitAtomic, PTL DEF Spec, BlocksAreAtomic

\* Behaviours in which nothing stops the process in the middle of a block.
CalmSpec == Init /\ [][Next /\ Undisturbed]_vars

\* If besides nothing stops the process between FinalizeBlock and the end of Commit, and
\* Info calls do not fail, there is no exception: Replicas' ExecuteBlock is then no
\* simplification.
THEOREM CalmNodesImplementAtomicBlocks ==
  ASSUME {"rpc", "lost", "info", "consumerCrash"} \cap Troubles = {}
  PROVE  CalmSpec => Atomic!Spec
<1>1. CalmSpec => Spec
  <2>1. [Next /\ Undisturbed]_vars => [Next]_vars
        OBVIOUS
  <2> QED BY <2>1, PTL DEF CalmSpec, Spec
<1>2. {"rpc", "lost", "consumerCrash"} \cap Troubles = {} /\ "info" \notin Troubles
      OBVIOUS
<1>3. /\ Spec => [](TypeOK /\ HeightInv /\ GenesisPhaseInv /\ HashInv /\ FieldsInv)
      /\ Spec => []NeverInitializedAgain
      BY <1>2, AtomicInvariants, InitializedOnce
<1>4. Init => NothingLeft
      BY DEF Init, NothingLeft
<1>5. TypeOK /\ HeightInv /\ HashInv /\ NothingLeft /\ [Next /\ Undisturbed]_vars => NothingLeft'
      BY <1>2, StepNothingLeft
<1>6. TypeOK /\ HeightInv /\ GenesisPhaseInv /\ HashInv /\ FieldsInv /\ NothingLeft
        /\ NeverInitializedAgain' /\ [Next /\ Undisturbed]_vars => [Atomic!Next]_(Atomic!vars)
  <2> SUFFICES ASSUME TypeOK, HeightInv, GenesisPhaseInv, HashInv, FieldsInv, NothingLeft,
                      NeverInitializedAgain', [Next /\ Undisturbed]_vars
               PROVE  [Atomic!Next]_(Atomic!vars)
      OBVIOUS
  <2>1. UNCHANGED vars => Undisturbed
        BY DEF vars, Undisturbed
  <2> QED BY <1>2, <2>1, StepAtomic
<1> QED BY <1>1, <1>3, <1>4, <1>5, <1>6, InitAtomic, PTL DEF CalmSpec, Atomic!Spec

=============================================================================
