---------------------------- MODULE Multiplexer ----------------------------
(***************************************************************************)
(* One node of the interchain-security PoC: the ABCI application that      *)
(* CometBFT drives (abci/abci.go, abci/multiplexer.go), the provider chain *)
(* that runs inside its process and the consumer chains it calls over gRPC.*)
(*                                                                         *)
(* An action is one handler of the multiplexer up to the point where it    *)
(* hands work to other processes, one answer of a chain, or the return of  *)
(* the handler.  A transaction is its parsed routing header: a chain id,   *)
(* or Unparsable when ParseHeader returns an error.  CometBFT and the      *)
(* consumer applications are not part of the repository: they appear as    *)
(* the callers and callees that src/abci uses.                             *)
(***************************************************************************)
EXTENDS Integers, FiniteSets, Sequences

CONSTANTS
  Provider,    \* chain id of the provider chain
  Consumers,   \* chain ids the provider's registry or the configuration may name
  Lenient,     \* those whose application executes a block after missing some
  Hashed,      \* those whose Info answer has an application hash before any block
  Unparsable,  \* the header of a transaction ParseHeader refuses
  NoBlock,     \* no proposal, or no block, yet
  Blocks,      \* bound: the transaction lists consensus may propose
  Configs,     \* bound: the chains of ics.toml a process may be started with
  ActiveSets,  \* bound: the ACTIVE sets the provider may hold after a block
  MaxHeight,   \* bound: the last height consensus decides
  HaltHeight,  \* halt-height of app.toml, 0 when unset
  Troubles,    \* the kinds of failure and refusal that may happen
  MaxTroubles  \* bound: how many of them may happen

Chains  == Consumers \cup {Provider}
Headers == Chains \cup {Unparsable}

TroubleKinds ==
  { "refuse",           \* a consumer does not ACCEPT a proposal
    "rpc",              \* a call fails and has no effect on the chain
    "lost",             \* a call takes effect but its answer is lost
    "info",             \* the Info call of initChainIfNeeded fails
    "query",            \* the ActiveConsumerChains query fails
    "provider",         \* an ABCI method of the provider returns an error
    "block",            \* consensus decides a block with an unparsable transaction
    "crash",            \* the node's process dies
    "consumerCrash" }   \* a consumer's process dies and comes back

ASSUME MultiplexerAssumption ==
  /\ Provider \notin Consumers
  /\ Unparsable \notin Chains
  /\ Lenient \subseteq Consumers /\ Hashed \subseteq Consumers
  /\ NoBlock \notin Blocks
  /\ \A b \in Blocks : b \in Seq(Headers)
  /\ Configs \subseteq SUBSET Consumers
  /\ ActiveSets \subseteq SUBSET Consumers
  /\ MaxHeight \in Nat /\ HaltHeight \in Nat /\ MaxTroubles \in Nat
  /\ Troubles \subseteq TroubleKinds

VARIABLES
  \* CometBFT
  phase,     \* the ABCI call under way, or "idle", "halted", "down"
  proposal,  \* the last proposal of this height this node was asked about
  block,     \* the decided block; consensus has it on disk
  decided,   \* the height of that block
  \* fields of the Multiplexer struct, lost with the process
  chainHandlers, rejectedConsumerChains, initializedConsumerChains, activeChains,
  providerGenesis,  \* the genesis validators and params held are the provider's
  \* locals of the ABCI call under way
  todo,      \* chains its loop, or its wait group, has not dealt with
  waiting,   \* chains whose FinalizeBlock answer is outstanding
  txResults, \* what fills response.TxResults, one entry per transaction
  hashed,    \* chains whose hash is part of response.AppHash
  \* the chains
  provider,  \* [height, active]: committed; [final, next]: finalised only
  app,       \* the consumer applications, each in a process of its own
  budget     \* troubles still to come

cometVars == <<proposal, block, decided>>
muxVars   == <<chainHandlers, rejectedConsumerChains, initializedConsumerChains,
               activeChains, providerGenesis>>
respVars  == <<txResults, hashed>>
vars == <<phase, cometVars, muxVars, todo, waiting, respVars, provider, app, budget>>

Phases == { "down", "handshake", "genesis", "idle", "proposal", "finalizing",
            "finalized", "committing", "halted" }

\* Genesis state of a consumer application: none yet; from an InitChain that carried the
\* validators and params of the provider's InitChain response; from one that carried
\* those of the genesis document, which has no validators when they come from gentxs;
\* from one that reached an application which had already committed blocks.
GenesisKinds == {"none", "provider", "fallback", "again"}

Skipped == "transaction skipped"
Missing == "nil"

-----------------------------------------------------------------------------
(* Variants of the definitions below, each with a mistake this code could have had.     *)
(* PROJECT.json names the property that fails when the variant takes the definition's   *)
(* place.                                                                               *)

BadSkippedTx(b, i)       == b[i] # Provider /\ b[i] \notin chainHandlers \* rejections forgotten
BadHasState(c)           == FALSE  \* no Info call
BadInfoHasState(c)       == TRUE   \* an answered Info call taken for state
BadProviderFinalizeBlock(next) == \* only consumers execute once the first is active
  provider' = IF provider.active # {} THEN provider
              ELSE [provider EXCEPT !.final = decided, !.next = next]
BadProviderCommit == \* only consumers commit when some are active
  provider' = IF activeChains # {} THEN provider
              ELSE [height |-> provider.final, active |-> provider.next, final |-> 0, next |-> {}]
BadActiveConsumerChains  == provider.active \cup activeChains \* chains never removed
BadSkippable(c)          == TRUE   \* no special case for the provider's rejection
BadServed(c)             == phase = "finalizing" /\ c \in todo \cap chainHandlers
BadCommitTargets         == \* the active set as of after the block
  (provider.next \cap initializedConsumerChains \cap chainHandlers) \ rejectedConsumerChains
BadMustHalt              == decided >= HaltHeight \* an unset halt-height taken for a height

-----------------------------------------------------------------------------

WellFormed(b) == \A i \in DOMAIN b : b[i] # Unparsable

\* Header of b's transactions that this node routes nowhere: a rejected chain's, or one
\* of a chain without a handler.
SkippedTx(b, i) ==
  \/ b[i] \in rejectedConsumerChains
  \/ b[i] # Provider /\ b[i] \notin chainHandlers

Trouble(kind) ==
  /\ kind \in Troubles
  /\ budget > 0
  /\ budget' = budget - 1

NoTrouble == UNCHANGED budget

-----------------------------------------------------------------------------
(* Process start and stop *)

Init ==
  /\ phase = "down"
  /\ proposal = NoBlock /\ block = NoBlock /\ decided = 0
  /\ chainHandlers = {} /\ rejectedConsumerChains = {}
  /\ initializedConsumerChains = {} /\ activeChains = {}
  /\ providerGenesis = FALSE
  /\ todo = {} /\ waiting = {}
  /\ txResults = <<>> /\ hashed = {}
  /\ provider = [height |-> 0, active |-> {}, final |-> 0, next |-> {}]
  /\ app = [c \in Consumers |-> [genesis |-> "none", initial |-> 0, height |-> 0, final |-> 0]]
  /\ budget = MaxTroubles

\* A new process: NewMultiplexer's empty maps, initChainHandlers over the configured
\* chains, the provider as of its last commit.  loadGenesisValues takes the genesis
\* validators and params from the genesis document "as fallback".  CometBFT's handshake
\* calls InitChain exactly when the Info answer, the provider's, has height 0.
Start ==
  /\ phase \in {"down", "halted"}
  /\ \E handlers \in Configs : chainHandlers' = handlers
  /\ rejectedConsumerChains' = {}
  /\ initializedConsumerChains' = {}
  /\ activeChains' = {}
  /\ providerGenesis' = FALSE
  /\ provider' = [provider EXCEPT !.final = 0, !.next = {}]
  /\ phase' = IF provider.height = 0 THEN "handshake" ELSE "idle"
  /\ proposal' = NoBlock
  /\ todo' = {} /\ waiting' = {}
  /\ txResults' = <<>> /\ hashed' = {}
  /\ UNCHANGED <<block, decided, app, budget>>

Crash ==
  /\ phase # "down"
  /\ Trouble("crash")
  /\ phase' = "down"
  /\ UNCHANGED <<cometVars, muxVars, todo, waiting, respVars, provider, app>>

\* An ABCI method that returns an error stops CometBFT's consensus.
Halt ==
  /\ phase' = "halted"
  /\ todo' = {} /\ waiting' = {}
  /\ UNCHANGED <<cometVars, muxVars, respVars, provider, app>>

-----------------------------------------------------------------------------
(* Consumer applications, reached over gRPC *)

\* The first height a consumer is told of: that of the genesis, or, for a chain that is
\* initialized later, the height of the block under way.
InitialHeight == IF phase = "genesis" THEN 1 ELSE decided

\* InitChain resets whatever the application had not committed.
AppInitChain(c) ==
  app' = [app EXCEPT ![c].final = 0, ![c].initial = InitialHeight,
                     ![c].genesis = IF app[c].height > 0 THEN "again"
                                    ELSE IF providerGenesis THEN "provider" ELSE "fallback"]

\* The only block an application executes that is not lenient.
NextBlock(c) == IF app[c].height = 0 THEN app[c].initial ELSE app[c].height + 1

Executable(c, h) ==
  /\ app[c].genesis # "none"
  /\ c \in Lenient \/ h = NextBlock(c)

AppFinalizeBlock(c, h) ==
  /\ Executable(c, h)
  /\ app' = [app EXCEPT ![c].final = h]

AppCommit(c) ==
  /\ app[c].final > 0
  /\ app' = [app EXCEPT ![c].height = app[c].final, ![c].final = 0]

\* The application keeps what it committed.
AppRestart(c) ==
  app' = [app EXCEPT ![c].final = 0,
                     ![c].genesis = IF app[c].height > 0 THEN @ ELSE "none",
                     ![c].initial = IF app[c].height > 0 THEN @ ELSE 0]

ConsumerCrash(c) ==
  /\ Trouble("consumerCrash")
  /\ AppRestart(c)
  /\ UNCHANGED <<phase, cometVars, muxVars, todo, waiting, respVars, provider>>

\* What initChainIfNeeded reads off a successful Info answer: a height, or a hash, which an
\* application may have to show before it has a genesis.
HasState(c) == app[c].height > 0 \/ c \in Hashed

-----------------------------------------------------------------------------
(* The provider application, in this process *)

ProviderFinalizeBlock(next) ==
  provider' = [provider EXCEPT !.final = decided, !.next = next]

ProviderCommit ==
  provider' = [height |-> provider.final, active |-> provider.next, final |-> 0, next |-> {}]

\* The answer of the ActiveConsumerChains query at height 0: committed state.
ActiveConsumerChains == provider.active

-----------------------------------------------------------------------------
(* InitChain: the provider first, then every configured consumer at once *)

InitChain ==
  /\ phase = "handshake"
  /\ phase' = "genesis"
  /\ providerGenesis' = TRUE
  /\ hashed' = {Provider}
  /\ todo' = chainHandlers
  /\ NoTrouble
  /\ UNCHANGED <<cometVars, chainHandlers, rejectedConsumerChains, initializedConsumerChains,
                 activeChains, waiting, txResults, provider, app>>

InitChainFails ==
  /\ phase = "handshake"
  /\ Trouble("provider")
  /\ Halt

\* One result of the loop at the end of InitChain.  "rpc" stands for an unreadable
\* genesis file of the consumer too: nothing is sent then.
InitChainResult(c) ==
  /\ phase = "genesis" /\ c \in todo
  /\ todo' = todo \ {c}
  /\ \/ /\ NoTrouble
        /\ AppInitChain(c)
        /\ initializedConsumerChains' = initializedConsumerChains \cup {c}
        /\ hashed' = hashed \cup {c}
     \/ /\ Trouble("lost")
        /\ AppInitChain(c)
        /\ UNCHANGED <<initializedConsumerChains, hashed>>
     \/ /\ Trouble("rpc")
        /\ UNCHANGED <<initializedConsumerChains, hashed, app>>
  /\ UNCHANGED <<phase, cometVars, chainHandlers, rejectedConsumerChains, activeChains,
                 providerGenesis, waiting, txResults, provider>>

InitChainReturns ==
  /\ phase = "genesis" /\ todo = {}
  /\ phase' = "idle"
  /\ UNCHANGED <<cometVars, muxVars, todo, waiting, respVars, provider, app, budget>>

-----------------------------------------------------------------------------
(* ProcessProposal *)

\* Chains asked about a proposal: those with a transaction in it that are the provider
\* or a consumer this process has initialized.
Asked(b) ==
  { c \in {b[i] : i \in DOMAIN b} :
      c = Provider \/ c \in chainHandlers \cap initializedConsumerChains }

\* A proposal of some round of the next height, before a block is decided there.
Proposable(b) ==
  /\ phase = "idle"
  /\ decided = provider.height
  /\ proposal' = b

\* REJECT at the first unparsable transaction, before the rejected chains are cleared.
ProcessProposalRejects(b) ==
  /\ Proposable(b)
  /\ ~WellFormed(b)
  /\ UNCHANGED <<phase, block, decided, muxVars, todo, waiting, respVars, provider, app, budget>>

ProcessProposal(b) ==
  /\ Proposable(b)
  /\ WellFormed(b)
  /\ phase' = "proposal"
  /\ rejectedConsumerChains' = {}
  /\ todo' = Asked(b)
  /\ NoTrouble
  /\ UNCHANGED <<block, decided, chainHandlers, initializedConsumerChains, activeChains,
                 providerGenesis, waiting, respVars, provider, app>>

\* The rejection of this chain makes it skip the block instead of rejecting the block.
Skippable(c) == c # Provider

\* One result, in the order of arrival.  The provider's rejection returns at once and
\* leaves the rejected chains collected so far.
ProcessProposalResult(c) ==
  /\ phase = "proposal" /\ c \in todo
  /\ \/ /\ NoTrouble  \* ACCEPT
        /\ todo' = todo \ {c}
        /\ UNCHANGED <<phase, rejectedConsumerChains>>
     \/ /\ c = Provider  \* the provider rejects
        /\ NoTrouble
        /\ phase' = "idle" /\ todo' = {}
        /\ UNCHANGED rejectedConsumerChains
     \/ /\ Skippable(c)
        /\ Trouble("refuse")
        /\ todo' = todo \ {c}
        /\ rejectedConsumerChains' = rejectedConsumerChains \cup {c}
        /\ UNCHANGED phase
     \/ /\ Trouble(IF c = Provider THEN "provider" ELSE "rpc")
        /\ phase' = "halted" /\ todo' = {}
        /\ UNCHANGED rejectedConsumerChains
  /\ UNCHANGED <<cometVars, chainHandlers, initializedConsumerChains, activeChains,
                 providerGenesis, waiting, respVars, provider, app>>

ProcessProposalReturns ==
  /\ phase = "proposal" /\ todo = {}
  /\ phase' = "idle"
  /\ UNCHANGED <<cometVars, muxVars, todo, waiting, respVars, provider, app, budget>>

-----------------------------------------------------------------------------
(* FinalizeBlock *)

\* Consensus decides a block, any well-formed one whatever this node was last asked
\* about: it may have come from another round, or while this node was behind.
Decide(b) ==
  /\ phase = "idle"
  /\ decided = provider.height /\ decided < MaxHeight
  /\ decided' = decided + 1
  /\ block' = b
  /\ IF WellFormed(b) THEN NoTrouble ELSE Trouble("block")
  /\ UNCHANGED <<phase, proposal, muxVars, todo, waiting, respVars, provider, app>>

\* CometBFT calls FinalizeBlock for a decided block that is not committed, after a
\* restart as well.
Finalizable == phase = "idle" /\ decided = provider.height + 1

\* A halt-time of app.toml stops the node in the same way.
MustHalt == HaltHeight > 0 /\ decided >= HaltHeight

\* The three early returns with an error.
FinalizeBlockFails ==
  /\ Finalizable
  /\ \/ MustHalt /\ NoTrouble
     \/ ~MustHalt /\ ~WellFormed(block) /\ NoTrouble
     \/ ~MustHalt /\ WellFormed(block) /\ Trouble("provider")
  /\ Halt

\* Up to the loop over the active chains: the transactions are categorised, the
\* provider executes its own, and above height 1 the active chains are read from the
\* provider's committed state, which is that of the previous block.  A failed query
\* is logged and leaves the active chains as they are.
FinalizeBlock ==
  /\ Finalizable /\ ~MustHalt /\ WellFormed(block)
  /\ phase' = "finalizing"
  /\ \E next \in ActiveSets : ProviderFinalizeBlock(next)
  /\ \/ NoTrouble /\ activeChains' = IF decided > 1 THEN ActiveConsumerChains ELSE activeChains
     \/ decided > 1 /\ Trouble("query") /\ UNCHANGED activeChains
  /\ todo' = activeChains'
  /\ txResults' = [i \in DOMAIN block |->
                     IF SkippedTx(block, i) THEN Skipped
                     ELSE IF block[i] = Provider THEN Provider ELSE Missing]
  /\ hashed' = {Provider}
  /\ UNCHANGED <<cometVars, chainHandlers, rejectedConsumerChains, initializedConsumerChains,
                 providerGenesis, waiting, app>>

\* The body of the loop over the active chains, in map order: skip the chain, ...
LoopSkips(c) ==
  /\ phase = "finalizing" /\ c \in todo
  /\ c \in rejectedConsumerChains \/ c \notin chainHandlers
  /\ todo' = todo \ {c}
  /\ UNCHANGED <<phase, cometVars, muxVars, waiting, respVars, provider, app, budget>>

Served(c) ==
  /\ phase = "finalizing" /\ c \in todo
  /\ c \in chainHandlers \ rejectedConsumerChains

\* ... or hand it its transactions: at once when this process has initialized it or its
\* Info answer shows committed state, ...
LoopDispatches(c) ==
  /\ Served(c)
  /\ c \in initializedConsumerChains \/ HasState(c)
  /\ initializedConsumerChains' = initializedConsumerChains \cup {c}
  /\ todo' = todo \ {c}
  /\ waiting' = waiting \cup {c}
  /\ UNCHANGED <<phase, cometVars, chainHandlers, rejectedConsumerChains, activeChains,
                 providerGenesis, respVars, provider, app, budget>>

\* A trouble of the InitChain of the loop.  A chain with state gets that call only if its
\* Info call failed as well.
InitChainTrouble(c, kind) ==
  IF HasState(c) THEN {"info", kind} \subseteq Troubles /\ budget > 1 /\ budget' = budget - 2
  ELSE Trouble(kind)

\* ... else after an InitChain at this height.  A failed Info call counts as "no state".
\* When the initialization fails, the chain is left out of this block.
LoopInitializes(c) ==
  /\ Served(c)
  /\ c \notin initializedConsumerChains
  /\ todo' = todo \ {c}
  /\ \/ /\ ~HasState(c) /\ NoTrouble
        /\ AppInitChain(c)
        /\ initializedConsumerChains' = initializedConsumerChains \cup {c}
        /\ waiting' = waiting \cup {c}
     \/ /\ HasState(c) /\ Trouble("info")
        /\ AppInitChain(c)
        /\ initializedConsumerChains' = initializedConsumerChains \cup {c}
        /\ waiting' = waiting \cup {c}
     \/ /\ InitChainTrouble(c, "lost")
        /\ AppInitChain(c)
        /\ UNCHANGED <<initializedConsumerChains, waiting>>
     \/ /\ InitChainTrouble(c, "rpc")
        /\ UNCHANGED <<initializedConsumerChains, waiting, app>>
  /\ UNCHANGED <<phase, cometVars, chainHandlers, rejectedConsumerChains, activeChains,
                 providerGenesis, respVars, provider>>

\* One consumer executes its transactions and its answer is put in the response, or an
\* error is logged and the chain left out of the response.
FinalizeBlockResult(c) ==
  /\ phase = "finalizing" /\ c \in waiting
  /\ waiting' = waiting \ {c}
  /\ \/ /\ AppFinalizeBlock(c, decided) /\ NoTrouble
        /\ txResults' = [i \in DOMAIN txResults |->
                           IF block[i] = c /\ ~SkippedTx(block, i) THEN c ELSE txResults[i]]
        /\ hashed' = hashed \cup {c}
     \/ /\ AppFinalizeBlock(c, decided) /\ Trouble("lost")
        /\ UNCHANGED respVars
     \/ /\ ~Executable(c, decided) \* the application answers with an error
        /\ NoTrouble
        /\ UNCHANGED <<app, respVars>>
     \/ /\ Trouble("rpc")
        /\ UNCHANGED <<app, respVars>>
  /\ UNCHANGED <<phase, cometVars, muxVars, todo, provider>>

FinalizeBlockReturns ==
  /\ phase = "finalizing" /\ todo = {} /\ waiting = {}
  /\ phase' = "finalized"
  /\ UNCHANGED <<cometVars, muxVars, todo, waiting, respVars, provider, app, budget>>

-----------------------------------------------------------------------------
(* Commit: the provider first, then the served consumers one after the other *)

CommitTargets ==
  (activeChains \cap initializedConsumerChains \cap chainHandlers) \ rejectedConsumerChains

Commit ==
  /\ phase = "finalized"
  /\ phase' = "committing"
  /\ ProviderCommit
  /\ todo' = CommitTargets
  /\ NoTrouble
  /\ UNCHANGED <<cometVars, muxVars, waiting, respVars, app>>

CommitFails ==
  /\ phase = "finalized"
  /\ Trouble("provider")
  /\ Halt

\* A failed Commit is logged.  Whose answer the handler returns in the end (the last
\* successful one's, in map order) is left out.
CommitResult(c) ==
  /\ phase = "committing" /\ c \in todo
  /\ todo' = todo \ {c}
  /\ \/ AppCommit(c) /\ NoTrouble
     \/ app[c].final = 0 /\ UNCHANGED app /\ NoTrouble  \* nothing to commit
     \/ UNCHANGED app /\ Trouble("rpc")
  /\ UNCHANGED <<phase, cometVars, muxVars, waiting, respVars, provider>>

CommitReturns ==
  /\ phase = "committing" /\ todo = {}
  /\ phase' = "idle"
  /\ proposal' = NoBlock
  /\ UNCHANGED <<block, decided, muxVars, todo, waiting, respVars, provider, app, budget>>

-----------------------------------------------------------------------------

\* Steps the multiplexer, the provider or a reachable consumer takes by itself.
Answer(c) ==
  \/ InitChainResult(c)
  \/ LoopSkips(c) \/ LoopDispatches(c) \/ LoopInitializes(c)
  \/ FinalizeBlockResult(c)
  \/ CommitResult(c)

Run ==
  \/ InitChain \/ InitChainFails \/ InitChainReturns
  \/ ProcessProposalReturns
  \/ FinalizeBlock \/ FinalizeBlockFails \/ FinalizeBlockReturns
  \/ Commit \/ CommitFails \/ CommitReturns

Next ==
  \/ Start \/ Crash
  \/ Run
  \/ \E b \in Blocks : ProcessProposalRejects(b) \/ ProcessProposal(b) \/ Decide(b)
  \/ \E c \in Chains : ProcessProposalResult(c)
  \/ \E c \in Consumers : Answer(c) \/ ConsumerCrash(c)

Spec == Init /\ [][Next]_vars

\* CometBFT restarts a stopped node and calls what the handshake and consensus require,
\* the handlers run on, an outstanding call is answered or fails, and the rounds of a
\* height do not go on forever without a decision.
Fairness ==
  /\ WF_vars(Start)
  /\ WF_vars(Run)
  /\ WF_vars(\E c \in Chains : ProcessProposalResult(c))
  /\ WF_vars(\E c \in Consumers : Answer(c))
  /\ SF_vars(\E b \in Blocks : Decide(b))

FairSpec == Spec /\ Fairness

-----------------------------------------------------------------------------
(* Properties *)

HeaderBlocks == Blocks \cup {NoBlock}

TxAnswers == Chains \cup {Skipped, Missing}

\* Commit is about to return: the block is done on this node.
Committed == phase = "committing" /\ todo = {}

\* Every variable stays within its type; what the ABCI call under way leaves open is
\* empty outside that call.
TypeOK ==
  /\ phase \in Phases
  /\ proposal \in HeaderBlocks /\ block \in HeaderBlocks
  /\ decided \in Nat /\ (decided > 0 => block \in Blocks)
  /\ chainHandlers \subseteq Consumers
  /\ rejectedConsumerChains \subseteq Consumers
  /\ initializedConsumerChains \subseteq Consumers
  /\ activeChains \subseteq Consumers
  /\ providerGenesis \in BOOLEAN
  /\ todo \subseteq Chains /\ waiting \subseteq Consumers
  /\ DOMAIN txResults \subseteq Nat
  /\ \A i \in DOMAIN txResults : txResults[i] \in TxAnswers
  /\ hashed \subseteq Chains
  /\ provider \in [height : Nat, active : SUBSET Consumers, final : Nat, next : SUBSET Consumers]
  /\ app \in [Consumers -> [genesis : GenesisKinds, initial : Nat, height : Nat, final : Nat]]
  /\ budget \in Nat

\* A consumer never holds a committed block the provider has not committed, whatever is
\* lost, repeated or restarted: FinalizeBlock runs the provider before the consumers,
\* and Commit commits it before them.
ConsumerNeverAhead ==
  \A c \in Consumers : app[c].height <= provider.height

\* The heights of a node's chains behave as SharedHeight says, over the multiplexer's
\* two-step Commit, crashes between its steps and the replay of a decided block.
Shared == INSTANCE SharedHeight WITH
  Followers <- Consumers,
  leader    <- provider.height,
  follower  <- [c \in Consumers |-> app[c].height]

ImplementsSharedHeight == Shared!Spec

\* A consumer executes a block only after the provider's FinalizeBlock of the same
\* block succeeded in this process, so a block the provider fails on reaches no consumer.
ProviderExecutesFirst ==
  [][\A c \in Consumers :
       (app'[c].final # app[c].final /\ app'[c].final # 0)
         => app'[c].final = provider.final /\ provider.final = provider.height + 1]_vars

\* From the proposal a consumer rejected until the next proposal, the multiplexer leaves
\* its state alone: neither FinalizeBlock nor Commit reaches it, through the loops of
\* both and a crash of either process in between.
RejectedLeftAlone ==
  [][\A c \in rejectedConsumerChains :
       /\ app'[c].height = app[c].height
       /\ app'[c].final \in {0, app[c].final}]_vars

\* The response of FinalizeBlock is exact: a transaction's result comes from the chain of
\* its own header, and that chain's hash is in the response; "skipped" means rejected or
\* without a handler; and a result is missing only for a chain that did not answer.
ResultsMatchExecution ==
  phase = "finalized" =>
    /\ hashed \cap rejectedConsumerChains = {}
    /\ \A i \in DOMAIN block :
         \/ txResults[i] = block[i] /\ block[i] \in hashed
         \/ txResults[i] = Skipped /\ block[i] \notin (chainHandlers \cup {Provider}) \ rejectedConsumerChains
         \/ txResults[i] = Missing /\ block[i] \in chainHandlers \ (hashed \cup rejectedConsumerChains)

\* The application hash given to consensus covers exactly the consumers that committed
\* the block: FinalizeBlock and Commit select the chains in two loops, with the
\* rejected, initialized and active sets of two moments.
HashCoversCommitted ==
  Committed =>
    hashed \ {Provider} = {c \in Consumers : app[c].height = provider.height}

\* A consumer executes the block of a height only if the provider's committed state of
\* the height before holds it ACTIVE: the set is read before the provider commits.
ServedIsActive ==
  [][\A c \in Consumers :
       (app'[c].final # app[c].final /\ app'[c].final # 0) => c \in provider.active]_vars

\* InitChain reaches a consumer application only before its first commit, also when its
\* answer was lost and when the node restarted: initChainIfNeeded "Checks chain state via
\* Info to detect already-initialized chains after restart" (multiplexer.go:528).  It takes
\* a failed Info call for a chain without state.
NeverInitializedAgain ==
  \A c \in Consumers : app[c].genesis # "again"

\* A consumer for AtomicBlocks: a chain without state that this process has not
\* initialized has no genesis that counts; one that is about to commit has committed.
Standing(c) ==
  IF ~HasState(c) /\ c \notin initializedConsumerChains
  THEN [genesis |-> "none", initial |-> 0, last |-> 0]
  ELSE [genesis |-> IF app[c].genesis = "fallback" THEN "document" ELSE app[c].genesis,
        initial |-> app[c].initial,
        last    |-> IF phase = "committing" /\ c \in todo \cap hashed
                    THEN provider.height ELSE app[c].height]

\* No consumer holds a block executed that a stop in the middle of an earlier block left.
NothingLeft ==
  \A c \in Consumers : app[c].final # 0 =>
    \/ phase \in {"finalizing", "finalized"} /\ c \in hashed
    \/ phase = "committing" /\ c \in todo \cap hashed

\* The process does not stop between FinalizeBlock and the end of Commit.
Undisturbed ==
  phase \in {"finalizing", "finalized", "committing"} => phase' \notin {"down", "halted"}

\* The node as AtomicBlocks sees it: a block is done at the provider's Commit.
Atomic == INSTANCE AtomicBlocks WITH
  height      <- provider.height,
  handlers    <- chainHandlers,
  rejected    <- rejectedConsumerChains,
  initialized <- initializedConsumerChains,
  known       <- providerGenesis,
  apps        <- [c \in Consumers |-> Standing(c)]

\* A block is one step: every served consumer that can execute it does, or will before
\* Commit returns, whatever the order of the goroutines and the loops, and the others are
\* left as they were.  But for a stop of the process in the middle of a block, while what it
\* left in a consumer is there, and after a chain with blocks was made to begin again by a
\* failed Info call, the node takes only steps of AtomicBlocks, and the block is that of the
\* chains that were active.
BlocksAreAtomic ==
  /\ Atomic!Init
  /\ [][(NothingLeft /\ Undisturbed /\ NeverInitializedAgain')
          => /\ [Atomic!Next]_(Atomic!vars)
             /\ provider'.height # provider.height => Atomic!Block(activeChains)]_vars

\* A consumer is asked to execute a block only with a genesis state, over restarts, late
\* initializations and lost answers - unless its Info answer has a hash before it has one:
\* InitializedIfNeeded is about those.
GenesisBeforeBlocks ==
  \A c \in waiting : c \in Hashed \/ app[c].genesis # "none"

\* When FinalizeBlock has returned, an active, configured consumer that did not reject the
\* block has executed it: a lenient one whatever it missed before, another one unless the
\* block is not the next one for it, as the second is not for a chain that InitChain told
\* to begin with the first.  A chain never executes when its hash hid that it has no
\* genesis.  HashCoversCommitted takes it from there to Commit.
ServedExecutes ==
  phase = "finalized" =>
    \A c \in (activeChains \cap chainHandlers) \ rejectedConsumerChains :
      \/ c \in hashed /\ app[c].final = decided
      \/ c \notin Lenient /\ app[c].genesis # "none" /\ NextBlock(c) # decided
      \/ c \in Hashed /\ app[c].genesis = "none"

\* Every block consensus decides is committed by this node in the end, over halts, restarts
\* and replays, and the node does not fall behind for good: it gets to the last height.
DecidedIsCommitted ==
  /\ \A h \in 1 .. MaxHeight : (decided = h) ~> (provider.height >= h)
  /\ <>(provider.height = MaxHeight)

-----------------------------------------------------------------------------
(* What comments of the code say *)

\* abci.go:13-14: "consumer chains, regardless when they are started will share the same
\* block height as the provider chain".
SharesProviderHeight ==
  Committed =>
    \A c \in initializedConsumerChains \cap activeChains : app[c].height = provider.height

\* abci.go:337: "Mark skipped transactions": every transaction a chain did not execute
\* is answered with "transaction skipped".
SkippedIsMarked ==
  phase = "finalized" => \A i \in DOMAIN block : txResults[i] # Missing

\* multiplexer.go:527: initChainIfNeeded "initializes a chain if it hasn't been initialized
\* yet", so whoever is asked to execute a block has a genesis state.
InitializedIfNeeded ==
  \A c \in waiting : app[c].genesis # "none"

\* multiplexer.go:82: the validators "from the provider's InitChain response" are stored
\* "for use with consumer chains", and those of the genesis document "will be overwritten
\* by" them (multiplexer.go:206): no consumer is initialized with the latter.
GenesisHasValidators ==
  \A c \in Consumers : app[c].genesis # "fallback"

=============================================================================
