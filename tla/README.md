# TLA+ verification of ICS PoC no. 1

TLA+ models, TLC configurations and TLAPS proofs for the interchain-security
proof of concept in `src/`. Paths below are relative to `src/` unless they name
a file of this directory. `PROJECT.json` is the machine-readable side: the
components, the runs, the source lines every definition stands for, the
findings, the hazards and the theorems.

## 1. The system

One process per node, started by `cmd/start.go`, holds CometBFT, the provider
chain and the *multiplexer*. The multiplexer is CometBFT's only ABCI
application. It gives each transaction to the chain named in its header
(`ICS:<chain_id>:<payload>`): to the provider by a function call, to a consumer
chain by gRPC. Consumers run in processes of their own and have no consensus.
Which consumers take part in a block is the provider's decision: its module
keeps a registry of consumer chains and charges them per block.

```
   CometBFT --ABCI--> Multiplexer --function calls--> provider chain (registry, fees)
                          |   ^---- ActiveConsumerChains (committed state) ----+
                          +--gRPC--> consumer c1        each with its own store
                          +--gRPC--> consumer c2        and its own crashes
```

### Components

| component | state | operations | correct when |
|---|---|---|---|
| ABCI handlers, `abci/abci.go` | the fields of `Multiplexer`: handlers, rejected, initialized and active chains, genesis validators and params; locals of the call | InitChain, ProcessProposal, FinalizeBlock, Commit; the rest reads or forwards | no consumer is ahead of the provider; results and application hash match what was executed; a rejecting chain is left alone; decided blocks are committed |
| chain registry and lifecycle, `abci/multiplexer.go` | the same fields; connections; servers | Start, loadGenesisValues, initChainHandlers, updateActiveChains, initChainIfNeeded, Stop | a chain is initialized once, before its first block, with the provider's validators; what is active is what the provider says |
| gRPC client, `abci/remote.go` | none | one forwarding method per ABCI call, no deadline | - |
| header, `abci/header.go` | none | ParseHeader, CreateTransactionHeader, ValidateTransaction | parsing what was created returns the chain id and payload |
| provider module, `modules/provider` | Params, ConsumerChains; balances of the module accounts | BeginBlock, UpdateParams, AddConsumer, SunsetConsumer, UpgradeConsumer, genesis | fees are conserved; ACTIVE means paid; no chain starts before its height; a SUNSET chain is at most REMOVED |
| consumer staking wrapper, `modules/consumer/staking` | the SDK's | drops validator updates; slashing and jailing do nothing | a consumer never changes its validators after genesis |
| configuration and command, `config`, `cmd`, `abci/genesis.go` | `ics.toml` | load, validate, start, stop | what was opened is closed, in an order in which nothing uses it any more; a signal ends the process |
| test applications, generated code, mocks | - | - | not modelled |

### Hard behaviours

* *Concurrency.* FinalizeBlock and InitChain call the consumers from parallel
  goroutines and collect answers in any order; loops run over Go maps, in any
  order; a chain may crash while the node goes on. CheckTx and Query come over
  other connections and read the same maps without a lock.
* *State of two moments.* FinalizeBlock and Commit select their chains
  separately. The rejected chains are those of the last proposal the node saw,
  not of the decided block. The active chains are the provider's of the block
  before. The initialized chains are what this process remembers.
* *Failure.* A consumer's error is logged and the block goes on without it; the
  provider's stops the node. An answer may be lost after its effect.
* *Restarts.* Everything the multiplexer knows is lost. It asks a consumer's
  Info whether it has state, which a height or an application hash may say. A decided block whose provider Commit is missing is
  executed again; one whose consumer Commit is missing is not.
* *Local differences.* Rejections, failures and restarts are events of one node,
  yet they change the application hash all nodes must agree on.

`PROJECT.json` lists 39 hazards at their lines, with the properties about them. A
property is not always one that excludes the hazard: some are violated by it, in a run
that expects so, and some hold only because they except it. The note of the hazard says
which, and where no property is about it, why.

## 2. Modules

| module | what it is |
|---|---|
| `SharedHeight` | abstract: a leader that goes one height at a time, followers that only catch up |
| `AtomicBlocks` | abstract: a node that executes a block on all its chains in one step |
| `Multiplexer` | one node: ABCI handlers, provider, consumers, crashes and restarts |
| `MCMultiplexer` | values of its constants for TLC |
| `MultiplexerProofs` | theorems about `Multiplexer` |
| `AgreementProofs` | theorems about `Multiplexer` that need certain calls not to fail |
| `Provider` | the provider module: registry, messages, fees |
| `MCProvider`, `ProviderProofs` | its values for TLC, its theorems |
| `Sums` | theorems about sums over finite sets, for the fees |
| `Replicas` | several nodes on one consensus, composed with `Provider` |
| `MCReplicas`, `ReplicasProofs` | its values for TLC, its theorems |
| `NodeProofs` | theorems about each node of `Replicas`: `AtomicBlocks` is implemented |
| `CompositionProofs` | the provider inside `Replicas` is the one of `Provider` |
| `Header` | the header of a transaction |
| `Lifecycle` | a node's process from its command to its exit, with CheckTx; extends `Header` |
| `MCLifecycle`, `LifecycleProofs` | its values for TLC, the theorems of both |

### Multiplexer

`phase` says which ABCI call is under way; CometBFT's consensus connection makes
one at a time. An action is a handler up to the point where it hands work to
other processes, one answer, or the handler's return:

| code | actions |
|---|---|
| Start, startNativeProvider, loadGenesisValues, initChainHandlers | `Start` |
| InitChain | `InitChain` (provider and dispatch), `InitChainResult(c)` per result, `InitChainReturns`; `InitChainFails` |
| ProcessProposal | `ProcessProposalRejects(b)`, `ProcessProposal(b)`, `ProcessProposalResult(c)`, `ProcessProposalReturns` |
| FinalizeBlock | `FinalizeBlockFails`, `FinalizeBlock` (up to the loop, with updateActiveChains), `LoopSkips/LoopDispatches/LoopInitializes(c)` for the loop with initChainIfNeeded, `FinalizeBlockResult(c)`, `FinalizeBlockReturns` |
| Commit | `Commit` (provider), `CommitResult(c)`, `CommitReturns`; `CommitFails` |
| CometBFT (external) | `Decide(b)`, `Finalizable`, `Proposable(b)`, `Halt`, `Crash` |
| consumer applications (external) | `AppInitChain`, `AppFinalizeBlock`, `AppCommit`, `AppRestart`, `ConsumerCrash` |

A transaction is the chain id ParseHeader returns, or `Unparsable`. A result is
the chain it comes from, `Skipped`, or `Missing` for a nil entry. The application
hash is the set of chains whose hash it contains. The wait for all FinalizeBlock
answers is `FinalizeBlockReturns`, enabled when no answer is outstanding. The code
fills provider results and the skipped marks after it started the goroutines and
before it reads their answers; nothing reads the response in between, so the
model fills them when it categorises the transactions.

A consumer application keeps its last committed `height`, what it has `final`ised
and not committed, the `initial` height it was told, and where its `genesis`
came from. `Lenient` consumers execute any block; the others, as the ABCI
applications of the Cosmos SDK commonly do, only the block after their last one.
Which of the two the consumers of this repository are is decided by the SDK they
are built with, outside `src/`, so both kinds are in the model and nothing is
claimed that holds for one kind alone without saying so.

`Hashed` are the consumers whose Info answer carries an application hash before their
first block, as stores of the SDK answer the hash of the empty store. The code takes the
hash for state (`HasState`, multiplexer.go:541), so it never initializes such a chain in
FinalizeBlock, whether the chain had an InitChain before or not. One that had none gets
blocks without a genesis: `mux_no_genesis` shows it, and the properties about genesis
states except it, by name.

What may go wrong is bounded and named: `Troubles` is the set of kinds, at most
`MaxTroubles` of them happen. The provider's rejection of a proposal and an
undecodable proposal are not troubles: they may happen at any time. Which blocks
are decided does not depend on what this node saw in ProcessProposal: a block may
be of another round, and a node that replays saw no proposal. A chain with state gets
an InitChain of the loop only when its Info call failed, so a trouble of that InitChain
counts twice (`InitChainTrouble`).

`AtomicBlocks` is what a node promises in one step per block: with the chains active for
it, every served chain that can execute the block has executed and committed it, the
served chains count as initialized, and the others are as they were. `Atomic` maps a node
to it at the provider's Commit: a consumer that is in the hash and still to commit counts
as having committed (`Standing`), and a genesis without blocks that this process does not
know of counts as none, for it will be replaced - unless the chain is one of `Hashed`,
whose genesis, or lack of one, stays. A stop
between FinalizeBlock and the end of Commit is no step of `AtomicBlocks`: consumers stay
behind, or keep a block executed that a later Commit may reach. So `BlocksAreAtomic`
excepts that stop (`Undisturbed`) and what it leaves (`NothingLeft`), besides chains that a
failed Info call made begin again. The process may stop at any other time, in the middle
of InitChain or of a proposal as well. A step that ends a block must be `Block` with the
chains that were active for it, so a chain that executed the block and is left out of
Commit violates the property.

### Provider

A block is a BeginBlock and any number of messages. `Deliver` is the common frame
of the messages, `Fund` a bank transfer to a consumer's module account. Balances
are of the fee denomination. Refused messages change nothing and are left out;
a failed BeginBlock stops the node (`halted`) and leaves the last block's state.
`UpdateParams` may change the fee, never its denomination.

### Replicas

`Multiplexer` looks at one node with everything that may fail inside its calls.
`Replicas` asks the question one node cannot answer: do the nodes, which execute
the same decided blocks, give consensus the same hash? A call is one step here and
succeeds; what is left are the differences between healthy nodes.

| code | definitions |
|---|---|
| InitChain, on every node, with the chains it reaches | `Init`, `GenesisMemory`, `GenesisEntry` |
| Start of a new process | `Restart(n)` |
| PrepareProposal, ProcessProposal | `Propose(n, b)`, `ProcessProposal(n, p)`, `Rejecting` |
| FinalizeBlock and Commit | `ExecuteBlock(n)`, `BlockEntry`, `Served`, `Fresh`, `Initialized` |
| the provider's part of a block: BeginBlocker, messages, the query of active chains | `Decide(p)`, `Deliver`, `ActiveConsumerChains`, `EndBlock`, over an instance of `Provider` |
| CometBFT (external) | `Decide(p)`: a quorum accepted `p` in some round; `CanExecute(n)`: a node whose hash is not the agreed one stops |

`memory[n]` holds the fields of a process, `log[n]` what it executed: for each
block the fields it was executed with, the consumers that answered, and the state of
all consumers after it. The provider is deterministic, so one instance, advanced
when a block is decided, stands for that of every node; `ledger` keeps the active
chains of each height for the nodes that come later. The combined hash (`Hash`) is the
sequence of the states of the chains that answered, in the order of their ids (`Sorted`):
as in the code it does not say whose they are, so nodes on which different chains
answered may agree on it and go on. The properties compare the answers themselves
(`SameAnswers`). Two fields of `memory` are not the code's: the block
the process was asked about last, and whether it has been `regular` so far, that is,
not restarted and always asked last about the block it executes. `Hashed` is that of
`Multiplexer`.

`Node(n)` maps each node to `AtomicBlocks`: its fields, its height, and for each consumer
the genesis that counts and the last block executed. So the step `Replicas` takes for
granted and the many steps of `Multiplexer` are tied to the same specification.

### Header and Lifecycle

Bytes are sequences of the parts between colons, so that a chain id with a colon
and a payload with one are both in the model, and `Transaction` (the created header
followed by the payload), `HasHeader`, `ChainID` and `Payload` (the results of
ParseHeader) are what the code computes.

`Lifecycle` follows the main goroutine by `pc` from LoadConfig to the end of Stop;
each step that may fail has a disjunct for it, and a failure or a panic goes to the
deferred Stop.

| code | actions |
|---|---|
| `config.go`, `cmd/main.go`, `cmd/start.go` | `LoadConfig`, `StartCommand`, `Return`, `Stop` |
| startNativeProvider | `OpenTrace`, `OpenDB`, `CreateProvider`, `LoadGenesis` |
| initChainHandlers | `InitChainHandler` per entry, `InitChainHandlersReturns` |
| startCmtNode | `NewNode`, `NewNodeReturns`, `StartNode` |
| enableGRPCAndAPIServers, startGRPCServer | `LocalClient`, `StartGRPCServer`, `StartAPIServer` |
| getCtx and the errgroup | `Signal`, `ServerStops(t)`, `ServerFails(t)`, `Wait` |
| Stop | `StopCometNode`, `StopCometNodeFails` (CometBFT's Stop returns an error and is not waited for), `CloseProvider`, `CloseConns`, `StopTraceWriter` |
| a handler's calls to consumers, without a deadline | `CallConsumer(c)`, `CallEnds`; the handshake and the stop of CometBFT wait for `call = None` |
| InitChain and initChainIfNeeded, as far as CheckTx sees them | `InitializeConsumer`, `MarkInitialized` |
| CheckTx | `CheckTx(tx)` up to the first lookup, `CheckTxCalls` from the second on |
| the data race of the two (external) | `MapRace`: the runtime ends the process; or `CheckTxCalls` sees the old or the new map |

Outcomes tell how a run ends. Two faults the code has are part of the model and
visible in the statements: a Start that fails after the gRPC server or parts of
CometBFT run lets Stop close the provider under them, so `NoUseAfterClose` is about
a Start that came as far as its wait, and it excepts an error of CometBFT's own Stop,
after which the code closes the provider without waiting (`stopError`); the gateway's client and the connection of a
duplicate id are never closed, so `StopReleases` excepts them.

## 3. Runs

Constants not named are in the cfg files. `replicas` takes about two minutes,
all other runs together about one.

| run | what it shows |
|---|---|
| `mux_safety` | Three heights, two configured consumers of which one is lenient, three blocks (every chain once; provider alone; undecodable), two troubles of eight kinds. Heights in order, `SharedHeight` implemented, provider executes first, results exact, rejected chains left alone, no second InitChain |
| `mux_agreement` | Three blocks and the halt at halt-height 4, a consumer configured after a restart, three troubles, but no lost or failed calls of FinalizeBlock and Commit; one consumer is lenient, the other shows a hash in Info from the start: the hash covers exactly the chains that commit, blocks meet a genesis and every selected chain executes the block or has missed one before, both but for a chain whose hash hides that it has no genesis; served chains are active, and a block that is not cut short is one step of `AtomicBlocks` |
| `mux_progress` | Two heights, two troubles of any kind but the undecodable block: every decided block is committed, and the last height is reached |
| `provider_fees` | Two chains, two validators, four blocks: coins are conserved, rounding holds back less than a coin per validator, ACTIVE means paid, nothing starts early, retired chains stay retired |
| `replicas` | A validator and a full node, two consumers of which one is lenient, may reject and shows a hash in Info from the start, three heights: the answers hashed differ for named reasons only, nodes that run without incident agree, whoever executes has paid, and each node takes only steps of `AtomicBlocks` (2.1 million states) |
| `node_lifecycle` | Six configuration files (no chain, one, the provider's id, a duplicate, an id with a colon next to its first part, an incomplete entry), all 32 combinations of flags, four byte strings: closing order, delivery of transactions, the end after a signal if consumer calls end |

Three heights are what the interesting sequences need: the active chains are
first read at height 2, change at height 3, and a crash between two Commits has
then a block before and a block after. Two consumers are needed for one failing
while the other goes on; the code treats consumers independently but for the
loops' order. Two troubles allow a failure during the recovery from another.

In `replicas` two nodes are enough, since agreement is a statement about pairs; one
of them decides, so that the other can be of another opinion, see other rounds and
fall behind. Three heights let a chain be initialized at height 2, or by
InitChain, and a restart come before its first block. The consumers of a node run at
InitChain together or not at all (`MCReached`): what one missed InitChain does, the
other's would not add to. The first genesis has one
chain that can pay once and one that is overdue, so the active chains change with
the transfers; the second has no fees. In `node_lifecycle` the payload `w:w` for `c`
and the payload `w` for `c:w` are the same bytes.

`mux_agreement` leaves out `rpc`, `lost`, `query` and `consumerCrash`: with them the
hash and the committed chains do differ, as the code's error paths accept: it logs
and goes on. `mux_progress` leaves
out `block` and nothing else: an undecodable block, which correct validators refuse in
ProcessProposal, stops every node for good. It also sets no halt-height, at which a node
is meant to stay.

### Fairness (`mux_progress`)

Weak fairness of `Start` (a stopped node is started again), of the handlers' own
steps (`Run`), of the consumers' and the provider's answers. The calls of
`abci/remote.go` carry no deadline, so an answer is an assumption: a consumer that
keeps its connection open and never answers stops the node, and no code prevents
it. Strong fairness of `Decide`: CometBFT's rounds of one height may repeat, but
not for ever, a property of its consensus. No fairness of failures. The
property asks for the last height too: that every decided block is committed would
also be true of a node that stops deciding.

### Fairness (`node_lifecycle`)

Weak fairness of the main goroutine, of the write that makes a consumer initialized,
and of a server's return once its context is cancelled, which the SDK's servers
promise. No fairness of a signal: a process that gets none stays up, also after a
server failed. No fairness of a consumer's answer either: calls have no deadline, and one
that is never answered holds up the handshake in `NewNode` and the `Stop` and `Wait` of
CometBFT for ever. So `SignalEnds` has a premise: *if* calls keep ending
(`[]<>(call = None)`), a process that got its signal ends, wherever in Start or Stop it
was. Strong fairness of `NewNodeReturns` and of `StopCometNode`, which are enabled between
two calls only, says that CometBFT's handshake makes so many calls and no more, and that
its Stop is looked at before the next block.

### What the runs with an expected violation show

| run | statement | what the code does |
|---|---|---|
| `mux_shared_height` | abci.go:13-14, consumers share the provider's height | a consumer that rejects a proposal misses the block |
| `mux_skipped_marked` | abci.go:337, skipped transactions are marked | those of a configured, inactive chain have a nil result |
| `mux_late_genesis` | multiplexer.go:82 and 206, consumers get the validators of the provider's InitChain response | after a restart, those of the genesis document, for a consumer whose Info has no hash yet |
| `mux_no_genesis` | multiplexer.go:527, a chain is initialized if it has not been | not one whose Info has a hash before its first block: it gets blocks without a genesis |
| `mux_info_failure` | multiplexer.go:527-528, a chain is not initialized again after a restart | a failed Info call leads to InitChain |
| `provider_schedule` | provider.proto:40 and 46, PENDING and SUNSET are scheduled changes | no block applies them: the trace is of a SUNSET chain that stays, a PENDING one stays in the same way |

Each property that passes has a mutant in `PROJECT.json`: a variant of a definition
(`Bad...`, next to the definitions) with a mistake the code could have had, under
which the same run fails.

## 4. Proofs

`tlapm` on `Sums` and on each of the seven modules `*Proofs.tla` checks everything below. The
assumptions `MultiplexerAssumption`, `ProviderAssumption`, `ReplicasAssumption`,
`HeaderAssumption` and `LifecycleAssumption` fix the types of the constants; the
theorems of `AgreementProofs` assume besides that certain kinds are not in
`Troubles`. The theorems hold for any set of consumers, any nodes and quorums, blocks, configuration
files and byte strings, any number of heights and troubles. `Parameters`, the body of
`ProviderAssumption`, asks for finitely many consumers and validators, whose coins are
added up; `Replicas`, which contains a provider, asks for the same.

* `TypeCorrect`, by induction with one step per action. The record types of the
  provider and the consumers are named so that the lemma `AppTypes` covers every
  change of a consumer.
* `ConsumersStayBehind`. The invariant alone is not inductive: Commit copies what
  was finalised. `HeightInv` adds that what a chain has finalised is at most one
  above the provider's height and that, once the provider has committed, the rest
  of Commit deals with that height (`HeightsInOrder`). The lemma `StepKinds` reduces
  the actions to what they do to the heights, so that the induction has few
  cases.
* `Refinement`: `Multiplexer` implements `SharedHeight` with the provider as
  leader, step by step from `HeightInv`.
* `ProviderFirst`, an action property, from the same invariant.
* `ExactResults`, from `RoutingInv`: during FinalizeBlock a result already present
  is of the chain in the header whose hash is included, and the rejected and
  handled chains have not changed since the transactions were categorised.
* `RejectedUntouched`, an action property: the loop of FinalizeBlock and the
  targets of Commit never contain a rejected chain.

`ProviderProofs`:

* `RegistryCorrect` (types of registry and balances), `RetiredForGood`, `NothingStartsEarly`,
  `PaidIsActive`.
* `TypeCorrect`, `CoinsConserved` and `RoundingOnly`. The lemma `AccountSteps` reduces
  the actions to three: the accounts stay, a transfer comes in (`Fund`), or a
  `Payment(share)`, where every payer loses the fee, every validator gets its share,
  and the fee collector keeps what is collected less the sum of the shares. That this
  is never negative, which the type of the fee collector needs, is the hard part:
  `DistributionPays`, from `SharesOfTotal`. `PaymentSums` then adds up each side.
* `FairShares`: the share of a validator is exact but for less than one coin, and more
  power never gets less.

`Sums`. A sum is the community modules' fold over a set, in an order nobody knows. The
induction theorems of the library take an operator as their parameter, which the provers
cannot instantiate; `SubsetInduction` and `SetInduction` take a *set* instead, the set of
those subsets for which the claim holds, and follow from the well-foundedness of the
strict subsets of a finite set. From them: `SumsUnfold` (the fold satisfies its recursion),
`SumRemove` (any member may be taken out first), sums of sums, multiples and parts.
`SharesOfTotal` multiplies by the total weight p: p times the shares is at most p times
the total and falls short by at most p - 1 for each share, so the total exceeds the
shares by less than their number.

`AgreementProofs`, each with the troubles that must not happen:

* `InitializedOnce` (no failed Info): InitChain of all consumers comes before the
  provider's first commit, and the one of initChainIfNeeded after an Info answer
  without state.
* `GenesisFirst` (no crash of a consumer), from `GenesisInv`: what the process holds
  initialized and is not of `Hashed`, and what has blocks, has a genesis. A chain of
  `Hashed` may count as initialized without one, as `mux_no_genesis` shows, and the theorem
  excepts those. Lost answers and restarts of the
  node do no harm.
* `HashIsExact` and `SelectedExecute` (no failed call, lost answer or crash of a
  consumer), from `HashInv`: during FinalizeBlock every selected consumer is still to
  be dealt with, waited for, in the hash with the block executed, or unable to execute
  it - because it is strict and the block is not its next one, or because it has no
  genesis and its hash hid that; during Commit a consumer in the hash commits this block and no other does. A
  block executed before a crash and never committed has to be carried along, for a
  later Commit may reach it (`ExecutedInv`): it is never the current one.
* `OneStepIsEnough` (the same troubles left out), from the same invariant: when
  FinalizeBlock has returned, the hash covers exactly the selected consumers that can
  execute the block, all of which have, and every selected consumer counts as
  initialized. This is `BlockEntry` of `Replicas`, where the goroutines, the wait and
  the loop over the chains are one step.
* `BlocksImplementAtomicBlocks` (the same troubles left out): `Multiplexer` implements
  `AtomicBlocks`, but for what `BlocksAreAtomic` excepts. The provider's Commit is the
  block, by `OneStepIsEnough`; a consumer's own Commit, later, changes nothing any more,
  since the block it commits is the current one. Initializations, by InitChain or in the
  loop of FinalizeBlock, are steps of their own; everything else is a stutter. `FieldsInv`
  says that what a process rejects or initializes it has a handler for. `Hashed` is any
  set of consumers, in the mapping as in the code: `AtomicBlocks` says in one step that
  such a chain is served as it is, with or without a genesis.
* `CalmNodesImplementAtomicBlocks` (failed Info calls left out too): behaviours in which
  nothing stops the process in the middle of a block (`CalmSpec`) implement `AtomicBlocks`
  without exception. That nothing is left in a consumer is then an invariant.
* `ActiveServed` (no failed query), an action property, from `ActiveInv`.

`ReplicasProofs`:

* `OnlyPaidIsServed`, from `PaidInv`, across the two modules: ACTIVE in the block under
  way implies settled; the ledger keeps both; a consumer executes only what the ledger
  held it active for.
* `DisagreementHasCause`. Agreement at height h would follow by induction over heights,
  which the provers cannot do. Two invariants take its place: `EntryInv`, every
  entry of a log is a function (`EntryOf`) of the recorded fields and the entry before,
  and `AgreeInv`, entries of nodes that knew the same so far are the same; a step adds one
  entry to one log, and `SameBlock` shows that one block keeps equal states equal. The
  statement is about what is hashed, not about the bytes: from unequal bytes unequal
  answers follow, but not the other way round, since the hash is a concatenation.
* `RegularAgree`, in the same way, from `RegularInv`: the fields with which a regular
  process executes a block are a function of those before and of the decided block.
* `NodesTypeCorrect`: the types of consensus and of the nodes.

`NodeProofs`:

* `NodesImplementAtomicBlocks` and `EachNodeIsAtomic`: every node implements
  `AtomicBlocks`, step by step. A log has the blocks a consumer executed, `AtomicBlocks`
  only the last one; `LastInv` says that there is a last one and that it is not above the
  node's height, without which neither could be told from the other. `BlockStanding` is
  the heart: what a block makes of a chain, in terms of its last block.

`CompositionProofs`:

* `ProviderInside`: `Replicas` implements `Provider`, with no mapping needed since the
  variables are the same: the initial states are the provider's, `Decide` with its
  BeginBlock and the messages are provider steps, and all others leave the provider's
  variables alone.
* `TypeCorrect` and `PromisesInside` carry what `ProviderProofs` shows over to the
  composition. `Replicas` has its own copy of the definitions of `Provider`
  (`Registry!`), the theorems come with another (`Proved!`); the lemmas `Same...` show
  that the two say the same, and `AllowedParameters` that the constants of `Replicas`
  are allowed ones.

`LifecycleProofs`:

* `HeaderRoundTrip`: parsing what was created returns id and payload, for ids without
  a colon, and, by `HeaderTakesFirstPart`, for no others: of an id with colons the first
  part is taken for the id and the rest becomes payload. `Delivery` carries it through CheckTx and the two lookups (`CheckInv`).
* `TypeCorrect`, with the distinct ids of registered handlers.
* `ClosedIsUnused` and `Releases`, from `StageInv`: what is open at each stage of Start
  and Stop.
* `HandlersAreFixed`: the map that CheckTx and Query read without a lock is not
  written any more when CometBFT starts.

Only model-checked: liveness (`DecidedIsCommitted`, `SignalEnds`), which is out of the
provers' reach. Every invariant and every action property of a passing run is a theorem;
the definitions behind the runs with an expected violation are false and stay with TLC.

## 5. What could come next

For `Multiplexer`, a version of `AtomicBlocks` that says what a stop in the middle of a
block leaves behind; for `Replicas`, agreement of restarted nodes under conditions on what
their consumers' Info answers.

## 6. Not modelled

Info, Query, vote extensions and snapshots keep no state and answer with constants or
another chain's answer; so Info's answer, the provider's own hash, is not compared with
the combined hash: CometBFT's handshake does that, not this code. Events, gas,
RetainHeight and the contents of results are data no property tells apart. halt-time
stops the node in the same place as halt-height. Reading of configuration and genesis
files is I/O: it succeeds or fails. Nothing calls ValidateTransaction. Names,
versions and addresses of consumer chains are left out of the registry;
`modules/provider/keeper/msg_server.go` stores an upgraded chain unchanged, so the
version plays no part. Export of the provider's genesis is not an operation of the
running system.

The consumer staking wrapper (`modules/consumer/staking`) has no state: it overrides
methods of the SDK's staking module with no-ops, and what that does to a consumer is
decided by the SDK. Generated protobuf code, the gateway and the mocks (about half of
the Go code) and the wiring of the two test applications (a quarter of it) have no
logic of the system. What remains, the multiplexer, its command and configuration and
the provider module, is modelled but for registration with the SDK and command-line
descriptions.
