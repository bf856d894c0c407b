------------------------------ MODULE Replicas ------------------------------
(***************************************************************************)
(* Several nodes, each with a multiplexer, a provider and its consumers,   *)
(* on top of one consensus.  Every node executes the same decided blocks   *)
(* and must give consensus the same combined hash for each.  Multiplexer   *)
(* looks at one node with all that may fail inside its calls; here a call  *)
(* is one step that succeeds, and what remains are the differences between *)
(* healthy nodes: other rounds, late nodes, restarts between two calls,    *)
(* other configurations, consumers that run too late for InitChain.        *)
(*                                                                         *)
(* The provider chain is deterministic, so one instance of Provider,       *)
(* advanced when a block is decided, stands for that of every node.        *)
(* Consensus and the consumer applications are not part of the repository. *)
(***************************************************************************)
EXTENDS Integers, FiniteSets, Sequences

CONSTANTS
  Nodes,
  Quorums,      \* sets of nodes with more than two thirds of the voting power
  Consumers,
  Sorted,       \* the consumers in the order of their ids
  Lenient,      \* consumers whose application executes a block after missing some
  Hashed,       \* those whose Info answer has an application hash before any block
  Blocks,       \* bound: blocks, [txs, invalid]: chains with a transaction, or a bad one
  NoBlock,      \* no block asked about, none being executed
  Configs,      \* bound: Configs[n], the sets of chains node n may be configured with
  Reached,      \* bound: the consumers that run when InitChain is called
  \* the provider's
  Validators, Fees, BondedSets, Geneses, BlockHeights, MaxHeight, MaxFunds

VARIABLES
  \* consensus
  proposals,  \* proposals of any round of the height being decided
  votes,      \* votes[n]: those n accepted
  decided,    \* the decided one while the provider's part of it is executed, or NoBlock
  ledger,     \* the blocks done, with what the provider's committed state says after each
  settled,    \* chains that owe nothing for the block under way
  \* the multiplexers
  memory,     \* fields of the Multiplexer structs
  log,        \* what each node executed: InitChain first, then a block each
  \* the provider chain
  height, halted, ConsumerChains, feesPerBlock, balance, feeCollector, received

consensusVars == <<proposals, votes, decided, ledger, settled>>
providerVars == <<height, halted, ConsumerChains, feesPerBlock, balance, feeCollector, received>>
vars == <<consensusVars, memory, log, providerVars>>

Registry == INSTANCE Provider WITH ChainIds <- Consumers, TransfersFail <- FALSE

\* Fields of a Multiplexer, but for activeChains, which every block sets anew.  The last
\* two are none: asked is the block of the last proposal this process was asked about at
\* its height, and regular holds until the node is restarted, or executes a block that
\* it was not asked about last.
Memory == [handlers : SUBSET Consumers, rejected : SUBSET Consumers,
           initialized : SUBSET Consumers, providerGenesis : BOOLEAN,
           asked : Blocks \cup {NoBlock}, regular : BOOLEAN]

\* A consumer application: whose genesis validators and params its InitChain carried, the
\* first height it was told, and the blocks it executed and committed.
Application == [genesis : {"none", "provider", "document"}, initial : Nat, executed : SUBSET Nat]

ASSUME ReplicasAssumption ==
  /\ Quorums \subseteq SUBSET Nodes
  /\ Sorted \in Seq(Consumers)
  /\ \A c \in Consumers : \E i \in DOMAIN Sorted : Sorted[i] = c
  /\ \A i, j \in DOMAIN Sorted : Sorted[i] = Sorted[j] => i = j
  /\ \A b \in Blocks : b.txs \subseteq Consumers /\ b.invalid \subseteq b.txs
  /\ Configs \in [Nodes -> SUBSET SUBSET Consumers]
  /\ Reached \subseteq SUBSET Consumers
  /\ NoBlock \notin Blocks
  /\ Registry!Parameters

-----------------------------------------------------------------------------
\* Blocks a node has committed.
Height(n) == Len(log[n]) - 1

\* What the consumers add to the combined hash: a hash of the state of each that answered,
\* one behind the other in the order of the ids, and not a word on whose they are.  The
\* provider's comes first and is the same on every node.
Hash(e) ==
  LET answered == SelectSeq(Sorted, LAMBDA c : c \in e.answered)
  IN  [i \in DOMAIN answered |-> e.apps[answered[i]]]

Apps(n) == log[n][Len(log[n])].apps

\* The active chains of FinalizeBlock: none at the first block, else the provider's of the
\* block before.
Active(h) == IF h > 1 THEN ledger[h - 1].active ELSE {}

Idle == decided = NoBlock

\* Validators; the other nodes follow, and are asked about proposals all the same.
Voters == UNION Quorums

-----------------------------------------------------------------------------
(* Variants with a mistake, one of which takes a definition's place to test a property *)

BadHasState(apps, c)    == FALSE                          \* no Info call
BadRejecting(n, p)      == memory[n].rejected \cup {c \in memory[n].initialized : c \in p.block.invalid} \* not cleared
BadServed(m, h)         == Active(h) \ m.rejected      \* handlers not looked up
BadActiveConsumerChains == \* overdue chains get another chance
  {c \in DOMAIN ConsumerChains : ConsumerChains[c].status \in {"ACTIVE", "OVERDUE"}}

-----------------------------------------------------------------------------
(* InitChain and restarts *)

Unborn == [genesis |-> "none", initial |-> 0, executed |-> {}]

\* InitChain of a process configured with handlers, when the reached consumers run.
GenesisMemory(handlers, reached) ==
  [handlers |-> handlers, rejected |-> {}, initialized |-> reached,
   providerGenesis |-> TRUE, asked |-> NoBlock, regular |-> TRUE]

GenesisEntry(handlers, reached) ==
  [memory   |-> GenesisMemory(handlers, reached),
   answered |-> reached,
   apps     |-> [c \in Consumers |-> IF c \in reached
                   THEN [genesis |-> "provider", initial |-> 1, executed |-> {}] ELSE Unborn]]

Init ==
  /\ proposals = {} /\ votes = [n \in Voters |-> {}] /\ decided = NoBlock
  /\ ledger = <<>> /\ settled = {}
  /\ \E handlers \in [Nodes -> SUBSET Consumers] :
       \E reached \in [Nodes -> Reached] :
         /\ \A n \in Nodes : handlers[n] \in Configs[n] /\ reached[n] \subseteq handlers[n]
         /\ memory = [n \in Nodes |-> GenesisMemory(handlers[n], reached[n])]
         /\ log = [n \in Nodes |-> <<GenesisEntry(handlers[n], reached[n])>>]
  /\ Registry!Init

\* A new process of a node that has committed a block: the maps are empty and the
\* genesis values are those of the genesis document.  Its consumers keep running.  Before
\* the first block a new process calls InitChain again: one of the initial states.
Restart(n) ==
  /\ Idle /\ Height(n) > 0
  /\ \E handlers \in Configs[n] :
       memory' = [memory EXCEPT ![n] =
         [handlers |-> handlers, rejected |-> {}, initialized |-> {},
          providerGenesis |-> FALSE, asked |-> NoBlock, regular |-> FALSE]]
  /\ UNCHANGED <<consensusVars, log, providerVars>>

-----------------------------------------------------------------------------
(* Proposals *)

\* PrepareProposal keeps the transactions it is given; CometBFT adds the hash the last
\* block had on the proposer.
Propose(n, b) ==
  /\ Idle /\ n \in Voters
  /\ Height(n) = Len(ledger) /\ Height(n) < MaxHeight
  /\ proposals' = proposals \cup {[block |-> b, hash |-> Hash(log[n][Height(n) + 1])]}
  /\ UNCHANGED <<votes, decided, ledger, settled, memory, log, providerVars>>

\* Chains among those asked that refuse a proposal: asked are the configured chains that
\* this process has initialized and that have a transaction in it.
Rejecting(n, p) ==
  memory[n].handlers \cap memory[n].initialized \cap p.block.invalid

\* ProcessProposal, in some round of the height this node is at; consensus asks only
\* about a proposal whose hash is this node's.
ProcessProposal(n, p) ==
  /\ Idle
  /\ Height(n) = Len(ledger)
  /\ p.hash = Hash(log[n][Height(n) + 1])
  /\ memory' = [memory EXCEPT ![n].rejected = Rejecting(n, p), ![n].asked = p.block]
  /\ votes' = [v \in Voters |-> IF v = n THEN votes[v] \cup {p} ELSE votes[v]]
  /\ UNCHANGED <<proposals, decided, ledger, settled, log, providerVars>>

-----------------------------------------------------------------------------
(* A decided block: the provider's part of it, the same on every node *)

\* A quorum accepted a proposal, in whatever round; the provider's BeginBlocker collects
\* the fees.
Decide(p) ==
  /\ Idle
  /\ {n \in Voters : p \in votes[n]} \in Quorums
  /\ decided' = p
  /\ proposals' = {} /\ votes' = [n \in Voters |-> {}]
  /\ \/ /\ Registry!BeginBlockFree
        /\ settled' = Consumers
     \/ /\ \E bonded \in BondedSets : Registry!BeginBlock(bonded)
        /\ settled' = Registry!Payers
  /\ UNCHANGED <<ledger, memory, log>>

\* Messages and transfers, but for those of the last block, which no node gets to see.
Deliver ==
  /\ ~Idle /\ height < MaxHeight
  /\ Registry!Messages
  /\ UNCHANGED <<consensusVars, memory, log>>

\* The provider's answer to ActiveConsumerChains.
ActiveConsumerChains ==
  {c \in DOMAIN ConsumerChains : ConsumerChains[c].status = "ACTIVE"}

EndBlock ==
  /\ ~Idle
  /\ ledger' = Append(ledger, [block |-> decided.block, hash |-> decided.hash,
                               active |-> ActiveConsumerChains, settled |-> settled])
  /\ decided' = NoBlock
  /\ settled' = {}
  /\ UNCHANGED <<proposals, votes, memory, log, providerVars>>

-----------------------------------------------------------------------------
(* FinalizeBlock and Commit of one node *)

HasState(apps, c) == apps[c].executed # {} \/ c \in Hashed

Served(m, h) == (Active(h) \cap m.handlers) \ m.rejected

\* initChainIfNeeded: InitChain at this height, for the chains without state.
Fresh(m, apps, h) == {c \in Served(m, h) \ m.initialized : ~HasState(apps, c)}

Initialized(m, apps, h) ==
  [c \in Consumers |->
     IF c \in Fresh(m, apps, h)
     THEN [genesis |-> IF m.providerGenesis THEN "provider" ELSE "document",
           initial |-> h, executed |-> {}]
     ELSE apps[c]]

\* A lenient application executes any block, another one the next after its last, or the
\* first it was told.
Executable(c, a, h) ==
  /\ a.genesis # "none"
  /\ \/ c \in Lenient
     \/ IF a.executed = {} THEN h = a.initial ELSE h - 1 \in a.executed

\* What a process with these fields makes of the block at height h.  The loops over the
\* served chains, FinalizeBlock and Commit in turn, are one step.
BlockEntry(m, apps, h) ==
  LET begun    == Initialized(m, apps, h)
      answered == {c \in Served(m, h) : Executable(c, begun[c], h)}
  IN  [memory   |-> [m EXCEPT !.asked = NoBlock],
       answered |-> answered,
       apps     |-> [c \in Consumers |->
                      IF c \in answered THEN [begun[c] EXCEPT !.executed = @ \cup {h}] ELSE begun[c]]]

\* CometBFT hands a node the next block, unless the hash agreed on for the one before is
\* not the node's: then it stops.
CanExecute(n) ==
  /\ Idle /\ Height(n) < Len(ledger)
  /\ ledger[Height(n) + 1].hash = Hash(log[n][Height(n) + 1])

ExecuteBlock(n) ==
  LET h == Height(n) + 1
      m == [memory[n] EXCEPT !.regular = @ /\ memory[n].asked = ledger[h].block]
  IN  /\ CanExecute(n)
      /\ log' = [log EXCEPT ![n] = Append(@, BlockEntry(m, Apps(n), h))]
      /\ memory' = [memory EXCEPT ![n] =
           [m EXCEPT !.initialized = @ \cup Served(m, h), !.asked = NoBlock]]
      /\ UNCHANGED <<consensusVars, providerVars>>

-----------------------------------------------------------------------------

Next ==
  \/ \E n \in Nodes : Restart(n) \/ ExecuteBlock(n)
  \/ \E n \in Nodes, b \in Blocks : Propose(n, b)
  \/ \E n \in Nodes, p \in proposals : ProcessProposal(n, p)
  \/ \E p \in proposals : Decide(p)
  \/ Deliver \/ EndBlock

Spec == Init /\ [][Next]_vars

-----------------------------------------------------------------------------
(* Properties *)

\* Consensus' variables and the nodes' stay within their types; a process rejects and
\* initializes only chains it has a handler for, and is never ahead of the ledger.
NodesOK ==
  /\ \A p \in proposals : p.block \in Blocks
  /\ votes \in [Voters -> SUBSET proposals]
  /\ decided # NoBlock => decided.block \in Blocks
  /\ \A h \in DOMAIN ledger : ledger[h].active \cup ledger[h].settled \subseteq Consumers
  /\ memory \in [Nodes -> Memory]
  /\ \A n \in Nodes : memory[n].rejected \cup memory[n].initialized \subseteq memory[n].handlers
  /\ \A n \in Nodes : Height(n) \in 0 .. Len(ledger)

\* So do the provider's, as Provider says.
TypeOK == NodesOK /\ Registry!TypeOK

\* The active chains a node left out of a block: they rejected it there, or it is not
\* configured with them.
LeftOut(e, h) == Active(h) \ Served(e.memory, h)

\* Served chains without a block, of which Info says nothing: the process knows whether
\* it initialized them, and begins those it did not.
Unstarted(e, apps, h) == {c \in Served(e.memory, h) \ Hashed : apps[c].executed = {}}
Begun(e, apps, h)     == Unstarted(e, apps, h) \cap e.memory.initialized
Newborn(e, apps, h)   == Unstarted(e, apps, h) \ e.memory.initialized

\* Two nodes knew the same when they executed the block at height h.
KnewTheSame(n, m, h) ==
  LET e == log[n][h + 1]  a == log[n][h].apps
      f == log[m][h + 1]  b == log[m][h].apps
  IN  /\ LeftOut(e, h) = LeftOut(f, h)
      /\ Begun(e, a, h) = Begun(f, b, h)
      /\ (Newborn(e, a, h) # {} => e.memory.providerGenesis = f.memory.providerGenesis)

\* The same chains answered, in the same states: the combined hashes are equal then, and
\* may be in other cases too.
SameAnswers(e, f) ==
  /\ e.answered = f.answered
  /\ \A c \in e.answered : e.apps[c] = f.apps[c]

\* Nodes that were initialized with the same chains have the same answers to hash for a
\* block unless, at that block or before, they left different chains out, or one had
\* forgotten in a restart that it had initialized a chain without blocks, or they gave a
\* chain its genesis from different values.  A restart, a late node and a missed proposal
\* make no other difference.
DivergenceHasCause ==
  \A n, m \in Nodes :
    \A h \in 0 .. Height(n) \cap 0 .. Height(m) :
      ~SameAnswers(log[n][h + 1], log[m][h + 1]) =>
        \/ log[n][1].answered # log[m][1].answered
        \/ \E k \in 1 .. h : ~KnewTheSame(n, m, k)

\* Nodes that run without a restart, and are always asked last about the block that is
\* decided, have the same answers to hash for every block, whatever other rounds each of
\* them saw.
RegularNodesAgree ==
  \A n, m \in Nodes :
    \A h \in 0 .. Height(n) \cap 0 .. Height(m) :
      (/\ log[n][1].memory = log[m][1].memory
       /\ log[n][h + 1].memory.regular /\ log[m][h + 1].memory.regular)
        => SameAnswers(log[n][h + 1], log[m][h + 1])

\* The last of some blocks.
LastBlock(executed) ==
  IF executed = {} THEN 0 ELSE CHOOSE h \in executed : \A k \in executed : k <= h

\* A consumer for AtomicBlocks: a chain without state that the process has not initialized
\* has no genesis that counts.
Standing(m, a, c) ==
  IF HasState(a, c) \/ c \in m.initialized
  THEN [genesis |-> a[c].genesis, initial |-> a[c].initial, last |-> LastBlock(a[c].executed)]
  ELSE [genesis |-> "none", initial |-> 0, last |-> 0]

\* A node as AtomicBlocks sees it.
Node(n) == INSTANCE AtomicBlocks WITH
  height      <- Height(n),
  handlers    <- memory[n].handlers,
  rejected    <- memory[n].rejected,
  initialized <- memory[n].initialized,
  known       <- memory[n].providerGenesis,
  apps        <- [c \in Consumers |-> Standing(memory[n], Apps(n), c)]

\* Whatever happens to a node's fields or log is a step of AtomicBlocks, which Multiplexer
\* implements: a restart, a proposal, a block with the chains active for it.
NodesAreAtomic ==
  /\ \A n \in Nodes : Node(n)!Init
  /\ [][\A n \in Nodes : UNCHANGED <<memory[n], log[n]>> \/ Node(n)!Next]_vars

\* A chain executes a block, on any node, only if it owed nothing when the block before
\* began: the fees, the registry, the query of committed state and the nodes' own pace
\* in between.
ServedHasPaid ==
  \A n \in Nodes, c \in Consumers :
    \A h \in Apps(n)[c].executed : h > 1 /\ c \in ledger[h - 1].settled

=============================================================================
