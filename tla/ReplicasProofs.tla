--------------------------- MODULE ReplicasProofs ---------------------------
(***************************************************************************)
(* Proofs about Replicas: its types, that only paid chains are served, and *)
(* that nodes hash the same answers unless they differ in what is named -  *)
(* for any nodes, quorums, consumers, blocks and configurations.           *)
(***************************************************************************)
EXTENDS Replicas, TLAPS

Entry == [memory : Memory, answered : SUBSET Consumers, apps : [Consumers -> Application]]

\* Hashes of what a node may have executed.
Hashes == {Hash(e) : e \in Entry}

Proposal == [block : Blocks, hash : Hashes]

LedgerEntry == [block : Blocks, hash : Hashes, active : SUBSET Consumers, settled : SUBSET Consumers]

\* The registry's types.
RegistryInv ==
  /\ DOMAIN ConsumerChains \subseteq Consumers
  /\ \A c \in DOMAIN ConsumerChains : ConsumerChains[c] \in Registry!ConsumerChain

\* The types of consensus, the nodes and the registry: inductive.
ConsensusInv ==
  /\ proposals \subseteq Proposal
  /\ votes \in [Voters -> SUBSET proposals]
  /\ decided \in Proposal \cup {NoBlock}
  /\ ledger \in Seq(LedgerEntry)
  /\ settled \subseteq Consumers

NodesInv ==
  /\ memory \in [Nodes -> Memory]
  /\ \A n \in Nodes : memory[n].rejected \cup memory[n].initialized \subseteq memory[n].handlers
  /\ log \in [Nodes -> Seq(Entry)]
  /\ \A n \in Nodes : Len(log[n]) >= 1 /\ Len(log[n]) <= Len(ledger) + 1

TypeInv == ConsensusInv /\ NodesInv /\ RegistryInv

-----------------------------------------------------------------------------
(* The operators of a block *)

\* What is active at a height is a set of consumers.
LEMMA ActiveType ==
  ASSUME ledger \in Seq(LedgerEntry), NEW h \in Nat, h <= Len(ledger) + 1
  PROVE  Active(h) \subseteq Consumers
<1>1. CASE h > 1
  <2>1. ledger[h - 1] \in LedgerEntry
        BY <1>1
  <2> QED BY <1>1, <2>1 DEF Active, LedgerEntry
<1>2. CASE ~(h > 1)
      BY <1>2 DEF Active
<1> QED BY <1>1, <1>2

\* A consumer's state keeps its type when it is initialized.
LEMMA InitializedType ==
  ASSUME NEW m \in Memory, NEW a \in [Consumers -> Application], NEW h \in Nat
  PROVE  Initialized(m, a, h) \in [Consumers -> Application]
  BY DEF Initialized, Application

\* A block makes an entry of a log out of a process and its consumers.
LEMMA BlockEntryType ==
  ASSUME ledger \in Seq(LedgerEntry), NEW m \in Memory, NEW a \in [Consumers -> Application],
         NEW h \in Nat, h <= Len(ledger) + 1
  PROVE  /\ BlockEntry(m, a, h) \in Entry
         /\ BlockEntry(m, a, h).memory = [m EXCEPT !.asked = NoBlock]
         /\ BlockEntry(m, a, h).answered \subseteq Served(m, h)
<1> DEFINE begun    == Initialized(m, a, h)
           answered == {c \in Served(m, h) : Executable(c, begun[c], h)}
           done     == [c \in Consumers |->
                         IF c \in answered THEN [begun[c] EXCEPT !.executed = @ \cup {h}] ELSE begun[c]]
<1>1. begun \in [Consumers -> Application]
      BY InitializedType
<1>2. answered \subseteq Consumers
      BY ActiveType DEF Served
<1>3. done \in [Consumers -> Application]
  <2> HIDE DEF begun, answered
  <2>1. ASSUME NEW c \in Consumers
        PROVE  [begun[c] EXCEPT !.executed = @ \cup {h}] \in Application
        BY <1>1 DEF Application
  <2> QED BY <1>1, <2>1
<1>4. [m EXCEPT !.asked = NoBlock] \in Memory
      BY DEF Memory
<1>5. BlockEntry(m, a, h) = [memory |-> [m EXCEPT !.asked = NoBlock], answered |-> answered, apps |-> done]
      BY DEF BlockEntry
<1> HIDE DEF answered, done
<1>6. answered \subseteq Served(m, h)
      BY DEF answered
<1> QED BY <1>2, <1>3, <1>4, <1>5, <1>6 DEF Entry

-----------------------------------------------------------------------------
(* The registry *)

\* Billing: the types stay, and who is ACTIVE afterwards paid.
LEMMA BillingInv ==
  ASSUME RegistryInv, Registry!CollectFees
  PROVE  RegistryInv' /\ ActiveConsumerChains' \subseteq Registry!Payers
<1>1. DOMAIN ConsumerChains' = DOMAIN ConsumerChains
      BY DEF Registry!CollectFees
<1>2. ASSUME NEW c \in DOMAIN ConsumerChains
      PROVE  /\ ConsumerChains'[c] \in Registry!ConsumerChain
             /\ ConsumerChains'[c].status = "ACTIVE" => c \in Registry!Payers
  <2>1. ConsumerChains[c] \in Registry!ConsumerChain
        BY DEF RegistryInv
  <2>2. ConsumerChains'[c] = IF c \in Registry!Billed
                             THEN [ConsumerChains[c] EXCEPT !.status = Registry!AfterFees(c)]
                             ELSE ConsumerChains[c]
        BY DEF Registry!CollectFees
  <2> QED BY <2>1, <2>2 DEF Registry!Billed, Registry!Payers, Registry!Payable, Registry!AfterFees,
                            Registry!ConsumerChain, Registry!Statuses
<1> QED BY <1>1, <1>2 DEF RegistryInv, ActiveConsumerChains

\* Storing a chain.
LEMMA StoredInv ==
  ASSUME RegistryInv, NEW c \in Consumers, NEW consumer \in Registry!ConsumerChain,
         ConsumerChains' = Registry!Stored(c, consumer),
         consumer.status = "ACTIVE" => c \in ActiveConsumerChains
  PROVE  RegistryInv' /\ ActiveConsumerChains' \subseteq ActiveConsumerChains
  BY DEF RegistryInv, ActiveConsumerChains, Registry!Stored

\* Messages: the types stay, and no chain becomes ACTIVE.
LEMMA MessagesInv ==
  ASSUME RegistryInv, Registry!Messages
  PROVE  RegistryInv' /\ ActiveConsumerChains' \subseteq ActiveConsumerChains
<1>1. ASSUME NEW fees \in Fees, Registry!UpdateParams(fees)
      PROVE  ConsumerChains' = ConsumerChains
      BY <1>1 DEF Registry!UpdateParams
<1>2. ASSUME NEW c \in Consumers, Registry!Fund(c)
      PROVE  ConsumerChains' = ConsumerChains
      BY <1>2 DEF Registry!Fund
<1>3. CASE ConsumerChains' = ConsumerChains
      BY <1>3 DEF RegistryInv, ActiveConsumerChains
<1>4. ASSUME NEW c \in Consumers, NEW h \in BlockHeights, Registry!AddConsumer(c, h)
      PROVE  RegistryInv' /\ ActiveConsumerChains' \subseteq ActiveConsumerChains
  <2>1. Registry!Added(h) \in Registry!ConsumerChain /\ Registry!Added(h).status # "ACTIVE"
        BY ReplicasAssumption
        DEF ReplicasAssumption, Registry!Parameters, Registry!Added, Registry!ConsumerChain, Registry!Statuses
  <2> QED BY <1>4, <2>1, StoredInv DEF Registry!AddConsumer
<1>5. ASSUME NEW c \in Consumers, NEW h \in BlockHeights, Registry!SunsetConsumer(c, h)
      PROVE  RegistryInv' /\ ActiveConsumerChains' \subseteq ActiveConsumerChains
  <2> DEFINE s == IF h <= height THEN "REMOVED" ELSE "SUNSET"
             consumer == [ConsumerChains[c] EXCEPT !.status = s, !.sunsetAt = h]
  <2>1. ConsumerChains[c] \in Registry!ConsumerChain
        BY <1>5 DEF RegistryInv, Registry!SunsetConsumer
  <2>2. h \in Nat
        BY ReplicasAssumption DEF ReplicasAssumption, Registry!Parameters
  <2>3. s \in {"REMOVED", "SUNSET"}
        OBVIOUS
  <2>4. consumer \in Registry!ConsumerChain /\ consumer.status # "ACTIVE"
    <3> HIDE DEF s
    <3> QED BY <2>1, <2>2, <2>3 DEF Registry!ConsumerChain, Registry!Statuses
  <2>5. ConsumerChains' = Registry!Stored(c, consumer)
        BY <1>5 DEF Registry!SunsetConsumer
  <2> HIDE DEF consumer
  <2> QED BY <2>4, <2>5, StoredInv
<1>6. ASSUME NEW c \in Consumers, NEW h \in BlockHeights, Registry!UpgradeConsumer(c, h)
      PROVE  RegistryInv' /\ ActiveConsumerChains' \subseteq ActiveConsumerChains
  <2>1. /\ c \in DOMAIN ConsumerChains
        /\ ConsumerChains' = Registry!Stored(c, ConsumerChains[c])
        BY <1>6 DEF Registry!UpgradeConsumer
  <2>2. ConsumerChains[c] \in Registry!ConsumerChain
        BY <2>1 DEF RegistryInv
  <2> QED BY <2>1, <2>2, StoredInv DEF ActiveConsumerChains
<1> QED BY <1>1, <1>2, <1>3, <1>4, <1>5, <1>6 DEF Registry!Messages

-----------------------------------------------------------------------------
(* Types *)

LEMMA InitTypes == Init => TypeInv
<1> SUFFICES ASSUME Init PROVE TypeInv
    OBVIOUS
<1>1. PICK handlers \in [Nodes -> SUBSET Consumers], reached \in [Nodes -> Reached] :
        /\ \A n \in Nodes : handlers[n] \in Configs[n] /\ reached[n] \subseteq handlers[n]
        /\ memory = [n \in Nodes |-> GenesisMemory(handlers[n], reached[n])]
        /\ log = [n \in Nodes |-> <<GenesisEntry(handlers[n], reached[n])>>]
      BY DEF Init
<1>2. ASSUME NEW n \in Nodes
      PROVE  /\ GenesisMemory(handlers[n], reached[n]) \in Memory
             /\ GenesisEntry(handlers[n], reached[n]) \in Entry
  <2>1. GenesisMemory(handlers[n], reached[n]) \in Memory
        BY ReplicasAssumption, <1>1 DEF ReplicasAssumption, GenesisMemory, Memory
  <2>2. GenesisEntry(handlers[n], reached[n]).apps \in [Consumers -> Application]
        BY DEF GenesisEntry, Unborn, Application
  <2> QED BY <2>1, <2>2, <1>1, ReplicasAssumption DEF ReplicasAssumption, GenesisEntry, Entry
<1>3. ledger = <<>> /\ ConsensusInv
      BY DEF Init, ConsensusInv
<1>4. /\ memory \in [Nodes -> Memory] /\ log \in [Nodes -> Seq(Entry)]
      /\ \A n \in Nodes : Len(log[n]) = 1
      BY <1>1, <1>2
<1>5. \A n \in Nodes : memory[n].rejected \cup memory[n].initialized \subseteq memory[n].handlers
      BY <1>1 DEF GenesisMemory
<1>6. NodesInv
  <2>1. Len(ledger) = 0
        BY <1>3
  <2>2. \A n \in Nodes : Len(log[n]) >= 1 /\ Len(log[n]) <= Len(ledger) + 1
    <3>1. \A i, k : i = 1 /\ k = 0 => i >= 1 /\ i <= k + 1
          OBVIOUS
    <3> QED BY <3>1, <2>1, <1>4, Zenon
  <2> QED BY <2>2, <1>4, <1>5, Zenon DEF NodesInv
<1>7. RegistryInv
  <2>1. PICK genesis \in Geneses : ConsumerChains = genesis.chains
        BY DEF Init, Registry!Init
  <2> QED BY <2>1, ReplicasAssumption DEF ReplicasAssumption, Registry!Parameters, RegistryInv
<1> QED BY <1>3, <1>6, <1>7 DEF TypeInv

\* What a step does to the ledger and the nodes.
Quiet == UNCHANGED <<ledger, memory, log>>

LEMMA StepKinds ==
  ASSUME [Next]_vars
  PROVE  \/ Quiet
         \/ EndBlock
         \/ \E n \in Nodes : Restart(n)
         \/ \E n \in Nodes, p \in proposals : ProcessProposal(n, p)
         \/ \E n \in Nodes : ExecuteBlock(n)
<1>1. CASE UNCHANGED vars
      BY <1>1 DEF vars, consensusVars, Quiet
<1>2. ASSUME NEW n \in Nodes, NEW b \in Blocks, Propose(n, b) PROVE Quiet
      BY <1>2 DEF Propose, Quiet
<1>3. ASSUME NEW p \in proposals, Decide(p) PROVE Quiet
      BY <1>3 DEF Decide, Quiet
<1>4. CASE Deliver
      BY <1>4 DEF Deliver, consensusVars, Quiet
<1> QED BY <1>1, <1>2, <1>3, <1>4 DEF Next

\* A block executed: the parts of the step.
LEMMA Execution ==
  ASSUME TypeInv, NEW n \in Nodes, ExecuteBlock(n)
  PROVE  LET h == Len(log[n])
             m == [memory[n] EXCEPT !.regular = @ /\ memory[n].asked = ledger[h].block]
         IN  /\ h \in Nat /\ h >= 1 /\ h <= Len(ledger)
             /\ log[n] \in Seq(Entry) /\ Apps(n) \in [Consumers -> Application]
             /\ m \in Memory
             /\ BlockEntry(m, Apps(n), h) \in Entry
             /\ log' = [log EXCEPT ![n] = Append(@, BlockEntry(m, Apps(n), h))]
             /\ memory' = [memory EXCEPT ![n] =
                  [m EXCEPT !.initialized = @ \cup Served(m, h), !.asked = NoBlock]]
             /\ UNCHANGED <<consensusVars, providerVars>>
<1> DEFINE h == Len(log[n])
           m == [memory[n] EXCEPT !.regular = @ /\ memory[n].asked = ledger[h].block]
<1>1. /\ h \in Nat /\ h >= 1
      /\ log[n] \in Seq(Entry) /\ log[n][h] \in Entry
      BY DEF TypeInv, NodesInv
<1>2. Height(n) + 1 = h
      BY <1>1 DEF Height
<1>3. h <= Len(ledger)
      BY <1>1 DEF ExecuteBlock, CanExecute, Height, TypeInv, ConsensusInv
<1>4. Apps(n) \in [Consumers -> Application]
      BY <1>1 DEF Apps, Entry
<1>5. m \in Memory
      BY DEF TypeInv, NodesInv, Memory
<1>6. BlockEntry(m, Apps(n), h) \in Entry
  <2>1. ledger \in Seq(LedgerEntry) /\ h <= Len(ledger) + 1
        BY <1>1, <1>3 DEF TypeInv, ConsensusInv
  <2> HIDE DEF m, h
  <2> QED BY <2>1, <1>1, <1>4, <1>5, BlockEntryType
<1> QED BY <1>1, <1>2, <1>3, <1>4, <1>5, <1>6 DEF ExecuteBlock

LEMMA StepNodes == TypeInv /\ [Next]_vars => NodesInv'
<1> SUFFICES ASSUME TypeInv, [Next]_vars PROVE NodesInv'
    OBVIOUS
<1> USE DEF TypeInv
<1>1. CASE Quiet
      BY <1>1 DEF Quiet, NodesInv
<1>2. CASE EndBlock
  <2>1. /\ UNCHANGED <<memory, log>>
        /\ Len(ledger') = Len(ledger) + 1
        BY <1>2 DEF EndBlock, ConsensusInv
  <2> QED BY <2>1 DEF NodesInv, ConsensusInv
<1>3. ASSUME NEW n \in Nodes, Restart(n) PROVE NodesInv'
  <2>1. PICK handlers \in Configs[n] :
          memory' = [memory EXCEPT ![n] =
            [handlers |-> handlers, rejected |-> {}, initialized |-> {},
             providerGenesis |-> FALSE, asked |-> NoBlock, regular |-> FALSE]]
        BY <1>3 DEF Restart
  <2>2. handlers \subseteq Consumers
        BY ReplicasAssumption DEF ReplicasAssumption
  <2>3. UNCHANGED <<log, ledger>>
        BY <1>3 DEF Restart, consensusVars
  <2> QED BY <2>1, <2>2, <2>3 DEF NodesInv, Memory
<1>4. ASSUME NEW n \in Nodes, NEW p \in proposals, ProcessProposal(n, p) PROVE NodesInv'
  <2>1. /\ memory' = [memory EXCEPT ![n].rejected = Rejecting(n, p), ![n].asked = p.block]
        /\ UNCHANGED <<log, ledger>>
        BY <1>4 DEF ProcessProposal
  <2>2. p.block \in Blocks
        BY DEF ConsensusInv, Proposal
  <2>3. Rejecting(n, p) \subseteq memory[n].handlers /\ memory[n].handlers \subseteq Consumers
        BY DEF Rejecting, NodesInv, Memory
  <2>4. memory' \in [Nodes -> Memory]
    <3> DEFINE asked == [memory[n] EXCEPT !.rejected = Rejecting(n, p), !.asked = p.block]
    <3>1. memory[n] \in Memory /\ memory \in [Nodes -> Memory]
          BY DEF NodesInv
    <3>2. asked \in Memory
          BY <2>2, <2>3, <3>1 DEF Memory
    <3>3. memory' = [memory EXCEPT ![n] = asked]
          BY <2>1
    <3> HIDE DEF asked
    <3> QED BY <3>1, <3>2, <3>3
  <2>5. \A o \in Nodes : memory'[o].rejected \cup memory'[o].initialized \subseteq memory'[o].handlers
        BY <2>1, <2>3 DEF NodesInv, Memory
  <2> QED BY <2>1, <2>4, <2>5 DEF NodesInv
<1>5. ASSUME NEW n \in Nodes, ExecuteBlock(n) PROVE NodesInv'
  <2> DEFINE h == Len(log[n])
             m == [memory[n] EXCEPT !.regular = @ /\ memory[n].asked = ledger[h].block]
             e == BlockEntry(m, Apps(n), h)
             s == Served(m, h)
  <2>1. /\ h \in Nat /\ h <= Len(ledger) /\ m \in Memory /\ e \in Entry
        /\ log' = [log EXCEPT ![n] = Append(@, e)]
        /\ memory' = [memory EXCEPT ![n] = [m EXCEPT !.initialized = @ \cup s, !.asked = NoBlock]]
        /\ ledger' = ledger
        BY <1>5, Execution DEF consensusVars
  <2>2. s \subseteq m.handlers
        BY DEF Served
  <2>3. m.handlers = memory[n].handlers /\ m.rejected = memory[n].rejected
        /\ m.initialized = memory[n].initialized
        BY DEF NodesInv, Memory
  <2> HIDE DEF m, e, s
  <2>4. memory' \in [Nodes -> Memory]
        BY <2>1, <2>2 DEF NodesInv, Memory
  <2>5. \A o \in Nodes : memory'[o].rejected \cup memory'[o].initialized \subseteq memory'[o].handlers
        BY <2>1, <2>2, <2>3 DEF NodesInv, Memory
  <2>6. log' \in [Nodes -> Seq(Entry)]
        BY <2>1 DEF NodesInv
  <2>7. \A o \in Nodes : Len(log'[o]) >= 1 /\ Len(log'[o]) <= Len(ledger') + 1
    <3>1. Len(log'[n]) = h + 1
          BY <2>1 DEF NodesInv
    <3>2. \A o \in Nodes \ {n} : log'[o] = log[o]
          BY <2>1 DEF NodesInv
    <3>3. Len(ledger) \in Nat
          BY DEF ConsensusInv
    <3> QED BY <2>1, <3>1, <3>2, <3>3 DEF NodesInv
  <2> QED BY <2>4, <2>5, <2>6, <2>7 DEF NodesInv
<1> QED BY <1>1, <1>2, <1>3, <1>4, <1>5, StepKinds

LEMMA StepConsensus == TypeInv /\ [Next]_vars => ConsensusInv' /\ RegistryInv'
<1> SUFFICES ASSUME TypeInv, [Next]_vars PROVE ConsensusInv' /\ RegistryInv'
    OBVIOUS
<1> USE DEF TypeInv
<1>1. ASSUME UNCHANGED consensusVars PROVE ConsensusInv'
      BY <1>1 DEF consensusVars, ConsensusInv
<1>2. ASSUME UNCHANGED ConsumerChains PROVE RegistryInv'
      BY <1>2 DEF RegistryInv
<1>3. CASE UNCHANGED vars
      BY <1>1, <1>2, <1>3 DEF vars, providerVars
<1>4. ASSUME NEW n \in Nodes, Restart(n) \/ ExecuteBlock(n) PROVE ConsensusInv' /\ RegistryInv'
      BY <1>1, <1>2, <1>4 DEF Restart, ExecuteBlock, providerVars
<1>5. ASSUME NEW n \in Nodes, NEW b \in Blocks, Propose(n, b) PROVE ConsensusInv' /\ RegistryInv'
  <2>1. log[n][Height(n) + 1] \in Entry
        BY DEF Height, NodesInv
  <2>2. [block |-> b, hash |-> Hash(log[n][Height(n) + 1])] \in Proposal
        BY <2>1 DEF Proposal, Hashes
  <2>3. /\ proposals' = proposals \cup {[block |-> b, hash |-> Hash(log[n][Height(n) + 1])]}
        /\ UNCHANGED <<votes, decided, ledger, settled, ConsumerChains>>
        BY <1>5 DEF Propose, providerVars
  <2> QED BY <1>2, <2>2, <2>3 DEF ConsensusInv
<1>6. ASSUME NEW n \in Nodes, NEW p \in proposals, ProcessProposal(n, p) PROVE ConsensusInv' /\ RegistryInv'
      BY <1>2, <1>6 DEF ProcessProposal, ConsensusInv, providerVars
<1>7. ASSUME NEW p \in proposals, Decide(p) PROVE ConsensusInv' /\ RegistryInv'
  <2>1. /\ decided' = p /\ proposals' = {} /\ votes' = [n \in Voters |-> {}]
        /\ ledger' = ledger
        BY <1>7 DEF Decide
  <2>2. settled' \subseteq Consumers /\ RegistryInv'
    <3>1. CASE Registry!BeginBlockFree /\ settled' = Consumers
          BY <1>2, <3>1 DEF Registry!BeginBlockFree
    <3>2. ASSUME NEW bonded \in BondedSets, Registry!BeginBlock(bonded), settled' = Registry!Payers
          PROVE  settled' \subseteq Consumers /\ RegistryInv'
      <4>1. Registry!CollectFees
            BY <3>2 DEF Registry!BeginBlock
      <4>2. Registry!Payers \subseteq Consumers
            BY DEF Registry!Payers, Registry!Billed, RegistryInv
      <4> QED BY <3>2, <4>1, <4>2, BillingInv
    <3> QED BY <1>7, <3>1, <3>2 DEF Decide
  <2> QED BY <2>1, <2>2 DEF ConsensusInv
<1>8. CASE Deliver
      BY <1>1, <1>8, MessagesInv DEF Deliver
<1>9. CASE EndBlock
  <2>1. /\ ~Idle /\ decided' = NoBlock /\ settled' = {}
        /\ ledger' = Append(ledger, [block |-> decided.block, hash |-> decided.hash,
                                     active |-> ActiveConsumerChains, settled |-> settled])
        /\ UNCHANGED <<proposals, votes, ConsumerChains>>
        BY <1>9 DEF EndBlock, providerVars
  <2>2. decided \in Proposal
        BY <2>1 DEF Idle, ConsensusInv
  <2>3. ActiveConsumerChains \subseteq Consumers
        BY DEF ActiveConsumerChains, RegistryInv
  <2>4. [block |-> decided.block, hash |-> decided.hash,
         active |-> ActiveConsumerChains, settled |-> settled] \in LedgerEntry
        BY <2>2, <2>3 DEF Proposal, LedgerEntry, ConsensusInv
  <2> QED BY <1>2, <2>1, <2>4 DEF ConsensusInv
<1> QED BY <1>3, <1>4, <1>5, <1>6, <1>7, <1>8, <1>9 DEF Next

LEMMA Types == Spec => []TypeInv
<1>1. TypeInv /\ [Next]_vars => TypeInv'
      BY StepNodes, StepConsensus DEF TypeInv
<1> QED BY <1>1, InitTypes, PTL DEF Spec

\* Consensus and the nodes keep their types; nobody is ahead of the ledger.
THEOREM NodesTypeCorrect == Spec => []NodesOK
<1>1. TypeInv => NodesOK
  <2> SUFFICES ASSUME TypeInv PROVE NodesOK
      OBVIOUS
  <2>1. \A p \in proposals : p.block \in Blocks
        BY DEF TypeInv, ConsensusInv, Proposal
  <2>2. decided # NoBlock => decided.block \in Blocks
        BY DEF TypeInv, ConsensusInv, Proposal
  <2>3. ASSUME NEW h \in DOMAIN ledger
        PROVE  ledger[h].active \cup ledger[h].settled \subseteq Consumers
    <3>1. ledger[h] \in LedgerEntry
          BY DEF TypeInv, ConsensusInv
    <3> QED BY <3>1 DEF LedgerEntry
  <2>4. \A n \in Nodes : Height(n) \in 0 .. Len(ledger)
        BY DEF TypeInv, ConsensusInv, NodesInv, Height
  <2> QED BY <2>1, <2>2, <2>3, <2>4 DEF TypeInv, ConsensusInv, NodesInv, NodesOK
<1> QED BY <1>1, Types, PTL

-----------------------------------------------------------------------------
(* Only chains that paid are served *)

\* The provider's active chains have settled, in the block under way and in those done;
\* every block a consumer has executed was one it was active for.
PaidInv ==
  /\ ~Idle => ActiveConsumerChains \subseteq settled
  /\ \A h \in 1 .. Len(ledger) : ledger[h].active \subseteq ledger[h].settled
  /\ \A n \in Nodes, c \in Consumers :
       \A h \in Apps(n)[c].executed :
         h \in 2 .. Len(ledger) /\ c \in ledger[h - 1].active

LEMMA InitPaid == Init => PaidInv
<1> SUFFICES ASSUME Init PROVE PaidInv
    OBVIOUS
<1>1. Idle /\ Len(ledger) = 0
      BY DEF Init, Idle
<1>2. ASSUME NEW n \in Nodes, NEW c \in Consumers PROVE Apps(n)[c].executed = {}
  <2>1. PICK handlers \in [Nodes -> SUBSET Consumers], reached \in [Nodes -> Reached] :
          log = [m \in Nodes |-> <<GenesisEntry(handlers[m], reached[m])>>]
        BY DEF Init
  <2>2. Apps(n) = GenesisEntry(handlers[n], reached[n]).apps
        BY <2>1 DEF Apps
  <2> QED BY <2>2 DEF GenesisEntry, Unborn
<1> QED BY <1>1, <1>2 DEF PaidInv

\* The consumers of a node after a block: a chain gains at most this block, if it is active.
LEMMA BlocksGained ==
  ASSUME NEW m \in Memory, NEW a \in [Consumers -> Application], NEW h \in Nat,
         ledger \in Seq(LedgerEntry), h <= Len(ledger) + 1,
         NEW c \in Consumers, NEW k \in BlockEntry(m, a, h).apps[c].executed
  PROVE  k \in a[c].executed \/ (k = h /\ c \in Active(h))
<1> DEFINE begun    == Initialized(m, a, h)
           answered == {d \in Served(m, h) : Executable(d, begun[d], h)}
<1>1. BlockEntry(m, a, h).apps[c] =
        IF c \in answered THEN [begun[c] EXCEPT !.executed = @ \cup {h}] ELSE begun[c]
      BY DEF BlockEntry
<1>2. begun[c] \in Application
      BY InitializedType
<1>3. begun[c].executed \subseteq a[c].executed
      BY DEF Initialized
<1>4. answered \subseteq Active(h)
      BY DEF Served
<1> HIDE DEF begun, answered
<1> QED BY <1>1, <1>2, <1>3, <1>4 DEF Application

LEMMA StepPaid == TypeInv /\ PaidInv /\ [Next]_vars => PaidInv'
<1> SUFFICES ASSUME TypeInv, PaidInv, [Next]_vars PROVE PaidInv'
    OBVIOUS
<1>0. Len(ledger) \in Nat
      BY DEF TypeInv, ConsensusInv
<1>1. ASSUME UNCHANGED <<ledger, log>>, (~Idle => ActiveConsumerChains \subseteq settled)' PROVE PaidInv'
      BY <1>1 DEF PaidInv, Apps
<1>2. ASSUME UNCHANGED <<decided, settled, ConsumerChains>>
      PROVE  (~Idle => ActiveConsumerChains \subseteq settled)'
      BY <1>2 DEF PaidInv, Idle, ActiveConsumerChains
<1>3. CASE UNCHANGED vars
      BY <1>1, <1>2, <1>3 DEF vars, consensusVars, providerVars
<1>4. ASSUME NEW n \in Nodes, Restart(n) PROVE PaidInv'
      BY <1>1, <1>2, <1>4 DEF Restart, consensusVars, providerVars
<1>5. ASSUME NEW n \in Nodes, NEW b \in Blocks, Propose(n, b) PROVE PaidInv'
      BY <1>1, <1>2, <1>5 DEF Propose, providerVars
<1>6. ASSUME NEW n \in Nodes, NEW p \in proposals, ProcessProposal(n, p) PROVE PaidInv'
      BY <1>1, <1>2, <1>6 DEF ProcessProposal, providerVars
<1>7. ASSUME NEW p \in proposals, Decide(p) PROVE PaidInv'
  <2>1. UNCHANGED <<ledger, log>>
        BY <1>7 DEF Decide
  <2>2. CASE Registry!BeginBlockFree /\ settled' = Consumers
    <3>1. ActiveConsumerChains' \subseteq Consumers
          BY <2>2 DEF Registry!BeginBlockFree, ActiveConsumerChains, TypeInv, RegistryInv
    <3> QED BY <1>1, <2>1, <2>2, <3>1
  <2>3. ASSUME NEW bonded \in BondedSets, Registry!BeginBlock(bonded), settled' = Registry!Payers
        PROVE  PaidInv'
    <3>1. ActiveConsumerChains' \subseteq Registry!Payers
          BY <2>3, BillingInv DEF Registry!BeginBlock, TypeInv
    <3> QED BY <1>1, <2>1, <2>3, <3>1
  <2> QED BY <1>7, <2>2, <2>3 DEF Decide
<1>8. CASE Deliver
  <2>1. ActiveConsumerChains' \subseteq ActiveConsumerChains
        BY <1>8, MessagesInv DEF Deliver, TypeInv
  <2>2. UNCHANGED <<ledger, log, decided, settled>>
        BY <1>8 DEF Deliver, consensusVars
  <2> QED BY <1>1, <2>1, <2>2 DEF PaidInv, Idle
<1>9. CASE EndBlock
  <2> DEFINE e == [block |-> decided.block, hash |-> decided.hash,
                   active |-> ActiveConsumerChains, settled |-> settled]
  <2>1. ~Idle /\ ledger' = Append(ledger, e) /\ decided' = NoBlock /\ log' = log
        BY <1>9 DEF EndBlock
  <2>2. /\ Len(ledger') = Len(ledger) + 1
        /\ \A h \in 1 .. Len(ledger) : ledger'[h] = ledger[h]
        /\ ledger'[Len(ledger) + 1] = e
        BY <2>1 DEF TypeInv, ConsensusInv
  <2>3. e.active \subseteq e.settled
        BY <2>1 DEF PaidInv
  <2>4. \A h \in 1 .. Len(ledger') : ledger'[h].active \subseteq ledger'[h].settled
    <3> HIDE DEF e
    <3> QED BY <1>0, <2>2, <2>3 DEF PaidInv
  <2>5. \A n \in Nodes, c \in Consumers :
          \A h \in Apps(n)'[c].executed :
            h \in 2 .. Len(ledger') /\ c \in ledger'[h - 1].active
        BY <1>0, <2>1, <2>2 DEF PaidInv, Apps
  <2>6. Idle'
        BY <2>1 DEF Idle
  <2> QED BY <2>4, <2>5, <2>6 DEF PaidInv
<1>10. ASSUME NEW n \in Nodes, ExecuteBlock(n) PROVE PaidInv'
  <2> DEFINE h == Len(log[n])
             m == [memory[n] EXCEPT !.regular = @ /\ memory[n].asked = ledger[h].block]
             e == BlockEntry(m, Apps(n), h)
  <2>1. /\ h \in Nat /\ h <= Len(ledger) /\ m \in Memory
        /\ log[n] \in Seq(Entry) /\ e \in Entry /\ Apps(n) \in [Consumers -> Application]
        /\ log' = [log EXCEPT ![n] = Append(@, e)]
        /\ UNCHANGED <<ledger, decided, settled, ConsumerChains>>
        BY <1>10, Execution DEF consensusVars, providerVars
  <2>2. ASSUME NEW c \in Consumers, NEW k \in e.apps[c].executed
        PROVE  k \in Apps(n)[c].executed \/ (k = h /\ c \in Active(h))
    <3>1. ledger \in Seq(LedgerEntry) /\ h <= Len(ledger) + 1
          BY <1>0, <2>1 DEF TypeInv, ConsensusInv
    <3> HIDE DEF m, h
    <3> QED BY <2>1, <2>2, <3>1, BlocksGained
  <2> HIDE DEF e, m
  <2>3. /\ Apps(n)' = e.apps
        /\ \A o \in Nodes \ {n} : Apps(o)' = Apps(o)
        BY <2>1 DEF Apps, TypeInv, NodesInv
  <2>4. ASSUME NEW o \in Nodes, NEW c \in Consumers, NEW k \in Apps(o)'[c].executed
        PROVE  k \in 2 .. Len(ledger) /\ c \in ledger[k - 1].active
    <3>1. CASE o = n /\ k = h /\ c \in Active(h)
          BY <1>0, <2>1, <3>1 DEF Active
    <3>2. CASE k \in Apps(o)[c].executed
          BY <3>2 DEF PaidInv
    <3> QED BY <2>2, <2>3, <2>4, <3>1, <3>2
  <2> QED BY <1>2, <2>1, <2>4 DEF PaidInv
<1> QED BY <1>3, <1>4, <1>5, <1>6, <1>7, <1>8, <1>9, <1>10 DEF Next

\* No chain executes a block on any node without having settled its debts when the block
\* before began, whatever happens to nodes and proposals in between.
THEOREM OnlyPaidIsServed == Spec => []ServedHasPaid
<1>1. TypeInv /\ PaidInv => ServedHasPaid
  <2> SUFFICES ASSUME TypeInv, PaidInv, NEW n \in Nodes, NEW c \in Consumers,
                      NEW h \in Apps(n)[c].executed
               PROVE  h > 1 /\ c \in ledger[h - 1].settled
      BY DEF ServedHasPaid
  <2>1. h \in 2 .. Len(ledger) /\ c \in ledger[h - 1].active
        BY DEF PaidInv
  <2>2. h - 1 \in 1 .. Len(ledger)
        BY <2>1 DEF TypeInv, ConsensusInv
  <2> QED BY <2>1, <2>2 DEF PaidInv
<1> QED BY <1>1, Types, InitPaid, StepPaid, PTL DEF Spec

-----------------------------------------------------------------------------
(* What a log holds *)

\* BlockEntry as a function of the active chains, the only variable it reads.
EntryOf(active, m, apps, h) ==
  LET served   == (active \cap m.handlers) \ m.rejected
      fresh    == {c \in served \ m.initialized : ~HasState(apps, c)}
      begun    == [c \in Consumers |->
                     IF c \in fresh
                     THEN [genesis |-> IF m.providerGenesis THEN "provider" ELSE "document",
                           initial |-> h, executed |-> {}]
                     ELSE apps[c]]
      answered == {c \in served : Executable(c, begun[c], h)}
  IN  [memory   |-> [m EXCEPT !.asked = NoBlock],
       answered |-> answered,
       apps     |-> [c \in Consumers |->
                      IF c \in answered THEN [begun[c] EXCEPT !.executed = @ \cup {h}] ELSE begun[c]]]

LEMMA BlockEntryOf ==
  ASSUME NEW m, NEW a, NEW h
  PROVE  BlockEntry(m, a, h) = EntryOf(Active(h), m, a, h)
  BY DEF BlockEntry, EntryOf, Initialized, Fresh, Served

\* Every entry of a log is what a block makes of the fields it records and the entry
\* before; the first is InitChain's.
EntryInv ==
  \A n \in Nodes :
    /\ log[n][1] = GenesisEntry(log[n][1].memory.handlers, log[n][1].memory.initialized)
    /\ \A h \in 1 .. Len(log[n]) - 1 :
         log[n][h + 1] = EntryOf(Active(h), log[n][h + 1].memory, log[n][h].apps, h)

\* The entries of a log have their type.
LEMMA LogEntry ==
  ASSUME TypeInv, NEW n \in Nodes, NEW k \in 1 .. Len(log[n])
  PROVE  /\ log[n][k] \in Entry /\ k \in Nat /\ k <= Len(ledger) + 1
         /\ log[n][k].memory \in Memory
         /\ log[n][k].apps \in [Consumers -> Application]
<1>1. log[n] \in Seq(Entry) /\ Len(log[n]) <= Len(ledger) + 1 /\ Len(ledger) \in Nat
      BY DEF TypeInv, NodesInv, ConsensusInv
<1>2. log[n][k] \in Entry /\ k \in Nat /\ k <= Len(ledger) + 1
      BY <1>1
<1> QED BY <1>2 DEF Entry

\* A block reads only the active chains of the block before, which stay as they are.
LEMMA ActiveStays ==
  ASSUME TypeInv, NEW h \in Nat, h <= Len(ledger) + 1, UNCHANGED ledger \/ EndBlock
  PROVE  Active(h)' = Active(h)
<1>1. CASE UNCHANGED ledger
      BY <1>1 DEF Active
<1>2. CASE EndBlock
  <2>1. \A k \in 1 .. Len(ledger) : ledger'[k] = ledger[k]
        BY <1>2 DEF EndBlock, TypeInv, ConsensusInv
  <2>2. Len(ledger) \in Nat
        BY DEF TypeInv, ConsensusInv
  <2> QED BY <2>1, <2>2 DEF Active
<1> QED BY <1>1, <1>2

\* Every step keeps the entries that are there, and adds one to a log or none.
LEMMA LogsGrow ==
  ASSUME TypeInv, [Next]_vars
  PROVE  /\ UNCHANGED ledger \/ EndBlock
         /\ \A n \in Nodes : \A k \in 1 .. Len(log[n]) : log'[n][k] = log[n][k]
         /\ \/ log' = log
            \/ \E n \in Nodes : ExecuteBlock(n)
<1>1. CASE Quiet
      BY <1>1 DEF Quiet
<1>2. CASE EndBlock
      BY <1>2 DEF EndBlock
<1>3. ASSUME NEW n \in Nodes, Restart(n) PROVE UNCHANGED <<ledger, log>>
      BY <1>3 DEF Restart, consensusVars
<1>4. ASSUME NEW n \in Nodes, NEW p \in proposals, ProcessProposal(n, p) PROVE UNCHANGED <<ledger, log>>
      BY <1>4 DEF ProcessProposal
<1>5. ASSUME NEW n \in Nodes, ExecuteBlock(n)
      PROVE  /\ UNCHANGED ledger
             /\ \A o \in Nodes : \A k \in 1 .. Len(log[o]) : log'[o][k] = log[o][k]
  <2> DEFINE h == Len(log[n])
             m == [memory[n] EXCEPT !.regular = @ /\ memory[n].asked = ledger[h].block]
             e == BlockEntry(m, Apps(n), h)
  <2>1. log[n] \in Seq(Entry) /\ log' = [log EXCEPT ![n] = Append(@, e)] /\ ledger' = ledger
        BY <1>5, Execution DEF consensusVars
  <2> HIDE DEF e
  <2> QED BY <2>1 DEF TypeInv, NodesInv
<1> QED BY <1>1, <1>2, <1>3, <1>4, <1>5, StepKinds

\* The entry ExecuteBlock adds.
LEMMA NewEntry ==
  ASSUME TypeInv, NEW n \in Nodes, ExecuteBlock(n)
  PROVE  LET h == Len(log[n])
             m == [memory[n] EXCEPT !.regular = @ /\ memory[n].asked = ledger[h].block]
         IN  /\ h \in Nat /\ h >= 1 /\ h <= Len(ledger)
             /\ Len(log'[n]) = h + 1
             /\ \A k \in 1 .. h : log'[n][k] = log[n][k]
             /\ \A o \in Nodes \ {n} : log'[o] = log[o]
             /\ log'[n][h + 1].memory = [m EXCEPT !.asked = NoBlock]
             /\ log'[n][h + 1] = EntryOf(Active(h), log'[n][h + 1].memory, log[n][h].apps, h)
             /\ UNCHANGED ledger
<1> DEFINE h == Len(log[n])
           m == [memory[n] EXCEPT !.regular = @ /\ memory[n].asked = ledger[h].block]
           q == [m EXCEPT !.asked = NoBlock]
           e == BlockEntry(m, Apps(n), h)
<1>1. /\ h \in Nat /\ h >= 1 /\ h <= Len(ledger) /\ m \in Memory
      /\ log[n] \in Seq(Entry) /\ e \in Entry /\ Apps(n) \in [Consumers -> Application]
      /\ log' = [log EXCEPT ![n] = Append(@, e)]
      /\ UNCHANGED ledger
      BY Execution DEF consensusVars
<1>2. Apps(n) = log[n][h].apps
      BY DEF Apps
<1>3. e.memory = q
  <2>1. ledger \in Seq(LedgerEntry) /\ h <= Len(ledger) + 1
        BY <1>1 DEF TypeInv, ConsensusInv
  <2> HIDE DEF m, h
  <2> QED BY <1>1, <2>1, BlockEntryType
<1>4. EntryOf(Active(h), q, Apps(n), h) = e
  <2> HIDE DEF m, h
  <2>1. /\ q.handlers = m.handlers /\ q.rejected = m.rejected /\ q.initialized = m.initialized
        /\ q.providerGenesis = m.providerGenesis /\ [q EXCEPT !.asked = NoBlock] = q
        BY <1>1 DEF Memory
  <2>2. e = EntryOf(Active(h), m, Apps(n), h)
        BY BlockEntryOf
  <2> HIDE DEF q, e
  <2>3. [q EXCEPT !.asked = NoBlock] = [m EXCEPT !.asked = NoBlock]
        BY <2>1 DEF q
  <2>4. EntryOf(Active(h), q, Apps(n), h) = EntryOf(Active(h), m, Apps(n), h)
        BY <2>1, <2>3, Zenon DEF EntryOf
  <2> QED BY <2>2, <2>4, Zenon
<1> HIDE DEF e, q, m
<1>5. /\ Len(log'[n]) = h + 1 /\ log'[n][h + 1] = e
      /\ \A k \in 1 .. h : log'[n][k] = log[n][k]
      /\ \A o \in Nodes \ {n} : log'[o] = log[o]
      BY <1>1 DEF TypeInv, NodesInv
<1> QED BY <1>1, <1>2, <1>3, <1>4, <1>5 DEF q, m

LEMMA InitEntries == Init => EntryInv
<1> SUFFICES ASSUME Init, NEW n \in Nodes
             PROVE  /\ log[n][1] = GenesisEntry(log[n][1].memory.handlers, log[n][1].memory.initialized)
                    /\ \A h \in 1 .. Len(log[n]) - 1 : FALSE
    BY DEF EntryInv
<1>1. PICK handlers \in [Nodes -> SUBSET Consumers], reached \in [Nodes -> Reached] :
        log = [m \in Nodes |-> <<GenesisEntry(handlers[m], reached[m])>>]
      BY DEF Init
<1>2. Len(log[n]) = 1 /\ log[n][1] = GenesisEntry(handlers[n], reached[n])
      BY <1>1
<1>3. \A h \in 1 .. Len(log[n]) - 1 : FALSE
      BY <1>2
<1>4. /\ log[n][1].memory.handlers = handlers[n]
      /\ log[n][1].memory.initialized = reached[n]
      BY <1>2 DEF GenesisEntry, GenesisMemory
<1> QED BY <1>2, <1>3, <1>4

LEMMA StepEntries == TypeInv /\ EntryInv /\ [Next]_vars => EntryInv'
<1> SUFFICES ASSUME TypeInv, EntryInv, [Next]_vars, NEW n \in Nodes
             PROVE  /\ log'[n][1] = GenesisEntry(log'[n][1].memory.handlers, log'[n][1].memory.initialized)
                    /\ \A h \in 1 .. Len(log'[n]) - 1 :
                         log'[n][h + 1] = EntryOf(Active(h)', log'[n][h + 1].memory, log'[n][h].apps, h)
    BY DEF EntryInv
<1>0. /\ Len(log[n]) \in Nat /\ Len(log[n]) >= 1 /\ Len(log[n]) <= Len(ledger) + 1 /\ Len(ledger) \in Nat
      BY DEF TypeInv, NodesInv, ConsensusInv
<1>1. \A k \in 1 .. Len(log[n]) : log'[n][k] = log[n][k]
      BY LogsGrow
<1>2. log'[n][1] = GenesisEntry(log'[n][1].memory.handlers, log'[n][1].memory.initialized)
      BY <1>0, <1>1 DEF EntryInv
<1>3. ASSUME NEW h \in 1 .. Len(log[n]) - 1
      PROVE  log'[n][h + 1] = EntryOf(Active(h)', log'[n][h + 1].memory, log'[n][h].apps, h)
  <2>1. log[n][h + 1] = EntryOf(Active(h), log[n][h + 1].memory, log[n][h].apps, h)
        BY DEF EntryInv
  <2>2. log'[n][h + 1] = log[n][h + 1] /\ log'[n][h] = log[n][h]
        BY <1>0, <1>1
  <2>3. Active(h)' = Active(h)
        BY <1>0, LogsGrow, ActiveStays
  <2> QED BY <2>1, <2>2, <2>3
<1>4. CASE log' = log
      BY <1>2, <1>3, <1>4
<1>5. ASSUME NEW o \in Nodes, ExecuteBlock(o)
      PROVE  \A h \in 1 .. Len(log'[n]) - 1 :
               log'[n][h + 1] = EntryOf(Active(h)', log'[n][h + 1].memory, log'[n][h].apps, h)
  <2>1. CASE o # n
    <3>1. log'[n] = log[n]
          BY <1>5, <2>1, NewEntry, Zenon
    <3> QED BY <1>3, <3>1
  <2>2. CASE o = n
    <3>1. PICK k \in Nat :
            /\ k = Len(log[n])
            /\ Len(log'[n]) = k + 1
            /\ log'[n][k + 1] = EntryOf(Active(k), log'[n][k + 1].memory, log[n][k].apps, k)
            /\ log'[n][k] = log[n][k]
            /\ ledger' = ledger
      <4> DEFINE k == Len(log[n])
      <4>1. /\ Len(log'[n]) = k + 1
            /\ log'[n][k + 1] = EntryOf(Active(k), log'[n][k + 1].memory, log[n][k].apps, k)
            /\ ledger' = ledger
            BY <1>5, <2>2, NewEntry
      <4>2. k \in Nat /\ log'[n][k] = log[n][k]
            BY <1>0, <1>1
      <4> QED BY <4>1, <4>2
    <3>2. Active(k)' = Active(k)
          BY <1>0, <3>1, ActiveStays
    <3>3. log'[n][k + 1] = EntryOf(Active(k)', log'[n][k + 1].memory, log'[n][k].apps, k)
          BY <3>1, <3>2
    <3>4. \A h \in 1 .. Len(log'[n]) - 1 : h \in 1 .. Len(log[n]) - 1 \/ h = k
          BY <1>0, <3>1
    <3> QED BY <1>3, <3>3, <3>4
  <2> QED BY <2>1, <2>2
<1> QED BY <1>2, <1>4, <1>5, LogsGrow

LEMMA Entries == Spec => [](TypeInv /\ EntryInv)
  BY Types, InitEntries, StepEntries, PTL DEF Spec

-----------------------------------------------------------------------------
(* Disagreement has a cause *)

ServedOf(active, m) == (active \cap m.handlers) \ m.rejected

UnstartedOf(active, m, a) == {c \in ServedOf(active, m) \ Hashed : a[c].executed = {}}

\* KnewTheSame as a function of the active chains, two processes and their consumers.
KnewOf(active, e, a, f, b) ==
  /\ active \ ServedOf(active, e) = active \ ServedOf(active, f)
  /\ UnstartedOf(active, e, a) \cap e.initialized = UnstartedOf(active, f, b) \cap f.initialized
  /\ UnstartedOf(active, e, a) \ e.initialized # {} => e.providerGenesis = f.providerGenesis

LEMMA KnewTheSameOf ==
  ASSUME NEW n, NEW m, NEW h
  PROVE  KnewTheSame(n, m, h) <=>
           KnewOf(Active(h), log[n][h + 1].memory, log[n][h].apps, log[m][h + 1].memory, log[m][h].apps)
  BY DEF KnewTheSame, KnewOf, UnstartedOf, ServedOf, LeftOut, Begun, Newborn, Unstarted, Served

\* Processes that knew the same make the same of consumers in the same state.
LEMMA SameBlock ==
  ASSUME NEW active, NEW e, NEW f, NEW a, NEW h, KnewOf(active, e, a, f, a)
  PROVE  /\ EntryOf(active, e, a, h).answered = EntryOf(active, f, a, h).answered
         /\ EntryOf(active, e, a, h).apps = EntryOf(active, f, a, h).apps
<1> DEFINE Fresher(m) == {c \in ServedOf(active, m) \ m.initialized : ~HasState(a, c)}
           Begin(m) == [c \in Consumers |->
                         IF c \in Fresher(m)
                         THEN [genesis |-> IF m.providerGenesis THEN "provider" ELSE "document",
                               initial |-> h, executed |-> {}]
                         ELSE a[c]]
           Answer(m) == {c \in ServedOf(active, m) : Executable(c, Begin(m)[c], h)}
           Done(m) == [c \in Consumers |->
                        IF c \in Answer(m) THEN [Begin(m)[c] EXCEPT !.executed = @ \cup {h}] ELSE Begin(m)[c]]
<1>1. ServedOf(active, e) = ServedOf(active, f)
      BY DEF KnewOf, ServedOf
<1>2. UnstartedOf(active, e, a) = UnstartedOf(active, f, a)
      BY <1>1 DEF UnstartedOf
<1>3. ASSUME NEW m PROVE Fresher(m) = UnstartedOf(active, m, a) \ m.initialized
      BY DEF UnstartedOf, HasState
<1>4. Fresher(e) = Fresher(f) /\ (Fresher(e) # {} => e.providerGenesis = f.providerGenesis)
  <2> HIDE DEF Fresher
  <2> QED BY <1>2, <1>3 DEF KnewOf
<1>5. Begin(e) = Begin(f)
  <2> HIDE DEF Fresher
  <2> QED BY <1>4
<1>6. Answer(e) = Answer(f)
  <2> HIDE DEF Begin
  <2> QED BY <1>1, <1>5
<1>7. Done(e) = Done(f)
  <2> HIDE DEF Begin, Answer
  <2> QED BY <1>5, <1>6
<1>8. ASSUME NEW m
      PROVE  EntryOf(active, m, a, h).answered = Answer(m) /\ EntryOf(active, m, a, h).apps = Done(m)
      BY DEF EntryOf, ServedOf
<1> HIDE DEF Answer, Done
<1> QED BY <1>6, <1>7, <1>8

\* Two logs up to the block at height h: the same InitChain, and the same knowledge.
Together(n, m, h) ==
  /\ log[n][1].answered = log[m][1].answered
  /\ \A k \in 1 .. h :
       KnewOf(Active(k), log[n][k + 1].memory, log[n][k].apps, log[m][k + 1].memory, log[m][k].apps)

AgreeInv ==
  \A n, m \in Nodes, h \in Nat :
    (h < Len(log[n]) /\ h < Len(log[m]) /\ Together(n, m, h)) =>
      /\ log[n][h + 1].answered = log[m][h + 1].answered
      /\ log[n][h + 1].apps = log[m][h + 1].apps

LEMMA LogLengths ==
  ASSUME TypeInv, [Next]_vars, NEW n \in Nodes
  PROVE  Len(log[n]) \in Nat \ {0} /\ Len(log'[n]) \in {Len(log[n]), Len(log[n]) + 1}
<1>1. Len(log[n]) \in Nat \ {0}
      BY DEF TypeInv, NodesInv
<1>2. ASSUME NEW o \in Nodes, ExecuteBlock(o) PROVE Len(log'[n]) \in {Len(log[n]), Len(log[n]) + 1}
      BY <1>2, NewEntry
<1> QED BY <1>1, <1>2, LogsGrow

\* Agreement on the first entry: what answered InitChain is all of it.
LEMMA SameGenesis ==
  ASSUME TypeInv, EntryInv, NEW n \in Nodes, NEW m \in Nodes,
         log[n][1].answered = log[m][1].answered
  PROVE  log[n][1].apps = log[m][1].apps
<1> DEFINE Born(reached) == [c \in Consumers |-> IF c \in reached
                     THEN [genesis |-> "provider", initial |-> 1, executed |-> {}] ELSE Unborn]
<1>1. ASSUME NEW o \in Nodes
      PROVE  log[o][1].apps = Born(log[o][1].answered)
  <2>1. log[o][1] = GenesisEntry(log[o][1].memory.handlers, log[o][1].memory.initialized)
        BY DEF EntryInv
  <2>2. ASSUME NEW handlers, NEW reached
        PROVE  /\ GenesisEntry(handlers, reached).apps = Born(reached)
               /\ GenesisEntry(handlers, reached).answered = reached
        BY DEF GenesisEntry
  <2> HIDE DEF Born
  <2> QED BY <2>1, <2>2
<1> HIDE DEF Born
<1> QED BY <1>1

LEMMA InitAgree == TypeInv /\ EntryInv /\ Init => AgreeInv
<1> SUFFICES ASSUME TypeInv, EntryInv, Init, NEW n \in Nodes, NEW m \in Nodes, NEW h \in Nat,
                    h < Len(log[n]), Together(n, m, h)
             PROVE  /\ log[n][h + 1].answered = log[m][h + 1].answered
                    /\ log[n][h + 1].apps = log[m][h + 1].apps
    BY DEF AgreeInv
<1>1. Len(log[n]) = 1
      BY DEF Init
<1>2. h = 0
      BY <1>1
<1> QED BY <1>2, SameGenesis DEF Together

LEMMA StepAgree == TypeInv /\ EntryInv /\ EntryInv' /\ AgreeInv /\ [Next]_vars => AgreeInv'
<1> SUFFICES ASSUME TypeInv, EntryInv', AgreeInv, [Next]_vars,
                    NEW n \in Nodes, NEW m \in Nodes, NEW h \in Nat,
                    h < Len(log'[n]), h < Len(log'[m]), Together(n, m, h)'
             PROVE  /\ log'[n][h + 1].answered = log'[m][h + 1].answered
                    /\ log'[n][h + 1].apps = log'[m][h + 1].apps
    BY DEF AgreeInv
<1>1. /\ Len(log[n]) \in Nat \ {0} /\ Len(log'[n]) \in {Len(log[n]), Len(log[n]) + 1}
      /\ Len(log[m]) \in Nat \ {0} /\ Len(log'[m]) \in {Len(log[m]), Len(log[m]) + 1}
      BY LogLengths
<1>2. /\ \A k \in 1 .. Len(log[n]) : log'[n][k] = log[n][k]
      /\ \A k \in 1 .. Len(log[m]) : log'[m][k] = log[m][k]
      BY LogsGrow
<1>3. ASSUME NEW g \in Nat, g <= h, g < Len(log[n]), g < Len(log[m])
      PROVE  /\ log'[n][g + 1] = log[n][g + 1] /\ log'[m][g + 1] = log[m][g + 1]
             /\ log[n][g + 1].answered = log[m][g + 1].answered
             /\ log[n][g + 1].apps = log[m][g + 1].apps
  <2>1. log'[n][g + 1] = log[n][g + 1] /\ log'[m][g + 1] = log[m][g + 1]
    <3>1. g + 1 \in 1 .. Len(log[n]) /\ g + 1 \in 1 .. Len(log[m])
          BY <1>1, <1>3
    <3> QED BY <1>2, <3>1, Zenon
  <2>2. log[n][1].answered = log[m][1].answered
    <3>1. 1 \in 1 .. Len(log[n]) /\ 1 \in 1 .. Len(log[m])
          BY <1>1
    <3>2. log'[n][1].answered = log'[m][1].answered
          BY Zenon DEF Together
    <3> QED BY <1>2, <3>1, <3>2, Zenon
  <2>3. ASSUME NEW k \in 1 .. g
        PROVE  KnewOf(Active(k), log[n][k + 1].memory, log[n][k].apps, log[m][k + 1].memory, log[m][k].apps)
    <3>1. k \in 1 .. h /\ k \in 1 .. Len(log[n]) /\ k + 1 \in 1 .. Len(log[n])
          /\ k \in 1 .. Len(log[m]) /\ k + 1 \in 1 .. Len(log[m])
          BY <1>1, <1>3
    <3>2. Active(k)' = Active(k)
          BY <3>1, LogEntry, LogsGrow, ActiveStays
    <3>3. KnewOf(Active(k)', log'[n][k + 1].memory, log'[n][k].apps, log'[m][k + 1].memory, log'[m][k].apps)
          BY <3>1 DEF Together
    <3> QED BY <1>2, <3>1, <3>2, <3>3
  <2>4. Together(n, m, g)
        BY <2>2, <2>3 DEF Together
  <2> QED BY <1>3, <2>1, <2>4 DEF AgreeInv
<1>4. CASE h < Len(log[n]) /\ h < Len(log[m])
  <2>1. h <= h
        OBVIOUS
  <2>2. /\ log'[n][h + 1] = log[n][h + 1] /\ log'[m][h + 1] = log[m][h + 1]
        /\ log[n][h + 1].answered = log[m][h + 1].answered
        /\ log[n][h + 1].apps = log[m][h + 1].apps
        BY <1>3, <1>4, <2>1, Zenon
  <2> QED BY <2>2, Zenon
<1>5. CASE ~(h < Len(log[n]) /\ h < Len(log[m]))
  <2>1. h - 1 \in Nat /\ h - 1 <= h /\ h - 1 < Len(log[n]) /\ h - 1 < Len(log[m]) /\ h - 1 + 1 = h
        BY <1>1, <1>5
  <2>2. log'[n][h].apps = log'[m][h].apps
        BY <1>3, <2>1
  <2>3. h \in 1 .. Len(log'[n]) - 1 /\ h \in 1 .. Len(log'[m]) - 1 /\ h \in 1 .. h
        BY <1>1, <2>1
  <2>4. /\ log'[n][h + 1] = EntryOf(Active(h)', log'[n][h + 1].memory, log'[n][h].apps, h)
        /\ log'[m][h + 1] = EntryOf(Active(h)', log'[m][h + 1].memory, log'[m][h].apps, h)
        BY <2>3 DEF EntryInv
  <2>5. KnewOf(Active(h)', log'[n][h + 1].memory, log'[n][h].apps, log'[m][h + 1].memory, log'[m][h].apps)
        BY <2>3 DEF Together
  <2> QED BY <2>2, <2>4, <2>5, SameBlock
<1> QED BY <1>4, <1>5

\* Nodes with the same InitChain have the same answers to hash unless one of the causes
\* named in KnewTheSame came between them.
THEOREM DisagreementHasCause == Spec => []DivergenceHasCause
<1>1. TypeInv /\ AgreeInv => DivergenceHasCause
  <2> SUFFICES ASSUME TypeInv, AgreeInv, NEW n \in Nodes, NEW m \in Nodes,
                      NEW h \in 0 .. Height(n) \cap 0 .. Height(m),
                      log[n][1].answered = log[m][1].answered,
                      \A k \in 1 .. h : KnewTheSame(n, m, k)
               PROVE  SameAnswers(log[n][h + 1], log[m][h + 1])
      BY DEF DivergenceHasCause
  <2>1. h \in Nat /\ h < Len(log[n]) /\ h < Len(log[m])
        BY DEF Height, TypeInv, NodesInv
  <2>2. Together(n, m, h)
        BY KnewTheSameOf DEF Together
  <2> QED BY <2>1, <2>2 DEF AgreeInv, SameAnswers
<1> QED BY <1>1, Entries, InitAgree, StepAgree, PTL DEF Spec

-----------------------------------------------------------------------------
(* Regular nodes agree *)

\* The fields e of a process when it executes a block, if it was never restarted and was
\* asked last about that block: d are the fields at the block before, active the chains
\* active for that one.
Follows(active, d, e, block) ==
  /\ d.regular = TRUE
  /\ e.handlers = d.handlers
  /\ e.initialized = d.initialized \cup ServedOf(active, d)
  /\ e.providerGenesis = TRUE
  /\ e.asked = NoBlock
  /\ e.rejected = e.handlers \cap e.initialized \cap block.invalid

\* Those of a regular process between two blocks.
Running(active, d, m) ==
  m.regular = TRUE =>
    /\ d.regular = TRUE
    /\ m.handlers = d.handlers
    /\ m.initialized = d.initialized \cup ServedOf(active, d)
    /\ m.providerGenesis = TRUE

\* The rejected chains are those of the block asked about last.
AskedInv ==
  \A n \in Nodes :
    memory[n].asked # NoBlock =>
      memory[n].rejected = memory[n].handlers \cap memory[n].initialized \cap memory[n].asked.invalid

RunningInv ==
  \A n \in Nodes, h \in Nat :
    h + 1 = Len(log[n]) => Running(Active(h), log[n][h + 1].memory, memory[n])

FollowsInv ==
  \A n \in Nodes, h \in Nat :
    (h + 1 < Len(log[n]) /\ log[n][h + 2].memory.regular = TRUE) =>
      Follows(Active(h), log[n][h + 1].memory, log[n][h + 2].memory, ledger[h + 1].block)

RegularInv == AskedInv /\ RunningInv /\ FollowsInv

LEMMA InitRegular == Init => RegularInv
<1> SUFFICES ASSUME Init PROVE RegularInv
    OBVIOUS
<1>1. PICK handlers \in [Nodes -> SUBSET Consumers], reached \in [Nodes -> Reached] :
        /\ memory = [n \in Nodes |-> GenesisMemory(handlers[n], reached[n])]
        /\ log = [n \in Nodes |-> <<GenesisEntry(handlers[n], reached[n])>>]
      BY DEF Init
<1>2. AskedInv
      BY <1>1 DEF AskedInv, GenesisMemory
<1>3. ASSUME NEW n \in Nodes
      PROVE  Len(log[n]) = 1 /\ log[n][1].memory = memory[n] /\ memory[n].regular = TRUE
             /\ memory[n].providerGenesis = TRUE
      BY <1>1 DEF GenesisEntry, GenesisMemory
<1>4. ASSUME NEW n \in Nodes, NEW h \in Nat, h + 1 = Len(log[n])
      PROVE  Running(Active(h), log[n][h + 1].memory, memory[n])
  <2>0. Len(log[n]) = 1
        BY <1>3
  <2>1. h = 0 /\ h + 1 = 1
        BY <1>4, <2>0
  <2>2. Active(h) = {}
        BY <2>1 DEF Active
  <2> QED BY <1>3, <2>1, <2>2 DEF Running, ServedOf
<1>5. ASSUME NEW n \in Nodes, NEW h \in Nat PROVE ~(h + 1 < Len(log[n]))
  <2>1. Len(log[n]) = 1
        BY <1>3
  <2> QED BY <2>1
<1> QED BY <1>2, <1>4, <1>5 DEF RegularInv, RunningInv, FollowsInv

\* A node that executes no block, and changes no field but the rejected chains, or is not
\* regular any more.
LEMMA RunningStays ==
  ASSUME TypeInv, RunningInv, [Next]_vars, NEW n \in Nodes, log'[n] = log[n],
         memory'[n].regular = TRUE =>
           /\ memory[n].regular = TRUE
           /\ memory'[n].handlers = memory[n].handlers
           /\ memory'[n].initialized = memory[n].initialized
           /\ memory'[n].providerGenesis = memory[n].providerGenesis,
         NEW h \in Nat, h + 1 = Len(log'[n])
  PROVE  Running(Active(h)', log'[n][h + 1].memory, memory'[n])
<1>1. h <= Len(ledger) + 1
      BY DEF TypeInv, NodesInv, ConsensusInv
<1>2. Active(h)' = Active(h)
      BY <1>1, LogsGrow, ActiveStays
<1> QED BY <1>2 DEF RunningInv, Running

LEMMA StepRunning == TypeInv /\ RegularInv /\ [Next]_vars => AskedInv' /\ RunningInv'
<1> SUFFICES ASSUME TypeInv, RegularInv, [Next]_vars PROVE AskedInv' /\ RunningInv'
    OBVIOUS
<1> USE DEF RegularInv
<1>0. memory \in [Nodes -> Memory] /\ log \in [Nodes -> Seq(Entry)]
      BY DEF TypeInv, NodesInv
<1>1. ASSUME UNCHANGED <<memory, log>> PROVE AskedInv' /\ RunningInv'
  <2>1. AskedInv'
        BY <1>1 DEF AskedInv
  <2>2. RunningInv'
        BY <1>1, RunningStays DEF RunningInv
  <2> QED BY <2>1, <2>2
<1>2. ASSUME NEW n \in Nodes, Restart(n) PROVE AskedInv' /\ RunningInv'
  <2>1. PICK handlers \in Configs[n] :
          memory' = [memory EXCEPT ![n] =
            [handlers |-> handlers, rejected |-> {}, initialized |-> {},
             providerGenesis |-> FALSE, asked |-> NoBlock, regular |-> FALSE]]
        BY <1>2 DEF Restart
  <2>2. log' = log
        BY <1>2 DEF Restart
  <2>3. /\ memory'[n].asked = NoBlock /\ memory'[n].regular = FALSE
        /\ \A o \in Nodes \ {n} : memory'[o] = memory[o]
        BY <1>0, <2>1
  <2>4. AskedInv'
        BY <2>3 DEF AskedInv
  <2>5. ASSUME NEW o \in Nodes, NEW h \in Nat, h + 1 = Len(log'[o])
        PROVE  Running(Active(h)', log'[o][h + 1].memory, memory'[o])
        BY <2>2, <2>3, <2>5, RunningStays
  <2> QED BY <2>4, <2>5 DEF RunningInv
<1>3. ASSUME NEW n \in Nodes, NEW p \in proposals, ProcessProposal(n, p) PROVE AskedInv' /\ RunningInv'
  <2>1. /\ memory' = [memory EXCEPT ![n].rejected = Rejecting(n, p), ![n].asked = p.block]
        /\ log' = log
        BY <1>3 DEF ProcessProposal
  <2>2. memory[n] \in Memory
        BY <1>0
  <2>3. /\ memory'[n].asked = p.block /\ memory'[n].rejected = Rejecting(n, p)
        /\ memory'[n].regular = memory[n].regular /\ memory'[n].handlers = memory[n].handlers
        /\ memory'[n].initialized = memory[n].initialized
        /\ memory'[n].providerGenesis = memory[n].providerGenesis
        BY <1>0, <2>1, <2>2 DEF Memory
  <2>4. \A o \in Nodes \ {n} : memory'[o] = memory[o]
        BY <1>0, <2>1
  <2>5. AskedInv'
        BY <2>3, <2>4 DEF AskedInv, Rejecting
  <2>6. ASSUME NEW o \in Nodes, NEW h \in Nat, h + 1 = Len(log'[o])
        PROVE  Running(Active(h)', log'[o][h + 1].memory, memory'[o])
        BY <2>1, <2>3, <2>4, <2>6, RunningStays
  <2> QED BY <2>5, <2>6 DEF RunningInv
<1>4. ASSUME NEW n \in Nodes, ExecuteBlock(n) PROVE AskedInv' /\ RunningInv'
  <2>0. PICK k \in Nat : k = Len(log[n]) /\ k >= 1 /\ k <= Len(ledger)
        BY <1>4, NewEntry
  <2> DEFINE m == [memory[n] EXCEPT !.regular = @ /\ memory[n].asked = ledger[k].block]
             q == [m EXCEPT !.asked = NoBlock]
             s == Served(m, k)
  <2>1. /\ m \in Memory /\ ledger' = ledger
        /\ memory' = [memory EXCEPT ![n] = [m EXCEPT !.initialized = @ \cup s, !.asked = NoBlock]]
        BY <1>4, <2>0, Execution DEF consensusVars
  <2>2. Len(log'[n]) = k + 1 /\ log'[n][k + 1].memory = q
        BY <1>4, <2>0, NewEntry
  <2>3. \A o \in Nodes \ {n} : log'[o] = log[o] /\ memory'[o] = memory[o]
        BY <1>0, <1>4, <2>1, NewEntry
  <2>4. s = ServedOf(Active(k), m)
        BY DEF Served, ServedOf
  <2> HIDE DEF m, s
  <2>5. /\ memory'[n].asked = NoBlock /\ memory'[n].initialized = m.initialized \cup s
        /\ memory'[n].handlers = m.handlers /\ memory'[n].regular = m.regular
        /\ memory'[n].providerGenesis = m.providerGenesis
        BY <1>0, <2>1 DEF Memory
  <2>6. /\ q.handlers = m.handlers /\ q.regular = m.regular /\ q.initialized = m.initialized
        /\ q.rejected = m.rejected
        BY <2>1 DEF Memory
  <2>7. m.regular = TRUE => memory[n].regular = TRUE /\ m.providerGenesis = memory[n].providerGenesis
        BY <1>0 DEF m, Memory
  <2>8. memory[n].regular = TRUE => memory[n].providerGenesis = TRUE
    <3>1. k - 1 \in Nat /\ k - 1 + 1 = k
          BY <2>0
    <3> QED BY <2>0, <3>1 DEF RunningInv, Running
  <2>9. Active(k)' = Active(k)
        BY <2>1 DEF Active
  <2>10. Running(Active(k)', log'[n][k + 1].memory, memory'[n])
    <3>1. ServedOf(Active(k), q) = s
          BY <2>4, <2>6 DEF ServedOf
    <3> HIDE DEF q
    <3> QED BY <2>2, <2>5, <2>6, <2>7, <2>8, <2>9, <3>1 DEF Running
  <2>11. AskedInv'
        BY <2>3, <2>5 DEF AskedInv
  <2>12. ASSUME NEW o \in Nodes, NEW h \in Nat, h + 1 = Len(log'[o])
         PROVE  Running(Active(h)', log'[o][h + 1].memory, memory'[o])
    <3>1. CASE o # n
          BY <2>3, <2>12, <3>1, RunningStays
    <3>2. CASE o = n
      <4>1. h = k
            BY <2>2, <2>12, <3>2
      <4> QED BY <2>10, <3>2, <4>1
    <3> QED BY <3>1, <3>2
  <2> QED BY <2>11, <2>12 DEF RunningInv
<1> QED BY <1>1, <1>2, <1>3, <1>4, StepKinds DEF Quiet, EndBlock

\* A regular process that executes a block follows the entry before.
LEMMA StepFollows == TypeInv /\ RegularInv /\ [Next]_vars => FollowsInv'
<1> SUFFICES ASSUME TypeInv, RegularInv, [Next]_vars, NEW n \in Nodes, NEW h \in Nat,
                    h + 1 < Len(log'[n]), log'[n][h + 2].memory.regular = TRUE
             PROVE  Follows(Active(h)', log'[n][h + 1].memory, log'[n][h + 2].memory, ledger'[h + 1].block)
    BY DEF FollowsInv
<1>1. /\ Len(log[n]) \in Nat \ {0} /\ Len(log'[n]) \in {Len(log[n]), Len(log[n]) + 1}
      /\ Len(log[n]) <= Len(ledger) + 1 /\ Len(ledger) \in Nat
      BY LogLengths DEF TypeInv, NodesInv, ConsensusInv
<1>2. \A k \in 1 .. Len(log[n]) : log'[n][k] = log[n][k]
      BY LogsGrow
<1>3. h <= Len(ledger) + 1 /\ h + 1 \in 1 .. Len(log[n])
      BY <1>1
<1>4. Active(h)' = Active(h)
      BY <1>3, LogsGrow, ActiveStays
<1>5. log'[n][h + 1] = log[n][h + 1]
      BY <1>2, <1>3
<1>6. CASE h + 1 < Len(log[n])
  <2>0. h + 2 \in 1 .. Len(log[n])
        BY <1>1, <1>6
  <2>1. log'[n][h + 2] = log[n][h + 2]
        BY <1>2, <2>0
  <2>2. h + 1 \in 1 .. Len(ledger)
        BY <1>1, <1>6
  <2>3. ledger'[h + 1] = ledger[h + 1]
    <3>1. CASE EndBlock
          BY <2>2, <3>1 DEF EndBlock, TypeInv, ConsensusInv
    <3> QED BY <3>1, LogsGrow
  <2> QED BY <1>4, <1>5, <1>6, <2>1, <2>3 DEF RegularInv, FollowsInv
<1>7. CASE ~(h + 1 < Len(log[n]))
  <2>1. PICK k \in Nat : k = Len(log[n]) /\ k = h + 1 /\ k + 1 = h + 2 /\ Len(log'[n]) = k + 1
        BY <1>1, <1>7
  <2>2. ExecuteBlock(n)
    <3>1. k # k + 1
          OBVIOUS
    <3>2. log'[n] # log[n]
          BY <2>1, <3>1
    <3>3. \A o \in Nodes : ExecuteBlock(o) => o = n
          BY <3>2, NewEntry
    <3> QED BY <3>2, <3>3, LogsGrow
  <2> DEFINE m == [memory[n] EXCEPT !.regular = @ /\ memory[n].asked = ledger[k].block]
             q == [m EXCEPT !.asked = NoBlock]
  <2>3. log'[n][k + 1].memory = q /\ ledger' = ledger /\ k \in 1 .. Len(ledger)
    <3>1. k >= 1 /\ k <= Len(ledger)
          BY <2>1, <2>2, NewEntry
    <3>2. k \in 1 .. Len(ledger)
          BY <1>1, <3>1
    <3> QED BY <2>1, <2>2, <3>2, NewEntry
  <2>4. memory[n] \in Memory
        BY DEF TypeInv, NodesInv
  <2>5. /\ q.handlers = memory[n].handlers /\ q.initialized = memory[n].initialized
        /\ q.rejected = memory[n].rejected /\ q.providerGenesis = memory[n].providerGenesis
        /\ q.asked = NoBlock
        /\ q.regular = TRUE => memory[n].regular = TRUE /\ memory[n].asked = ledger[k].block
        BY <2>4 DEF Memory
  <2> HIDE DEF q
  <2>6. memory[n].regular = TRUE /\ memory[n].asked = ledger[k].block
        BY <2>1, <2>3, <2>5
  <2>7. ledger[k].block # NoBlock
    <3>1. ledger[k] \in LedgerEntry
          BY <2>3 DEF TypeInv, ConsensusInv
    <3> QED BY <3>1, ReplicasAssumption DEF LedgerEntry
  <2>8. memory[n].rejected = memory[n].handlers \cap memory[n].initialized \cap ledger[k].block.invalid
        BY <2>6, <2>7 DEF RegularInv, AskedInv
  <2>9. Running(Active(h), log[n][h + 1].memory, memory[n])
        BY <2>1 DEF RegularInv, RunningInv
  <2>10. Follows(Active(h), log[n][h + 1].memory, q, ledger[k].block)
        BY <2>5, <2>6, <2>8, <2>9 DEF Running, Follows
  <2> QED BY <1>4, <1>5, <2>1, <2>3, <2>10
<1> QED BY <1>6, <1>7

\* Regular processes with the same InitChain have the same logs.
SameInv ==
  \A n, m \in Nodes, h \in Nat :
    (/\ h < Len(log[n]) /\ h < Len(log[m])
     /\ log[n][1].memory = log[m][1].memory
     /\ log[n][h + 1].memory.regular = TRUE /\ log[m][h + 1].memory.regular = TRUE)
      => log[n][h + 1] = log[m][h + 1]

LEMMA InitSame == EntryInv /\ Init => SameInv
<1> SUFFICES ASSUME EntryInv, Init, NEW n \in Nodes, NEW m \in Nodes, NEW h \in Nat,
                    h < Len(log[n]), log[n][1].memory = log[m][1].memory
             PROVE  log[n][h + 1] = log[m][h + 1]
    BY DEF SameInv
<1>1. Len(log[n]) = 1
      BY DEF Init
<1>2. h = 0
      BY <1>1
<1>3. log[n][1] = log[m][1]
      BY DEF EntryInv
<1> QED BY <1>2, <1>3

\* Two processes that follow the same entry have the same fields.
LEMMA SameFields ==
  ASSUME NEW active, NEW d, NEW block, NEW e \in Memory, NEW f \in Memory,
         e.regular = TRUE, f.regular = TRUE,
         Follows(active, d, e, block), Follows(active, d, f, block)
  PROVE  e = f
<1>1. /\ e.handlers = f.handlers /\ e.initialized = f.initialized /\ e.rejected = f.rejected
      /\ e.providerGenesis = f.providerGenesis /\ e.asked = f.asked /\ e.regular = f.regular
      BY DEF Follows
<1> QED BY <1>1 DEF Memory

LEMMA StepSame ==
  TypeInv /\ TypeInv' /\ EntryInv' /\ FollowsInv' /\ SameInv /\ [Next]_vars => SameInv'
<1> SUFFICES ASSUME TypeInv, TypeInv', EntryInv', FollowsInv', SameInv, [Next]_vars,
                    NEW n \in Nodes, NEW m \in Nodes, NEW h \in Nat,
                    h < Len(log'[n]), h < Len(log'[m]), log'[n][1].memory = log'[m][1].memory,
                    log'[n][h + 1].memory.regular = TRUE, log'[m][h + 1].memory.regular = TRUE
             PROVE  log'[n][h + 1] = log'[m][h + 1]
    BY DEF SameInv
<1>1. /\ Len(log[n]) \in Nat \ {0} /\ Len(log'[n]) \in {Len(log[n]), Len(log[n]) + 1}
      /\ Len(log[m]) \in Nat \ {0} /\ Len(log'[m]) \in {Len(log[m]), Len(log[m]) + 1}
      BY LogLengths
<1>2. /\ \A k \in 1 .. Len(log[n]) : log'[n][k] = log[n][k]
      /\ \A k \in 1 .. Len(log[m]) : log'[m][k] = log[m][k]
      BY LogsGrow
<1>3. log[n][1].memory = log[m][1].memory
  <2>1. 1 \in 1 .. Len(log[n]) /\ 1 \in 1 .. Len(log[m])
        BY <1>1
  <2> QED BY <1>2, <2>1
<1>4. ASSUME NEW g \in Nat, g < Len(log[n]), g < Len(log[m]),
             log'[n][g + 1].memory.regular = TRUE, log'[m][g + 1].memory.regular = TRUE
      PROVE  log'[n][g + 1] = log'[m][g + 1]
  <2>1. log'[n][g + 1] = log[n][g + 1] /\ log'[m][g + 1] = log[m][g + 1]
    <3>1. g + 1 \in 1 .. Len(log[n]) /\ g + 1 \in 1 .. Len(log[m])
          BY <1>1, <1>4
    <3> QED BY <1>2, <3>1, Zenon
  <2> QED BY <1>3, <1>4, <2>1 DEF SameInv
<1>5. CASE h < Len(log[n]) /\ h < Len(log[m])
      BY <1>4, <1>5, Zenon
<1>6. CASE ~(h < Len(log[n]) /\ h < Len(log[m]))
  <2>1. PICK g \in Nat : g + 1 = h /\ g + 2 = h + 1 /\ g < Len(log[n]) /\ g < Len(log[m])
    <3>1. h - 1 \in Nat /\ h - 1 + 1 = h /\ h - 1 + 2 = h + 1 /\ h - 1 < Len(log[n]) /\ h - 1 < Len(log[m])
          BY <1>1, <1>6
    <3> QED BY <3>1
  <2>2. /\ Follows(Active(g)', log'[n][h].memory, log'[n][h + 1].memory, ledger'[h].block)
        /\ Follows(Active(g)', log'[m][h].memory, log'[m][h + 1].memory, ledger'[h].block)
        BY <2>1 DEF FollowsInv
  <2>3. log'[n][h] = log'[m][h]
        BY <1>4, <2>1, <2>2 DEF Follows
  <2>4. /\ h + 1 \in 1 .. Len(log'[n]) /\ h + 1 \in 1 .. Len(log'[m])
        /\ h \in 1 .. Len(log'[n]) - 1 /\ h \in 1 .. Len(log'[m]) - 1
    <3>1. Len(log'[n]) \in Nat /\ Len(log'[m]) \in Nat /\ h >= 1
          BY <1>1, <2>1
    <3> QED BY <3>1
  <2>5. log'[n][h + 1].memory \in Memory /\ log'[m][h + 1].memory \in Memory
    <3>1. log'[n] \in Seq(Entry) /\ log'[m] \in Seq(Entry)
          BY DEF TypeInv, NodesInv
    <3>2. log'[n][h + 1] \in Entry /\ log'[m][h + 1] \in Entry
          BY <2>4, <3>1
    <3> QED BY <3>2 DEF Entry
  <2>6. log'[n][h + 1].memory = log'[m][h + 1].memory
        BY <2>2, <2>3, <2>5, SameFields
  <2>7. /\ log'[n][h + 1] = EntryOf(Active(h)', log'[n][h + 1].memory, log'[n][h].apps, h)
        /\ log'[m][h + 1] = EntryOf(Active(h)', log'[m][h + 1].memory, log'[m][h].apps, h)
        BY <2>4 DEF EntryInv
  <2> QED BY <2>3, <2>6, <2>7
<1> QED BY <1>5, <1>6

\* Nodes initialized alike that run without a restart, and are always asked last about
\* the block that is decided, have the same answers to hash for every block.
THEOREM RegularAgree == Spec => []RegularNodesAgree
<1>1. TypeInv /\ SameInv => RegularNodesAgree
  <2> SUFFICES ASSUME TypeInv, SameInv, NEW n \in Nodes, NEW m \in Nodes,
                      NEW h \in 0 .. Height(n) \cap 0 .. Height(m),
                      log[n][1].memory = log[m][1].memory,
                      log[n][h + 1].memory.regular, log[m][h + 1].memory.regular
               PROVE  SameAnswers(log[n][h + 1], log[m][h + 1])
      BY DEF RegularNodesAgree
  <2>1. h \in Nat /\ h < Len(log[n]) /\ h < Len(log[m])
        BY DEF Height, TypeInv, NodesInv
  <2>2. h + 1 \in 1 .. Len(log[n]) /\ h + 1 \in 1 .. Len(log[m])
        BY <2>1 DEF TypeInv, NodesInv
  <2>3. log[n][h + 1].memory \in Memory /\ log[m][h + 1].memory \in Memory
        BY <2>2, LogEntry
  <2>4. log[n][h + 1].memory.regular = TRUE /\ log[m][h + 1].memory.regular = TRUE
        BY <2>3 DEF Memory
  <2> QED BY <2>1, <2>4 DEF SameInv, SameAnswers
<1>2. TypeInv /\ RegularInv /\ [Next]_vars => RegularInv'
      BY StepRunning, StepFollows DEF RegularInv
<1>3. Spec => [](TypeInv /\ EntryInv /\ RegularInv)
      BY <1>2, Entries, InitRegular, PTL DEF Spec
<1>4. RegularInv => FollowsInv
      BY DEF RegularInv
<1> QED BY <1>1, <1>3, <1>4, InitSame, StepSame, PTL DEF Spec

=============================================================================
