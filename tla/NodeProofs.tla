----------------------------- MODULE NodeProofs -----------------------------
(***************************************************************************)
(* Proofs about the nodes of Replicas: each of them does with a block what *)
(* AtomicBlocks says - for any nodes, quorums, consumers, blocks and       *)
(* configurations.                                                         *)
(***************************************************************************)
EXTENDS ReplicasProofs

-----------------------------------------------------------------------------
(* The last of some blocks *)

\* Blocks up to h, of which there is a last one.
Ranked(executed, h) ==
  /\ executed \subseteq 1 .. h
  /\ executed # {} => \E k \in executed : \A j \in executed : j <= k

LEMMA LastIsIn ==
  ASSUME NEW h \in Nat, NEW executed, Ranked(executed, h), executed # {}
  PROVE  /\ LastBlock(executed) \in executed
         /\ \A j \in executed : j <= LastBlock(executed)
  BY DEF Ranked, LastBlock

LEMMA LastOrNone ==
  ASSUME NEW h \in Nat, NEW executed, Ranked(executed, h)
  PROVE  LastBlock(executed) \in 0 .. h /\ (LastBlock(executed) > 0 <=> executed # {})
<1>1. CASE executed = {}
      BY <1>1 DEF LastBlock
<1>2. CASE executed # {}
  <2>1. LastBlock(executed) \in executed
        BY <1>2, LastIsIn
  <2>2. LastBlock(executed) \in 1 .. h
        BY <2>1 DEF Ranked
  <2> QED BY <1>2, <2>2
<1> QED BY <1>1, <1>2

\* The block before the next one was executed exactly when it is the last.
LEMMA LastIsPrevious ==
  ASSUME NEW h \in Nat, NEW executed, Ranked(executed, h), executed # {}
  PROVE  h \in executed <=> LastBlock(executed) = h
<1>1. /\ LastBlock(executed) \in executed
      /\ \A j \in executed : j <= LastBlock(executed)
      BY LastIsIn
<1>2. LastBlock(executed) \in 1 .. h
      BY <1>1 DEF Ranked
<1> QED BY <1>1, <1>2

LEMMA LastIsAdded ==
  ASSUME NEW h \in Nat, NEW executed, Ranked(executed, h)
  PROVE  Ranked(executed \cup {h + 1}, h + 1) /\ LastBlock(executed \cup {h + 1}) = h + 1
<1> DEFINE more == executed \cup {h + 1}
<1>1. more \subseteq 1 .. h + 1 /\ more # {}
      BY DEF Ranked
<1>2. h + 1 \in more /\ \A j \in more : j <= h + 1
      BY <1>1
<1>3. Ranked(more, h + 1)
      BY <1>1, <1>2 DEF Ranked
<1>4. h + 1 \in Nat
      OBVIOUS
<1> HIDE DEF more
<1>5. /\ LastBlock(more) \in more
      /\ \A j \in more : j <= LastBlock(more)
      BY <1>1, <1>3, <1>4, LastIsIn
<1>6. LastBlock(more) = h + 1
  <2>1. h + 1 <= LastBlock(more) /\ LastBlock(more) <= h + 1
        BY <1>2, <1>5
  <2>2. LastBlock(more) \in 1 .. h + 1
        BY <1>1, <1>5
  <2> QED BY <2>1, <2>2
<1> QED BY <1>3, <1>6 DEF more

LEMMA RankedStays ==
  ASSUME NEW h \in Nat, NEW executed, Ranked(executed, h)
  PROVE  Ranked(executed, h + 1)
  BY DEF Ranked

\* A node's consumers executed blocks it has, of which there is a last one.
LastInv ==
  \A n \in Nodes, c \in Consumers : Ranked(Apps(n)[c].executed, Height(n))

\* What a block with these active chains makes of a consumer.
LEMMA AppOfEntry ==
  ASSUME NEW active, NEW m, NEW a, NEW h, NEW c \in Consumers
  PROVE  LET served == (active \cap m.handlers) \ m.rejected
             begun  == IF c \in served \ m.initialized /\ ~HasState(a, c)
                       THEN [genesis |-> IF m.providerGenesis THEN "provider" ELSE "document",
                             initial |-> h, executed |-> {}]
                       ELSE a[c]
         IN  EntryOf(active, m, a, h).apps[c] =
               IF c \in served /\ Executable(c, begun, h)
               THEN [begun EXCEPT !.executed = @ \cup {h}] ELSE begun
  BY DEF EntryOf

LEMMA BlockRanked ==
  ASSUME NEW active, NEW m \in Memory, NEW a \in [Consumers -> Application], NEW h \in Nat,
         NEW c \in Consumers, Ranked(a[c].executed, h)
  PROVE  Ranked(EntryOf(active, m, a, h + 1).apps[c].executed, h + 1)
<1> DEFINE served == (active \cap m.handlers) \ m.rejected
           begun  == IF c \in served \ m.initialized /\ ~HasState(a, c)
                     THEN [genesis |-> IF m.providerGenesis THEN "provider" ELSE "document",
                           initial |-> h + 1, executed |-> {}]
                     ELSE a[c]
<1>1. EntryOf(active, m, a, h + 1).apps[c] =
        IF c \in served /\ Executable(c, begun, h + 1)
        THEN [begun EXCEPT !.executed = @ \cup {h + 1}] ELSE begun
      BY AppOfEntry
<1>2. Ranked({}, h)
      BY DEF Ranked
<1>3. begun \in Application /\ Ranked(begun.executed, h)
      BY <1>2 DEF Application
<1> HIDE DEF served, begun
<1>4. Ranked(begun.executed, h + 1) /\ Ranked(begun.executed \cup {h + 1}, h + 1)
      BY <1>3, LastIsAdded, RankedStays
<1>5. [begun EXCEPT !.executed = @ \cup {h + 1}].executed = begun.executed \cup {h + 1}
      BY <1>3 DEF Application
<1> QED BY <1>1, <1>4, <1>5

\* The newest entry of a node that executes a block, and its fields afterwards.
LEMMA NewBlock ==
  ASSUME TypeInv, NEW n \in Nodes, ExecuteBlock(n)
  PROVE  \E m \in Memory :
           /\ m.handlers = memory[n].handlers /\ m.rejected = memory[n].rejected
           /\ m.initialized = memory[n].initialized
           /\ m.providerGenesis = memory[n].providerGenesis
           /\ Height(n) \in Nat /\ Height(n)' = Height(n) + 1
           /\ Apps(n) \in [Consumers -> Application]
           /\ Apps(n)' = EntryOf(Active(Height(n) + 1), m, Apps(n), Height(n) + 1).apps
           /\ Active(Height(n) + 1) \subseteq Consumers
           /\ memory'[n].handlers = m.handlers /\ memory'[n].rejected = m.rejected
           /\ memory'[n].providerGenesis = m.providerGenesis
           /\ memory'[n].initialized =
                m.initialized \cup ((Active(Height(n) + 1) \cap m.handlers) \ m.rejected)
<1> DEFINE h == Len(log[n])
           r == [memory[n] EXCEPT !.regular = @ /\ memory[n].asked = ledger[h].block]
           m == [r EXCEPT !.asked = NoBlock]
<1>1. /\ h \in Nat /\ h >= 1 /\ h <= Len(ledger)
      /\ Apps(n) \in [Consumers -> Application]
      /\ r \in Memory
      /\ memory' = [memory EXCEPT ![n] =
           [r EXCEPT !.initialized = @ \cup Served(r, h), !.asked = NoBlock]]
      BY Execution
<1>2. /\ Len(log'[n]) = h + 1
      /\ log'[n][h + 1].memory = m
      /\ log'[n][h + 1] = EntryOf(Active(h), log'[n][h + 1].memory, log[n][h].apps, h)
      BY NewEntry
<1>3. memory[n] \in Memory /\ memory \in [Nodes -> Memory]
      BY DEF TypeInv, NodesInv
<1>4. /\ r.handlers = memory[n].handlers /\ r.rejected = memory[n].rejected
      /\ r.initialized = memory[n].initialized
      /\ r.providerGenesis = memory[n].providerGenesis
      BY <1>3 DEF Memory
<1> HIDE DEF r
<1>5. /\ m \in Memory
      /\ m.handlers = r.handlers /\ m.rejected = r.rejected
      /\ m.initialized = r.initialized /\ m.providerGenesis = r.providerGenesis
      BY <1>1 DEF Memory
<1>6. Height(n) + 1 = h /\ Height(n) \in Nat /\ Height(n)' = Height(n) + 1
      BY <1>1, <1>2 DEF Height
<1>7. Apps(n) = log[n][h].apps /\ Apps(n)' = log'[n][h + 1].apps
      BY <1>2 DEF Apps
<1>8. Active(h) \subseteq Consumers
      BY <1>1, ActiveType DEF TypeInv, ConsensusInv
<1>9. memory'[n] = [r EXCEPT !.initialized = @ \cup Served(r, h), !.asked = NoBlock]
      BY <1>1, <1>3
<1>10. /\ memory'[n].handlers = r.handlers /\ memory'[n].rejected = r.rejected
       /\ memory'[n].providerGenesis = r.providerGenesis
       /\ memory'[n].initialized = r.initialized \cup Served(r, h)
  <2>1. r \in Memory
        BY <1>1
  <2> DEFINE served == Served(r, h)
  <2>2. memory'[n] = [r EXCEPT !.initialized = @ \cup served, !.asked = NoBlock]
        BY <1>9
  <2> HIDE DEF served
  <2>3. /\ memory'[n].handlers = r.handlers /\ memory'[n].rejected = r.rejected
        /\ memory'[n].providerGenesis = r.providerGenesis
        BY <2>1, <2>2 DEF Memory
  <2>4. memory'[n].initialized = r.initialized \cup served
        BY <2>1, <2>2 DEF Memory
  <2> QED BY <2>3, <2>4 DEF served
<1>11. Served(r, h) = (Active(h) \cap m.handlers) \ m.rejected
       BY <1>5 DEF Served
<1>12. Apps(n)' = EntryOf(Active(h), m, Apps(n), h).apps
       BY <1>2, <1>7
<1> HIDE DEF h, m
<1> QED BY <1>1, <1>4, <1>5, <1>6, <1>8, <1>10, <1>11, <1>12

LEMMA InitLast == Init => LastInv
<1> SUFFICES ASSUME Init, NEW n \in Nodes, NEW c \in Consumers
             PROVE  Ranked(Apps(n)[c].executed, Height(n))
    BY DEF LastInv
<1>1. PICK handlers \in [Nodes -> SUBSET Consumers], reached \in [Nodes -> Reached] :
        log = [m \in Nodes |-> <<GenesisEntry(handlers[m], reached[m])>>]
      BY DEF Init
<1>2. Apps(n) = GenesisEntry(handlers[n], reached[n]).apps /\ Height(n) = 0
      BY <1>1 DEF Apps, Height
<1>3. Apps(n)[c].executed = {}
      BY <1>2 DEF GenesisEntry, Unborn
<1> QED BY <1>2, <1>3 DEF Ranked

LEMMA StepLast == TypeInv /\ LastInv /\ [Next]_vars => LastInv'
<1> SUFFICES ASSUME TypeInv, LastInv, [Next]_vars, NEW n \in Nodes, NEW c \in Consumers
             PROVE  Ranked(Apps(n)'[c].executed, Height(n)')
    BY DEF LastInv
<1>1. Ranked(Apps(n)[c].executed, Height(n))
      BY DEF LastInv
<1>2. CASE log'[n] = log[n]
      BY <1>1, <1>2 DEF Apps, Height
<1>3. CASE ExecuteBlock(n)
  <2>1. PICK m \in Memory :
          /\ Height(n) \in Nat /\ Height(n)' = Height(n) + 1
          /\ Apps(n) \in [Consumers -> Application]
          /\ Apps(n)' = EntryOf(Active(Height(n) + 1), m, Apps(n), Height(n) + 1).apps
        BY <1>3, NewBlock
  <2> QED BY <1>1, <2>1, BlockRanked
<1>4. ASSUME NEW o \in Nodes \ {n}, ExecuteBlock(o) PROVE log'[n] = log[n]
      BY <1>4, NewEntry
<1> QED BY <1>2, <1>3, <1>4, LogsGrow

LEMMA Lasts == Spec => [](TypeInv /\ LastInv)
  BY Types, InitLast, StepLast, PTL DEF Spec

-----------------------------------------------------------------------------
(* A node is an instance of AtomicBlocks *)

\* Whether a chain has state can be told from its standing.
LEMMA StandingTells ==
  ASSUME NEW m, NEW a, NEW h \in Nat, NEW c, Ranked(a[c].executed, h)
  PROVE  (Standing(m, a, c).last > 0 \/ c \in Hashed) <=> HasState(a, c)
<1>1. LastBlock(a[c].executed) \in 0 .. h /\ (LastBlock(a[c].executed) > 0 <=> a[c].executed # {})
      BY LastOrNone
<1>2. Standing(m, a, c).last = IF HasState(a, c) \/ c \in m.initialized
                               THEN LastBlock(a[c].executed) ELSE 0
      BY DEF Standing
<1> QED BY <1>1, <1>2 DEF HasState

\* What a block makes of a chain's standing.
LEMMA BlockStanding ==
  ASSUME NEW active, NEW m \in Memory, NEW a \in [Consumers -> Application], NEW h \in Nat,
         NEW c \in Consumers, Ranked(a[c].executed, h), NEW p,
         p.initialized = m.initialized \cup ((active \cap m.handlers) \ m.rejected)
  PROVE  LET s     == Standing(m, a, c)
             begun == IF c \in m.initialized \/ s.last > 0 \/ c \in Hashed THEN s
                      ELSE [genesis |-> IF m.providerGenesis THEN "provider" ELSE "document",
                            initial |-> h + 1, last |-> 0]
             can   == /\ begun.genesis # "none"
                      /\ c \in Lenient \/ h + 1 = IF begun.last = 0 THEN begun.initial ELSE begun.last + 1
         IN  Standing(p, EntryOf(active, m, a, h + 1).apps, c) =
               IF c \in (active \cap m.handlers) \ m.rejected
               THEN IF can THEN [genesis |-> begun.genesis, initial |-> begun.initial, last |-> h + 1]
                    ELSE begun
               ELSE s
<1> DEFINE served == (active \cap m.handlers) \ m.rejected
           next == EntryOf(active, m, a, h + 1).apps
           s == Standing(m, a, c)
           begun == IF c \in m.initialized \/ s.last > 0 \/ c \in Hashed THEN s
                    ELSE [genesis |-> IF m.providerGenesis THEN "provider" ELSE "document",
                          initial |-> h + 1, last |-> 0]
           can == /\ begun.genesis # "none"
                  /\ c \in Lenient \/ h + 1 = IF begun.last = 0 THEN begun.initial ELSE begun.last + 1
           app == IF c \in served \ m.initialized /\ ~HasState(a, c)
                  THEN [genesis |-> IF m.providerGenesis THEN "provider" ELSE "document",
                        initial |-> h + 1, executed |-> {}]
                  ELSE a[c]
<1> SUFFICES Standing(p, next, c) =
               IF c \in served
               THEN IF can THEN [genesis |-> begun.genesis, initial |-> begun.initial, last |-> h + 1]
                    ELSE begun
               ELSE s
    OBVIOUS
<1>1. next[c] = IF c \in served /\ Executable(c, app, h + 1)
                THEN [app EXCEPT !.executed = @ \cup {h + 1}] ELSE app
      BY AppOfEntry
<1>2. (s.last > 0 \/ c \in Hashed) <=> HasState(a, c)
      BY StandingTells
<1> HIDE DEF next
<1>3. CASE c \notin served
  <2>1. next[c] = a[c] /\ (c \in p.initialized <=> c \in m.initialized)
        BY <1>1, <1>3
  <2>2. Standing(p, next, c) = s
        BY <2>1 DEF Standing, HasState
  <2> QED BY <1>3, <2>2
<1>4. CASE c \in served
  <2>1. app \in Application /\ Ranked(app.executed, h)
    <3>1. Ranked({}, h)
          BY DEF Ranked
    <3> QED BY <3>1 DEF Application
  <2>2. begun = [genesis |-> app.genesis, initial |-> app.initial, last |-> LastBlock(app.executed)]
    <3>1. CASE c \in m.initialized \/ HasState(a, c)
          BY <1>2, <3>1 DEF Standing
    <3>2. CASE ~(c \in m.initialized \/ HasState(a, c))
          BY <1>2, <1>4, <3>2 DEF LastBlock
    <3> QED BY <3>1, <3>2
  <2> HIDE DEF app, begun, served
  <2>3. Standing(p, next, c) =
          [genesis |-> next[c].genesis, initial |-> next[c].initial, last |-> LastBlock(next[c].executed)]
        BY <1>4 DEF Standing, served
  <2>4. can <=> Executable(c, app, h + 1)
    <3>1. /\ LastBlock(app.executed) \in Nat
          /\ LastBlock(app.executed) = 0 <=> app.executed = {}
          BY <2>1, LastOrNone
    <3>2. app.executed # {} => (h \in app.executed <=> LastBlock(app.executed) = h)
          BY <2>1, LastIsPrevious
    <3>3. /\ begun.genesis = app.genesis /\ begun.initial = app.initial
          /\ begun.last = LastBlock(app.executed)
          BY <2>2
    <3>4. h + 1 - 1 = h
          OBVIOUS
    <3>5. Executable(c, app, h + 1) <=>
            /\ app.genesis # "none"
            /\ \/ c \in Lenient
               \/ IF app.executed = {} THEN h + 1 = app.initial ELSE h \in app.executed
          BY <3>4 DEF Executable
    <3> QED BY <3>1, <3>2, <3>3, <3>5
  <2>5. CASE Executable(c, app, h + 1)
    <3>1. next[c] = [app EXCEPT !.executed = @ \cup {h + 1}]
          BY <1>1, <1>4, <2>5
    <3>2. /\ next[c].genesis = app.genesis /\ next[c].initial = app.initial
          /\ next[c].executed = app.executed \cup {h + 1}
          BY <2>1, <3>1 DEF Application
    <3>3. LastBlock(next[c].executed) = h + 1
          BY <2>1, <3>2, LastIsAdded
    <3> QED BY <1>4, <2>2, <2>3, <2>4, <2>5, <3>2, <3>3
  <2>6. CASE ~Executable(c, app, h + 1)
    <3>1. next[c] = app
          BY <1>1, <2>6
    <3> QED BY <1>4, <2>2, <2>3, <2>4, <2>6, <3>1
  <2> QED BY <2>5, <2>6
<1> QED BY <1>3, <1>4

LEMMA InitNode ==
  ASSUME Init, NEW n \in Nodes
  PROVE  Node(n)!Init
<1>1. PICK handlers \in [Nodes -> SUBSET Consumers], reached \in [Nodes -> Reached] :
        /\ \A m \in Nodes : handlers[m] \in Configs[m] /\ reached[m] \subseteq handlers[m]
        /\ memory = [m \in Nodes |-> GenesisMemory(handlers[m], reached[m])]
        /\ log = [m \in Nodes |-> <<GenesisEntry(handlers[m], reached[m])>>]
      BY DEF Init
<1>2. /\ memory[n] = GenesisMemory(handlers[n], reached[n])
      /\ Apps(n) = GenesisEntry(handlers[n], reached[n]).apps /\ Height(n) = 0
      BY <1>1 DEF Apps, Height
<1>3. /\ memory[n].handlers = handlers[n] /\ memory[n].rejected = {}
      /\ memory[n].initialized = reached[n] /\ memory[n].providerGenesis = TRUE
      BY <1>2 DEF GenesisMemory
<1>4. handlers[n] \in SUBSET Consumers /\ reached[n] \in SUBSET handlers[n]
      BY <1>1
<1>5. ASSUME NEW c \in Consumers
      PROVE  Standing(memory[n], Apps(n), c) =
               IF c \in memory[n].initialized THEN Node(n)!Born(1) ELSE Node(n)!Unborn
  <2>1. Apps(n)[c] = IF c \in reached[n]
                     THEN [genesis |-> "provider", initial |-> 1, executed |-> {}]
                     ELSE [genesis |-> "none", initial |-> 0, executed |-> {}]
        BY <1>2 DEF GenesisEntry, Unborn
  <2>2. LastBlock({}) = 0
        BY DEF LastBlock
  <2>3. CASE c \in reached[n]
        BY <1>3, <2>1, <2>2, <2>3 DEF Standing, Node!Born
  <2>4. CASE c \notin reached[n]
        BY <1>3, <2>1, <2>2, <2>4 DEF Standing, Node!Unborn
  <2> QED BY <1>3, <2>3, <2>4
<1>6. [c \in Consumers |-> Standing(memory[n], Apps(n), c)] =
        [c \in Consumers |-> IF c \in memory[n].initialized THEN Node(n)!Born(1) ELSE Node(n)!Unborn]
      BY <1>5
<1>7. memory[n].providerGenesis \in BOOLEAN
      BY <1>3
<1> QED BY <1>2, <1>3, <1>4, <1>6, <1>7 DEF Node!Init

\* A restart leaves a chain its standing only if it has state.
LEMMA RestartNode ==
  ASSUME TypeInv, LastInv, NEW n \in Nodes, Restart(n)
  PROVE  Node(n)!Restart
<1>1. PICK handlers \in Configs[n] :
        /\ memory' = [memory EXCEPT ![n] =
             [handlers |-> handlers, rejected |-> {}, initialized |-> {},
              providerGenesis |-> FALSE, asked |-> NoBlock, regular |-> FALSE]]
        /\ log' = log
      BY DEF Restart
<1>2. memory \in [Nodes -> Memory] /\ log \in [Nodes -> Seq(Entry)] /\ Len(log[n]) >= 1
      BY DEF TypeInv, NodesInv
<1>3. /\ memory'[n].handlers = handlers /\ memory'[n].rejected = {}
      /\ memory'[n].initialized = {} /\ memory'[n].providerGenesis = FALSE
      BY <1>1, <1>2
<1>4. handlers \in SUBSET Consumers
      BY ReplicasAssumption DEF ReplicasAssumption
<1>5. Height(n)' = Height(n) /\ Apps(n)' = Apps(n) /\ Height(n) \in Nat
      BY <1>1, <1>2 DEF Height, Apps
<1>6. ASSUME NEW c \in Consumers
      PROVE  Standing(memory'[n], Apps(n), c) =
               IF Standing(memory[n], Apps(n), c).last > 0 \/ c \in Hashed
               THEN Standing(memory[n], Apps(n), c) ELSE Node(n)!Unborn
  <2>1. (Standing(memory[n], Apps(n), c).last > 0 \/ c \in Hashed) <=> HasState(Apps(n), c)
        BY <1>5, StandingTells DEF LastInv
  <2> QED BY <1>3, <2>1 DEF Standing, Node!Unborn
<1> DEFINE stands(c) == Standing(memory[n], Apps(n), c)
<1>7. [c \in Consumers |-> Standing(memory'[n], Apps(n)', c)] =
        [c \in Consumers |-> IF stands(c).last > 0 \/ c \in Hashed THEN stands(c) ELSE Node(n)!Unborn]
      BY <1>5, <1>6
<1>8. \A c \in Consumers : Node(n)!HasState(c) <=> stands(c).last > 0 \/ c \in Hashed
      BY DEF Node!HasState
<1>9. [c \in Consumers |-> Standing(memory'[n], Apps(n)', c)] =
        [c \in Consumers |-> IF Node(n)!HasState(c)
                             THEN [d \in Consumers |-> stands(d)][c] ELSE Node(n)!Unborn]
      BY <1>7, <1>8
<1> QED BY <1>3, <1>4, <1>5, <1>9 DEF Node!Restart

LEMMA ProposalNode ==
  ASSUME TypeInv, NEW n \in Nodes, NEW p \in proposals, ProcessProposal(n, p)
  PROVE  Node(n)!Reject
<1>1. /\ memory' = [memory EXCEPT ![n].rejected = Rejecting(n, p), ![n].asked = p.block]
      /\ log' = log
      BY DEF ProcessProposal
<1>2. memory \in [Nodes -> Memory] /\ memory[n] \in Memory
      BY DEF TypeInv, NodesInv
<1>3. memory'[n] = [[memory[n] EXCEPT !.rejected = Rejecting(n, p)] EXCEPT !.asked = p.block]
      BY <1>1, <1>2
<1>4. /\ memory'[n].handlers = memory[n].handlers
      /\ memory'[n].initialized = memory[n].initialized
      /\ memory'[n].providerGenesis = memory[n].providerGenesis
      /\ memory'[n].rejected = Rejecting(n, p)
      BY <1>2, <1>3 DEF Memory
<1>5. Rejecting(n, p) \in SUBSET (memory[n].handlers \cap memory[n].initialized)
      BY DEF Rejecting
<1>6. Height(n)' = Height(n) /\ Apps(n)' = Apps(n)
      BY <1>1 DEF Height, Apps
<1>7. [c \in Consumers |-> Standing(memory'[n], Apps(n)', c)] =
        [c \in Consumers |-> Standing(memory[n], Apps(n), c)]
      BY <1>4, <1>6 DEF Standing
<1> QED BY <1>4, <1>5, <1>6, <1>7 DEF Node!Reject

LEMMA ExecuteNode ==
  ASSUME TypeInv, LastInv, NEW n \in Nodes, ExecuteBlock(n)
  PROVE  \E active \in SUBSET Consumers : Node(n)!Block(active)
<1> DEFINE h == Height(n)
           active == Active(h + 1)
           served == (active \cap memory[n].handlers) \ memory[n].rejected
           stands(c) == Standing(memory[n], Apps(n), c)
           begun(c) == IF c \in memory[n].initialized \/ stands(c).last > 0 \/ c \in Hashed
                       THEN stands(c)
                       ELSE [genesis |-> IF memory[n].providerGenesis THEN "provider" ELSE "document",
                             initial |-> h + 1, last |-> 0]
           can(c) == /\ begun(c).genesis # "none"
                     /\ c \in Lenient \/ h + 1 = IF begun(c).last = 0 THEN begun(c).initial
                                                 ELSE begun(c).last + 1
           done(c) == IF can(c)
                      THEN [genesis |-> begun(c).genesis, initial |-> begun(c).initial, last |-> h + 1]
                      ELSE begun(c)
<1>1. PICK m \in Memory :
        /\ m.handlers = memory[n].handlers /\ m.rejected = memory[n].rejected
        /\ m.initialized = memory[n].initialized
        /\ m.providerGenesis = memory[n].providerGenesis
        /\ h \in Nat /\ Height(n)' = h + 1
        /\ Apps(n) \in [Consumers -> Application]
        /\ Apps(n)' = EntryOf(active, m, Apps(n), h + 1).apps
        /\ active \subseteq Consumers
        /\ memory'[n].handlers = m.handlers /\ memory'[n].rejected = m.rejected
        /\ memory'[n].providerGenesis = m.providerGenesis
        /\ memory'[n].initialized = m.initialized \cup ((active \cap m.handlers) \ m.rejected)
      BY NewBlock
<1>2. ASSUME NEW c \in Consumers
      PROVE  Standing(memory'[n], Apps(n)', c) = IF c \in served THEN done(c) ELSE stands(c)
  <2>1. Ranked(Apps(n)[c].executed, h)
        BY DEF LastInv
  <2>2. Standing(m, Apps(n), c) = stands(c)
        BY <1>1 DEF Standing
  <2> HIDE DEF stands, h, active
  <2> QED BY <1>1, <2>1, <2>2, BlockStanding
<1>3. ASSUME NEW c \in Consumers PROVE Node(n)!Advanced(c) = done(c)
      BY DEF Node!Advanced, Node!Born, Node!HasState, Node!Executable
<1>4. [c \in Consumers |-> Standing(memory'[n], Apps(n)', c)] =
        [c \in Consumers |-> IF c \in served THEN Node(n)!Advanced(c)
                             ELSE [d \in Consumers |-> stands(d)][c]]
  <2> HIDE DEF done, stands, served
  <2> QED BY <1>2, <1>3
<1>5. Node(n)!Block(active)
  <2> HIDE DEF h, active
  <2> QED BY <1>1, <1>4 DEF Node!Block, h
<1> QED BY <1>1, <1>5

\* A step that leaves a node's fields and log alone is none of its own.
LEMMA OtherNode ==
  ASSUME NEW n \in Nodes, UNCHANGED <<memory[n], log[n]>>
  PROVE  UNCHANGED Node(n)!vars
<1>1. Height(n)' = Height(n) /\ Apps(n)' = Apps(n)
      BY DEF Height, Apps
<1>2. [c \in Consumers |-> Standing(memory'[n], Apps(n)', c)] =
        [c \in Consumers |-> Standing(memory[n], Apps(n), c)]
      BY <1>1 DEF Standing
<1> QED BY <1>1, <1>2 DEF Node!vars

LEMMA StepNode ==
  ASSUME TypeInv, LastInv, [Next]_vars, NEW n \in Nodes
  PROVE  UNCHANGED <<memory[n], log[n]>> \/ Node(n)!Next
<1>1. memory \in [Nodes -> Memory] /\ log \in [Nodes -> Seq(Entry)]
      BY DEF TypeInv, NodesInv
<1>2. CASE Quiet
      BY <1>2 DEF Quiet
<1>3. CASE EndBlock
      BY <1>3 DEF EndBlock
<1>4. ASSUME NEW o \in Nodes, Restart(o) PROVE UNCHANGED <<memory[n], log[n]>> \/ Node(n)!Next
  <2>1. CASE o = n
        BY <1>4, <2>1, RestartNode DEF Node!Next
  <2>2. CASE o # n
        BY <1>1, <1>4, <2>2 DEF Restart
  <2> QED BY <2>1, <2>2
<1>5. ASSUME NEW o \in Nodes, NEW p \in proposals, ProcessProposal(o, p)
      PROVE  UNCHANGED <<memory[n], log[n]>> \/ Node(n)!Next
  <2>1. CASE o = n
        BY <1>5, <2>1, ProposalNode DEF Node!Next
  <2>2. CASE o # n
        BY <1>1, <1>5, <2>2 DEF ProcessProposal
  <2> QED BY <2>1, <2>2
<1>6. ASSUME NEW o \in Nodes, ExecuteBlock(o)
      PROVE  UNCHANGED <<memory[n], log[n]>> \/ Node(n)!Next
  <2>1. CASE o = n
        BY <1>6, <2>1, ExecuteNode DEF Node!Next
  <2>2. CASE o # n
    <3>1. log'[n] = log[n]
          BY <1>6, <2>2, NewEntry
    <3>2. memory'[n] = memory[n]
          BY <1>1, <1>6, <2>2 DEF ExecuteBlock
    <3> QED BY <3>1, <3>2
  <2> QED BY <2>1, <2>2
<1> QED BY <1>2, <1>3, <1>4, <1>5, <1>6, StepKinds

\* Whatever happens to a node, in a step of its own or of consensus, is a step of
\* AtomicBlocks.
THEOREM NodesImplementAtomicBlocks == Spec => NodesAreAtomic
<1>1. Init => \A n \in Nodes : Node(n)!Init
      BY InitNode
<1>2. TypeInv /\ LastInv /\ [Next]_vars
        => [\A n \in Nodes : UNCHANGED <<memory[n], log[n]>> \/ Node(n)!Next]_vars
      BY StepNode
<1> QED BY <1>1, <1>2, Lasts, PTL DEF Spec, NodesAreAtomic

\* So each node, seen by itself, is a behaviour of AtomicBlocks from its genesis on, and
\* what holds of that specification holds of each.
THEOREM EachNodeIsAtomic ==
  ASSUME NEW n \in Nodes
  PROVE  Spec => Node(n)!Spec
<1>1. Init => Node(n)!Init
      BY InitNode
<1>2. TypeInv /\ LastInv /\ [Next]_vars => [Node(n)!Next]_(Node(n)!vars)
      BY StepNode, OtherNode
<1> QED BY <1>1, <1>2, Lasts, PTL DEF Spec, Node!Spec

=============================================================================
