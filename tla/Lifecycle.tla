----------------------------- MODULE Lifecycle -----------------------------
(***************************************************************************)
(* The life of one node's process (cmd/main.go, cmd/start.go, Start and    *)
(* Stop of abci/multiplexer.go): what is opened in which order, who uses   *)
(* it, what is closed after an error, a panic or a signal; and the CheckTx *)
(* calls that other connections make meanwhile, with the header that says  *)
(* where a transaction goes.                                               *)
(*                                                                         *)
(* pc is where the main goroutine is.  A step that may fail has a disjunct *)
(* for it.  CometBFT, the SDK's servers and its signal handling are not    *)
(* part of the repository; InitChain and FinalizeBlock are reduced to what *)
(* they do to initializedConsumerChains.                                   *)
(***************************************************************************)
EXTENDS Header, FiniteSets

CONSTANTS
  Provider,     \* chain id of the provider
  Files,        \* bound: what ics.toml may hold, sequences of [id, complete]
  Flags,        \* bound: flags and settings, [withCmt, trace, grpcOnly, grpc, api]
  Sent,         \* bound: what clients send, [id, payload] under a header for id
  Garbage,      \* bound: other bytes they send
  None

VARIABLES
  pc,           \* of the main goroutine
  outcome,      \* how start ends
  file, flags,
  trace, db, provider, gateway,  \* "none", "open" or "closed"
  conns,        \* entries of the file whose connection is open
  handlers,     \* entries registered in chainHandlers
  comet,        \* CometBFT: "none", "handshake", "running" or "stopped"
  cmNode,       \* whether the field is set
  stopError,    \* its Stop returned an error, which is logged
  tasks,        \* goroutines of the errgroup: "signal", "grpc", "api"
  cancelled,    \* the context of the servers
  serverError,  \* a task returned an error
  call,         \* the consumer a call of consensus waits for, or None
  genesis,      \* consumers that answered InitChain, or Info with state
  initializedConsumerChains,
  writing,      \* the chain that map is being written for, or None
  check,        \* the transaction of a CheckTx between its two lookups, or None
  reached       \* what the last CheckTx handed to which chain, or None

settings == <<file, flags>>
files == <<trace, db, provider, gateway, conns>>
cometVars == <<comet, cmNode, stopError>>
groupVars == <<tasks, cancelled, serverError>>
chainVars == <<call, genesis, initializedConsumerChains, writing>>
checkVars == <<check, reached>>
vars == <<pc, outcome, settings, files, handlers, cometVars, groupVars, chainVars, checkVars>>

ASSUME LifecycleAssumption ==
  /\ Provider \in Bytes
  /\ \A f \in Files : f \in Seq([id : Bytes, complete : BOOLEAN])
  /\ Flags \subseteq [withCmt : BOOLEAN, trace : BOOLEAN, grpcOnly : BOOLEAN,
                      grpc : BOOLEAN, api : BOOLEAN]
  /\ \A s \in Sent : s.id \in Bytes /\ s.payload \in Bytes
  /\ Garbage \subseteq {tx \in Bytes : ~HasHeader(tx)}
  /\ None \notin Bytes

-----------------------------------------------------------------------------
\* How a run of the process may end: start returns no error, a server's, or Start's; start
\* returns an error before there is a multiplexer; the process panics, or the runtime ends it.
Outcomes == {"ok", "serverFailed", "startFailed", "refused", "panic", "aborted"}

chainHandlers == {file[i].id : i \in handlers}

Connected(c) == \E i \in handlers \cap conns : file[i].id = c

Up == pc # "exit"

Init ==
  /\ pc = "load" /\ outcome = "none"
  /\ file \in Files /\ flags \in Flags
  /\ trace = "none" /\ db = "none" /\ provider = "none" /\ gateway = "none"
  /\ conns = {} /\ handlers = {}
  /\ comet = "none" /\ cmNode = FALSE /\ stopError = FALSE
  /\ tasks = {} /\ cancelled = FALSE /\ serverError = FALSE
  /\ call = None /\ genesis = {} /\ initializedConsumerChains = {} /\ writing = None
  /\ check = None /\ reached = None

Goto(label) == pc' = label /\ UNCHANGED outcome

\* start returns before there is a multiplexer to stop.
Return(result) == pc' = "exit" /\ outcome' = result

\* Start returns, or something under it panics: the deferred Stop runs.
Stop(result) == pc' = "stopComet" /\ outcome' = result

-----------------------------------------------------------------------------
(* Variants with a mistake, one of which takes a definition's place to test a property *)

BadGroupDone      == "signal" \notin tasks      \* the servers are not waited for
BadRegistrable(i) == TRUE                       \* no look at the ids already there
BadAfter(stage)   ==                            \* CometBFT first, its handlers later
  IF stage = "genesis" THEN "comet" ELSE IF stage = "comet" THEN "handlers" ELSE "servers"
BadClosed         == conns                      \* connections are left open
BadCancel         == FALSE                      \* the servers run under another context

-----------------------------------------------------------------------------
(* The command *)

\* LoadConfig: an incomplete entry is refused, and so is a file that cannot be read or
\* created.  Without a file there are no chains.
LoadConfig ==
  /\ pc = "load"
  /\ \/ (\A i \in DOMAIN file : file[i].complete) /\ Goto("command")
     \/ Return("refused")
  /\ UNCHANGED <<settings, files, handlers, cometVars, groupVars, chainVars, checkVars>>

\* The start handler: nothing without CometBFT, an error for invalid settings, else a
\* multiplexer whose Start begins with the context and the wait for a signal.
StartCommand ==
  /\ pc = "command"
  /\ \/ ~flags.withCmt /\ Return("ok") /\ UNCHANGED tasks
     \/ flags.withCmt /\ Return("refused") /\ UNCHANGED tasks
     \/ flags.withCmt /\ Goto("trace") /\ tasks' = {"signal"}
  /\ UNCHANGED <<settings, files, handlers, cometVars, cancelled, serverError, chainVars, checkVars>>

-----------------------------------------------------------------------------
(* Start: each step goes on, or ends it *)

\* The order of Start's parts.
After(stage) ==
  IF stage = "genesis" THEN "handlers"
  ELSE IF stage = "handlers" /\ ~flags.grpcOnly THEN "comet" ELSE "servers"

OpenTrace ==
  /\ pc = "trace"
  /\ \/ Goto("db") /\ trace' = IF flags.trace THEN "open" ELSE "none"
     \/ flags.trace /\ Stop("startFailed") /\ UNCHANGED trace
  /\ UNCHANGED <<settings, db, provider, gateway, conns, handlers, cometVars, groupVars, chainVars, checkVars>>

OpenDB ==
  /\ pc = "db"
  /\ \/ Goto("provider") /\ db' = "open"
     \/ Stop("startFailed") /\ UNCHANGED db
  /\ UNCHANGED <<settings, trace, provider, gateway, conns, handlers, cometVars, groupVars, chainVars, checkVars>>

\* The application's creator has no error to return.
CreateProvider ==
  /\ pc = "provider"
  /\ \/ Goto("genesis") /\ provider' = "open"
     \/ Stop("panic") /\ UNCHANGED provider
  /\ UNCHANGED <<settings, trace, db, gateway, conns, handlers, cometVars, groupVars, chainVars, checkVars>>

\* Both files are needed: getProviderChainID panics, loadGenesisValues returns an error.
LoadGenesis ==
  /\ pc = "genesis"
  /\ Goto(After("genesis")) \/ Stop("panic") \/ Stop("startFailed")
  /\ UNCHANGED <<settings, files, handlers, cometVars, groupVars, chainVars, checkVars>>

\* No other entry with this id is registered.
Registrable(i) == file[i].id \notin chainHandlers

\* One turn of initChainHandlers: it connects first and looks at the id after that.
InitChainHandler ==
  LET i == Cardinality(conns) + 1
  IN  /\ pc = "handlers" /\ i \in DOMAIN file
      /\ \/ /\ conns' = conns \cup {i}
            /\ \/ Registrable(i) /\ handlers' = handlers \cup {i} /\ Goto("handlers")
               \/ ~Registrable(i) /\ Stop("startFailed") /\ UNCHANGED handlers
         \/ Stop("startFailed") /\ UNCHANGED <<conns, handlers>>
      /\ UNCHANGED <<settings, trace, db, provider, gateway, cometVars, groupVars, chainVars, checkVars>>

InitChainHandlersReturns ==
  /\ pc = "handlers" /\ Cardinality(conns) = Len(file)
  /\ Goto(After("handlers"))
  /\ UNCHANGED <<settings, files, handlers, cometVars, groupVars, chainVars, checkVars>>

\* startCmtNode: the node's handshake calls InitChain, or replays blocks.
NewNode ==
  /\ pc = "comet"
  /\ \/ comet' = "handshake" /\ Goto("handshake")
     \/ Stop("startFailed") /\ UNCHANGED comet
  /\ UNCHANGED <<settings, files, handlers, cmNode, stopError, groupVars, chainVars, checkVars>>

\* The handshake waits for all the consumers it calls, without a deadline.
NewNodeReturns ==
  /\ pc = "handshake" /\ call = None
  /\ \/ comet' = "running" /\ Goto("start")
     \/ comet' = "none" /\ Stop("startFailed")
  /\ UNCHANGED <<settings, files, handlers, cmNode, stopError, groupVars, chainVars, checkVars>>

\* The field is set only if the node's Start returns no error; parts of it may run even so.
StartNode ==
  /\ pc = "start"
  /\ \/ cmNode' = TRUE /\ Goto(After("comet")) /\ UNCHANGED comet
     \/ /\ comet' = "running" \/ (comet' = "none" /\ call = None)
        /\ Stop("startFailed") /\ UNCHANGED cmNode
  /\ UNCHANGED <<settings, files, handlers, stopError, groupVars, chainVars, checkVars>>

-----------------------------------------------------------------------------
(* The servers *)

GrpcEnabled == flags.grpc \/ flags.grpcOnly

\* A local client of a node that was never made: CometBFT's code may dereference it.
LocalClient ==
  /\ pc = "servers"
  /\ \/ Goto("grpc")
     \/ (flags.api \/ GrpcEnabled) /\ ~cmNode /\ Stop("panic")
  /\ UNCHANGED <<settings, files, handlers, cometVars, groupVars, chainVars, checkVars>>

\* startGRPCServer: an address, the client of the gateway, the server.
StartGRPCServer ==
  /\ pc = "grpc"
  /\ \/ ~GrpcEnabled /\ Goto("wait") /\ UNCHANGED <<gateway, tasks>>
     \/ GrpcEnabled /\ Goto("api") /\ gateway' = "open" /\ tasks' = tasks \cup {"grpc"}
     \/ GrpcEnabled /\ Stop("startFailed") /\ gateway' \in {"none", "open"} /\ UNCHANGED tasks
  /\ UNCHANGED <<settings, trace, db, provider, conns, handlers, cometVars,
                 cancelled, serverError, chainVars, checkVars>>

\* The API server is started inside the gRPC branch only, and its metrics may fail.
StartAPIServer ==
  /\ pc = "api"
  /\ \/ ~flags.api /\ Goto("wait") /\ UNCHANGED tasks
     \/ flags.api /\ Goto("wait") /\ tasks' = tasks \cup {"api"}
     \/ flags.api /\ Stop("startFailed") /\ UNCHANGED tasks
  /\ UNCHANGED <<settings, files, handlers, cometVars, cancelled, serverError, chainVars, checkVars>>

\* What the servers run under is a child of the context that the signal cancels.
Cancel == TRUE

\* SIGINT or SIGTERM, from getCtx on.
Signal ==
  /\ Up /\ "signal" \in tasks
  /\ tasks' = tasks \ {"signal"} /\ cancelled' = (cancelled \/ Cancel)
  /\ UNCHANGED <<pc, outcome, settings, files, handlers, cometVars, serverError, chainVars, checkVars>>

ServerStops(t) ==
  /\ Up /\ t \in tasks \ {"signal"} /\ cancelled
  /\ tasks' = tasks \ {t}
  /\ UNCHANGED <<pc, outcome, settings, files, handlers, cometVars, cancelled, serverError, chainVars, checkVars>>

\* A server's error cancels the context, but the wait for a signal does not end with it.
ServerFails(t) ==
  /\ Up /\ t \in tasks \ {"signal"}
  /\ tasks' = tasks \ {t} /\ cancelled' = TRUE /\ serverError' = TRUE
  /\ UNCHANGED <<pc, outcome, settings, files, handlers, cometVars, chainVars, checkVars>>

GroupDone == tasks = {}

Wait ==
  /\ pc = "wait" /\ GroupDone
  /\ Stop(IF serverError THEN "serverFailed" ELSE "ok")
  /\ UNCHANGED <<settings, files, handlers, cometVars, groupVars, chainVars, checkVars>>

-----------------------------------------------------------------------------
(* Stop *)

\* CometBFT ends the call under way first, and has no deadline for it either.
StopCometNode ==
  /\ pc = "stopComet" /\ Goto("closeProvider")
  /\ IF cmNode /\ comet = "running" THEN call = None /\ comet' = "stopped" ELSE UNCHANGED comet
  /\ UNCHANGED <<settings, files, handlers, cmNode, stopError, groupVars, chainVars, checkVars>>

\* If its Stop returns an error, it is not waited for, and the rest is stopped all the same.
StopCometNodeFails ==
  /\ pc = "stopComet" /\ Goto("closeProvider")
  /\ cmNode /\ comet = "running" /\ stopError' = TRUE
  /\ UNCHANGED <<settings, files, handlers, comet, cmNode, groupVars, chainVars, checkVars>>

\* Close is called on the field whether it was set or not; the application closes its
\* database.
CloseProvider ==
  /\ pc = "closeProvider"
  /\ IF provider = "none"
     THEN Return("panic") /\ UNCHANGED <<provider, db>>
     ELSE Goto("closeConns") /\ provider' = "closed" /\ db' = "closed"
  /\ UNCHANGED <<settings, trace, gateway, conns, handlers, cometVars, groupVars, chainVars, checkVars>>

\* Connections after the loop over chainHandlers.
Closed == conns \ handlers

CloseConns ==
  /\ pc = "closeConns" /\ Goto("closeTrace")
  /\ conns' = Closed
  /\ UNCHANGED <<settings, trace, db, provider, gateway, handlers, cometVars, groupVars, chainVars, checkVars>>

StopTraceWriter ==
  /\ pc = "closeTrace" /\ Goto("exit")
  /\ trace' = IF trace = "open" THEN "closed" ELSE trace
  /\ UNCHANGED <<settings, db, provider, gateway, conns, handlers, cometVars, groupVars, chainVars, checkVars>>

-----------------------------------------------------------------------------
(* Consensus and the mempool, on connections of their own *)

\* InitChain, FinalizeBlock or another handler calls a consumer, and does not return before
\* the consumer answers or the connection breaks: calls have no deadline.  One stands for
\* those that run at the same time.
CallConsumer(c) ==
  /\ Up /\ comet \in {"handshake", "running"} /\ call = None
  /\ call' = c
  /\ UNCHANGED <<pc, outcome, settings, files, handlers, cometVars, groupVars,
                 genesis, initializedConsumerChains, writing, checkVars>>

\* The answer initializes the consumer, and its handler begins to write the map.
InitializeConsumer ==
  /\ Up /\ call # None /\ writing = None
  /\ call \notin initializedConsumerChains /\ Connected(call)
  /\ genesis' = genesis \cup {call} /\ writing' = call
  /\ UNCHANGED <<pc, outcome, settings, files, handlers, cometVars, groupVars,
                 call, initializedConsumerChains, checkVars>>

MarkInitialized ==
  /\ Up /\ writing # None
  /\ initializedConsumerChains' = initializedConsumerChains \cup {writing}
  /\ writing' = None /\ call' = None
  /\ UNCHANGED <<pc, outcome, settings, files, handlers, cometVars, groupVars, genesis, checkVars>>

\* The answer changes nothing here, or is an error.
CallEnds ==
  /\ Up /\ call # None /\ writing = None
  /\ call' = None
  /\ UNCHANGED <<pc, outcome, settings, files, handlers, cometVars, groupVars,
                 genesis, initializedConsumerChains, writing, checkVars>>

Handover(tx) == [tx |-> tx, chain |-> ChainID(tx), payload |-> Payload(tx)]

\* CheckTx up to its first lookup.  Bytes without a header, or for a chain without a
\* handler, go nowhere.
CheckTx(tx) ==
  /\ Up /\ comet = "running" /\ check = None /\ HasHeader(tx)
  /\ \/ ChainID(tx) = Provider /\ provider = "open" /\ reached' = Handover(tx) /\ UNCHANGED check
     \/ ChainID(tx) \in chainHandlers \ {Provider} /\ check' = tx /\ UNCHANGED reached
  /\ UNCHANGED <<pc, outcome, settings, files, handlers, cometVars, groupVars, chainVars>>

\* The second lookup, which may or may not see what is being written, and the call.
CheckTxCalls ==
  /\ Up /\ check # None /\ check' = None
  /\ LET c == ChainID(check)
     IN  \/ /\ Connected(c) /\ c \in initializedConsumerChains \cup {writing}
            /\ reached' = Handover(check)
         \/ (~Connected(c) \/ c \notin initializedConsumerChains) /\ UNCHANGED reached
  /\ UNCHANGED <<pc, outcome, settings, files, handlers, cometVars, groupVars, chainVars>>

\* Go's runtime ends a process in which it sees a map read while it is written.
MapRace ==
  /\ Up /\ check # None /\ writing # None
  /\ Return("aborted")
  /\ UNCHANGED <<settings, files, handlers, cometVars, groupVars, chainVars, checkVars>>

-----------------------------------------------------------------------------

Received == {Transaction(s.id, s.payload) : s \in Sent} \cup Garbage

Main ==
  \/ LoadConfig \/ StartCommand
  \/ OpenTrace \/ OpenDB \/ CreateProvider \/ LoadGenesis
  \/ InitChainHandler \/ InitChainHandlersReturns
  \/ NewNode \/ NewNodeReturns \/ StartNode
  \/ LocalClient \/ StartGRPCServer \/ StartAPIServer \/ Wait
  \/ StopCometNode \/ CloseProvider \/ CloseConns \/ StopTraceWriter

Next ==
  \/ Main \/ StopCometNodeFails \/ Signal
  \/ \E t \in {"grpc", "api"} : ServerStops(t) \/ ServerFails(t)
  \/ \E c \in chainHandlers : CallConsumer(c)
  \/ InitializeConsumer \/ MarkInitialized \/ CallEnds
  \/ \E tx \in Received : CheckTx(tx)
  \/ CheckTxCalls \/ MapRace

\* Goroutines run, and servers return once their context is cancelled.  A consumer need not
\* ever answer.  Between two calls CometBFT gets around to what waits for the first to end:
\* its handshake makes so many calls and no more, and its Stop is looked at before the next.
Fairness ==
  /\ WF_vars(Main) /\ WF_vars(MarkInitialized)
  /\ SF_vars(NewNodeReturns) /\ SF_vars(StopCometNode)
  /\ \A t \in {"grpc", "api"} : WF_vars(ServerStops(t))

Spec == Init /\ [][Next]_vars /\ Fairness

-----------------------------------------------------------------------------
(* Properties *)

\* Every variable stays within its type; the handlers have distinct ids, and consensus
\* deals only with chains that have one.
TypeOK ==
  /\ pc \in {"load", "command", "trace", "db", "provider", "genesis", "handlers", "comet",
             "handshake", "start", "servers", "grpc", "api", "wait",
             "stopComet", "closeProvider", "closeConns", "closeTrace", "exit"}
  /\ outcome \in Outcomes \cup {"none"}
  /\ file \in Files /\ flags \in Flags
  /\ {trace, db, provider, gateway} \subseteq {"none", "open", "closed"}
  /\ conns \subseteq DOMAIN file /\ handlers \subseteq DOMAIN file
  /\ \A i, j \in handlers : file[i].id = file[j].id => i = j
  /\ comet \in {"none", "handshake", "running", "stopped"}
  /\ cmNode \in BOOLEAN /\ stopError \in BOOLEAN /\ cancelled \in BOOLEAN /\ serverError \in BOOLEAN
  /\ tasks \subseteq {"signal", "grpc", "api"}
  /\ genesis \cup initializedConsumerChains \subseteq chainHandlers
  /\ call \in chainHandlers \cup {None} /\ writing \in {call, None}
  /\ check \in Received \cup {None}
  /\ reached \in {Handover(tx) : tx \in Received} \cup {None}

\* Once Stop has closed the provider and its database, no block is executed in them and no
\* server answers from them - after a Start that came as far as its wait, however it ended,
\* and if CometBFT's own Stop returned no error.
NoUseAfterClose ==
  provider = "closed" /\ outcome \in {"ok", "serverFailed"} /\ ~stopError =>
    comet \notin {"handshake", "running"} /\ tasks = {}

\* A process that ends without a panic has closed what it opened, wherever Start failed,
\* but for the client of the gateway and the connection of a duplicate id.
StopReleases ==
  pc = "exit" /\ outcome \notin {"panic", "aborted"} =>
    /\ trace # "open" /\ db # "open" /\ provider # "open"
    /\ \A i \in conns : i \notin handlers /\ file[i].id \in chainHandlers

\* A transaction CheckTx hands over arrives at the chain its sender named, with the
\* sender's payload, if the id has no colon; and at a consumer only after its genesis.
ReachesItsChain ==
  reached # None =>
    /\ reached.tx \notin Garbage
    /\ reached.chain \in genesis \cup {Provider}
    /\ \A s \in Sent :
         (Len(s.id) = 1 /\ reached.tx = Transaction(s.id, s.payload)) =>
           reached.chain = s.id /\ reached.payload = s.payload

\* chainHandlers does not change as long as CometBFT may call: CheckTx, Query, InitChain and
\* the rest read the map without a lock.
HandlersFixed ==
  [][handlers' # handlers => comet \notin {"handshake", "running"}]_vars

\* After a signal the process ends, whatever part of Start or Stop it was in - unless a call
\* to a consumer is never answered: Start's handshake and Stop wait for it without a deadline
\* (remote.go: context.Background()), and no signal gets through to them.
SignalEnds ==
  []<>(call = None) =>
    ((pc \notin {"load", "command"} /\ "signal" \notin tasks) ~> (pc = "exit"))

=============================================================================
