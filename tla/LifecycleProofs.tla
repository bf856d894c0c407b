-------------------------- MODULE LifecycleProofs --------------------------
(***************************************************************************)
(* Proofs about Lifecycle and Header: types, the fixed handlers, what Stop *)
(* leaves open, and where a transaction arrives - for any configuration    *)
(* file, flags, chains and transactions.                                   *)
(***************************************************************************)
EXTENDS Lifecycle, SequenceTheorems, TLAPS

-----------------------------------------------------------------------------
(* The header *)

\* A header for an id followed by a payload: the lengths, and where their parts are.
LEMMA TransactionParts ==
  ASSUME NEW id \in Seq(Parts), NEW payload \in Seq(Parts)
  PROVE  /\ Transaction(id, payload) \in Seq(Parts)
         /\ Len(Transaction(id, payload)) = 1 + Len(id) + Len(payload)
         /\ Transaction(id, payload)[1] = ICS
         /\ \A i \in 1 .. Len(id) : Transaction(id, payload)[i + 1] = id[i]
         /\ \A i \in 1 .. Len(payload) : Transaction(id, payload)[i + 1 + Len(id)] = payload[i]
<1> DEFINE header == <<ICS>> \o id
           tx == header \o payload
<1>1. <<ICS>> \in Seq(Parts)
      BY HeaderAssumption
<1>2. /\ header \in Seq(Parts)
      /\ Len(header) = Len(<<ICS>>) + Len(id)
      /\ \A i \in 1 .. Len(<<ICS>>) + Len(id) :
           header[i] = IF i <= Len(<<ICS>>) THEN <<ICS>>[i] ELSE id[i - Len(<<ICS>>)]
      BY <1>1, ConcatProperties, Zenon
<1>3. /\ tx \in Seq(Parts)
      /\ Len(tx) = Len(header) + Len(payload)
      /\ \A i \in 1 .. Len(header) + Len(payload) :
           tx[i] = IF i <= Len(header) THEN header[i] ELSE payload[i - Len(header)]
  <2>1. header \in Seq(Parts) /\ payload \in Seq(Parts)
        BY <1>2
  <2> HIDE DEF header
  <2> QED BY <2>1, ConcatProperties, Zenon
<1>4. Transaction(id, payload) = tx
      BY DEF Transaction
<1>5. Len(<<ICS>>) = 1 /\ <<ICS>>[1] = ICS
      OBVIOUS
<1>6. Len(id) \in Nat /\ Len(payload) \in Nat
      OBVIOUS
<1> HIDE DEF header, tx
<1>7. Len(header) = 1 + Len(id) /\ header[1] = ICS
      BY <1>2, <1>5, <1>6
<1>8. ASSUME NEW i \in 1 .. Len(id) PROVE header[i + 1] = id[i]
  <2>1. i + 1 \in 1 .. Len(<<ICS>>) + Len(id) /\ ~(i + 1 <= Len(<<ICS>>)) /\ i + 1 - Len(<<ICS>>) = i
        BY <1>5, <1>6
  <2> QED BY <1>2, <2>1
<1>9. Len(tx) = 1 + Len(id) + Len(payload) /\ tx[1] = ICS
      BY <1>3, <1>6, <1>7
<1>10. ASSUME NEW i \in 1 .. Len(id) PROVE tx[i + 1] = id[i]
      BY <1>3, <1>6, <1>7, <1>8
<1>11. ASSUME NEW i \in 1 .. Len(payload) PROVE tx[i + 1 + Len(id)] = payload[i]
  <2>1. /\ i + 1 + Len(id) \in 1 .. Len(header) + Len(payload)
        /\ ~(i + 1 + Len(id) <= Len(header)) /\ i + 1 + Len(id) - Len(header) = i
        BY <1>6, <1>7
  <2> QED BY <1>3, <2>1
<1> QED BY <1>3, <1>4, <1>9, <1>10, <1>11

\* ParseHeader of a header for an id without a colon, followed by a payload, returns that
\* id and that payload.
THEOREM HeaderRoundTrip ==
  ASSUME NEW id \in Bytes, NEW payload \in Bytes, Len(id) = 1
  PROVE  /\ HasHeader(Transaction(id, payload))
         /\ ChainID(Transaction(id, payload)) = id
         /\ Payload(Transaction(id, payload)) = payload
<1> DEFINE tx == Transaction(id, payload)
<1>1. /\ id \in Seq(Parts) /\ payload \in Seq(Parts) /\ Len(payload) \in Nat \ {0}
      BY DEF Bytes
<1>2. /\ tx \in Seq(Parts) /\ Len(tx) = 2 + Len(payload)
      /\ tx[1] = ICS /\ tx[2] = id[1]
      /\ \A i \in 1 .. Len(payload) : tx[i + 2] = payload[i]
  <2>1. /\ tx \in Seq(Parts) /\ Len(tx) = 1 + Len(id) + Len(payload) /\ tx[1] = ICS
        /\ \A i \in 1 .. Len(id) : tx[i + 1] = id[i]
        /\ \A i \in 1 .. Len(payload) : tx[i + 1 + Len(id)] = payload[i]
        BY <1>1, TransactionParts
  <2> HIDE DEF tx
  <2> QED BY <1>1, <2>1
<1> HIDE DEF tx
<1>3. HasHeader(tx)
      BY <1>1, <1>2 DEF HasHeader
<1>4. ChainID(tx) = id
  <2>1. SubSeq(tx, 2, 2) \in Seq(Parts) /\ Len(SubSeq(tx, 2, 2)) = 1 /\ SubSeq(tx, 2, 2)[1] = tx[2]
        BY <1>1, <1>2
  <2> QED BY <1>1, <1>2, <2>1 DEF ChainID
<1>5. Payload(tx) = payload
  <2>1. /\ SubSeq(tx, 3, Len(tx)) \in Seq(Parts) /\ Len(SubSeq(tx, 3, Len(tx))) = Len(payload)
        /\ \A i \in 1 .. Len(payload) : SubSeq(tx, 3, Len(tx))[i] = tx[i + 2]
        BY <1>1, <1>2
  <2> QED BY <1>1, <1>2, <2>1 DEF Payload
<1> QED BY <1>3, <1>4, <1>5 DEF tx

\* For an id with colons, ParseHeader takes its first part for the id and leaves the others
\* to the payload: CreateTransactionHeader is undone exactly for the ids without a colon.
THEOREM HeaderTakesFirstPart ==
  ASSUME NEW id \in Bytes, NEW payload \in Bytes
  PROVE  /\ HasHeader(Transaction(id, payload))
         /\ ChainID(Transaction(id, payload)) = <<id[1]>>
         /\ Payload(Transaction(id, payload)) = Tail(id) \o payload
         /\ ChainID(Transaction(id, payload)) = id <=> Len(id) = 1
<1> DEFINE tx == Transaction(id, payload)
<1>1. /\ id \in Seq(Parts) /\ payload \in Seq(Parts)
      /\ Len(id) \in Nat \ {0} /\ Len(payload) \in Nat \ {0}
      BY DEF Bytes
<1>2. /\ tx \in Seq(Parts) /\ Len(tx) = 1 + Len(id) + Len(payload) /\ tx[1] = ICS
      /\ \A i \in 1 .. Len(id) : tx[i + 1] = id[i]
      /\ \A i \in 1 .. Len(payload) : tx[i + 1 + Len(id)] = payload[i]
      BY <1>1, TransactionParts
<1> HIDE DEF tx
<1>3. HasHeader(tx)
      BY <1>1, <1>2 DEF HasHeader
<1>4. ChainID(tx) = <<id[1]>>
  <2>1. id[1] \in Parts /\ tx[2] = id[1]
        BY <1>1, <1>2
  <2>2. SubSeq(tx, 2, 2) \in Seq(Parts) /\ Len(SubSeq(tx, 2, 2)) = 1 /\ SubSeq(tx, 2, 2)[1] = tx[2]
        BY <1>1, <1>2
  <2>3. <<id[1]>> \in Seq(Parts) /\ Len(<<id[1]>>) = 1 /\ <<id[1]>>[1] = id[1]
        BY <2>1
  <2> DEFINE one == <<id[1]>>
             got == SubSeq(tx, 2, 2)
  <2> HIDE DEF one, got
  <2>4. one \in Seq(Parts) /\ got \in Seq(Parts) /\ Len(one) = 1 /\ Len(got) = 1 /\ one[1] = got[1]
        BY <2>1, <2>2, <2>3 DEF one, got
  <2>5. one = got
        BY <2>4
  <2> QED BY <2>5 DEF one, got, ChainID
<1>5. Payload(tx) = Tail(id) \o payload
  <2> DEFINE rest == Tail(id) \o payload
             got  == SubSeq(tx, 3, Len(tx))
  <2>1. /\ Tail(id) \in Seq(Parts) /\ Len(Tail(id)) = Len(id) - 1
        /\ \A i \in 1 .. Len(id) - 1 : Tail(id)[i] = id[i + 1]
        BY <1>1
  <2>2. /\ rest \in Seq(Parts) /\ Len(rest) = Len(id) - 1 + Len(payload)
        /\ \A i \in 1 .. Len(rest) :
             rest[i] = IF i <= Len(id) - 1 THEN Tail(id)[i] ELSE payload[i - (Len(id) - 1)]
        BY <1>1, <2>1
  <2>3. /\ got \in Seq(Parts) /\ Len(got) = Len(tx) - 2
        /\ \A i \in 1 .. Len(tx) - 2 : got[i] = tx[i + 2]
        BY <1>1, <1>2
  <2> HIDE DEF rest, got
  <2>4. ASSUME NEW i \in 1 .. Len(rest) PROVE rest[i] = got[i]
    <3>1. got[i] = tx[i + 2]
          BY <1>1, <1>2, <2>2, <2>3
    <3>2. CASE i <= Len(id) - 1
      <4>1. i + 1 \in 1 .. Len(id) /\ i \in 1 .. Len(id) - 1 /\ (i + 1) + 1 = i + 2
            BY <1>1, <3>2
      <4>2. tx[(i + 1) + 1] = id[i + 1]
            BY <1>2, <4>1
      <4> QED BY <2>1, <2>2, <3>1, <3>2, <4>1, <4>2
    <3>3. CASE ~(i <= Len(id) - 1)
      <4>1. /\ i - (Len(id) - 1) \in 1 .. Len(payload)
            /\ (i - (Len(id) - 1)) + 1 + Len(id) = i + 2
            BY <1>1, <2>2, <3>3
      <4>2. tx[(i - (Len(id) - 1)) + 1 + Len(id)] = payload[i - (Len(id) - 1)]
            BY <1>2, <4>1
      <4> QED BY <2>2, <3>1, <3>3, <4>1, <4>2
    <3> QED BY <3>2, <3>3
  <2>5. Len(rest) = Len(got)
        BY <1>1, <1>2, <2>2, <2>3
  <2>6. rest = got
        BY <2>2, <2>3, <2>4, <2>5
  <2> QED BY <2>6 DEF rest, got, Payload
<1>6. ChainID(tx) = id <=> Len(id) = 1
  <2>1. <<id[1]>> \in Seq(Parts) /\ Len(<<id[1]>>) = 1 /\ <<id[1]>>[1] = id[1]
        BY <1>1
  <2>2. ASSUME Len(id) = 1 PROVE <<id[1]>> = id
        BY <1>1, <2>1, <2>2
  <2> QED BY <1>4, <2>1, <2>2
<1> QED BY <1>3, <1>4, <1>5, <1>6 DEF tx

\* Any bytes with a header have an id in it.
LEMMA ParsedID ==
  ASSUME NEW tx \in Bytes, HasHeader(tx)
  PROVE  ChainID(tx) \in Bytes
<1>1. tx \in Seq(Parts) /\ Len(tx) >= 3
      BY DEF Bytes, HasHeader
<1>2. SubSeq(tx, 2, 2) \in Seq(Parts) /\ Len(SubSeq(tx, 2, 2)) = 1
      BY <1>1
<1> QED BY <1>2 DEF ChainID, Bytes

LEMMA ReceivedBytes == Received \subseteq Bytes
<1>1. ASSUME NEW id \in Bytes, NEW payload \in Bytes PROVE Transaction(id, payload) \in Bytes
  <2>0. id \in Seq(Parts) /\ payload \in Seq(Parts)
        BY DEF Bytes
  <2>1. /\ Transaction(id, payload) \in Seq(Parts)
        /\ Len(Transaction(id, payload)) = 1 + Len(id) + Len(payload)
        BY <2>0, TransactionParts
  <2>2. 1 + Len(id) + Len(payload) # 0
        BY <2>0
  <2>3. Transaction(id, payload) # <<>>
        BY <2>1, <2>2, EmptySeq, Zenon
  <2> QED BY <2>1, <2>3 DEF Bytes
<1> QED BY <1>1, LifecycleAssumption DEF Received

-----------------------------------------------------------------------------
(* Types *)

\* The chains of the handlers stay, while the handlers do or grow.
LEMMA HandlersGrow ==
  ASSUME file' = file, handlers \subseteq handlers'
  PROVE  chainHandlers \subseteq chainHandlers'
  BY DEF chainHandlers

LEMMA InitTypes == Init => TypeOK
  BY DEF Init, TypeOK, Outcomes, chainHandlers

\* The main goroutine, but for the loop that registers the handlers.
LEMMA MainTypes ==
  ASSUME TypeOK, Main
  PROVE  TypeOK' \/ InitChainHandler
<1> USE DEF TypeOK, Outcomes, chainHandlers, settings, files, cometVars, groupVars, chainVars,
            checkVars, Goto, Return, Stop
<1>1. CASE LoadConfig
      BY <1>1 DEF LoadConfig
<1>2. CASE StartCommand
  <2>1. tasks' \in {tasks, {"signal"}} /\ pc' \in {"exit", "trace"} /\ outcome' \in {"ok", "refused", outcome}
        BY <1>2 DEF StartCommand
  <2> QED BY <1>2, <2>1 DEF StartCommand
<1>3. CASE OpenTrace
      BY <1>3 DEF OpenTrace
<1>4. CASE OpenDB
      BY <1>4 DEF OpenDB
<1>5. CASE CreateProvider
      BY <1>5 DEF CreateProvider
<1>6. CASE LoadGenesis
      BY <1>6 DEF LoadGenesis, After
<1>7. CASE InitChainHandlersReturns
      BY <1>7 DEF InitChainHandlersReturns, After
<1>8. CASE NewNode
      BY <1>8 DEF NewNode
<1>9. CASE NewNodeReturns
      BY <1>9 DEF NewNodeReturns
<1>10. CASE StartNode
  <2>1. /\ pc' \in {"servers", "stopComet"} /\ outcome' \in {"startFailed", outcome}
        /\ cmNode' \in BOOLEAN /\ comet' \in {"none", "running", comet}
        BY <1>10 DEF StartNode, After
  <2> QED BY <1>10, <2>1 DEF StartNode
<1>11. CASE LocalClient
      BY <1>11 DEF LocalClient
<1>12. CASE StartGRPCServer
  <2>1. /\ pc' \in {"wait", "api", "stopComet"} /\ outcome' \in {"startFailed", outcome}
        /\ gateway' \in {"none", "open", gateway} /\ tasks' \in {tasks, tasks \cup {"grpc"}}
        BY <1>12 DEF StartGRPCServer
  <2> QED BY <1>12, <2>1 DEF StartGRPCServer
<1>13. CASE StartAPIServer
  <2>1. /\ pc' \in {"wait", "stopComet"} /\ outcome' \in {"startFailed", outcome}
        /\ tasks' \in {tasks, tasks \cup {"api"}}
        BY <1>13 DEF StartAPIServer
  <2> QED BY <1>13, <2>1 DEF StartAPIServer
<1>14. CASE Wait
      BY <1>14 DEF Wait
<1>15. CASE StopCometNode
      BY <1>15 DEF StopCometNode
<1>16. CASE CloseProvider
      BY <1>16 DEF CloseProvider
<1>17. CASE CloseConns
      BY <1>17 DEF CloseConns, Closed
<1>18. CASE StopTraceWriter
      BY <1>18 DEF StopTraceWriter
<1> QED BY <1>1, <1>2, <1>3, <1>4, <1>5, <1>6, <1>7, <1>8, <1>9, <1>10, <1>11, <1>12, <1>13,
           <1>14, <1>15, <1>16, <1>17, <1>18 DEF Main

\* The loop that registers the handlers: the new one has an id of its own.
LEMMA HandlerTypes ==
  ASSUME TypeOK, InitChainHandler
  PROVE  TypeOK'
<1> DEFINE i == Cardinality(conns) + 1
<1>1. /\ pc' \in {"handlers", "stopComet"} /\ outcome' \in {"startFailed", outcome}
      /\ i \in DOMAIN file /\ conns' \in {conns, conns \cup {i}}
      /\ handlers' = handlers \/ (handlers' = handlers \cup {i} /\ Registrable(i))
      /\ UNCHANGED <<file, flags, trace, db, provider, gateway>>
      BY DEF InitChainHandler, Goto, Stop, settings, TypeOK
<1>2. UNCHANGED <<comet, cmNode, stopError, tasks, cancelled, serverError, call, genesis,
                  initializedConsumerChains, writing, check, reached>>
      BY DEF InitChainHandler, cometVars, groupVars, chainVars, checkVars
<1> HIDE DEF i
<1>3. chainHandlers \subseteq chainHandlers'
      BY <1>1, HandlersGrow
<1>4. \A j, k \in handlers' : file'[j].id = file'[k].id => j = k
      BY <1>1 DEF Registrable, chainHandlers, TypeOK
<1>5. /\ genesis' \cup initializedConsumerChains' \subseteq chainHandlers'
      /\ call' \in chainHandlers' \cup {None} /\ writing' \in {call', None}
      BY <1>2, <1>3 DEF TypeOK
<1>6. conns' \subseteq DOMAIN file' /\ handlers' \subseteq DOMAIN file'
      BY <1>1 DEF TypeOK
<1> QED BY <1>1, <1>2, <1>4, <1>5, <1>6 DEF TypeOK, Outcomes

LEMMA StepTypes == TypeOK /\ [Next]_vars => TypeOK'
<1> SUFFICES ASSUME TypeOK, [Next]_vars PROVE TypeOK'
    OBVIOUS
<1>1. CASE Main
      BY <1>1, MainTypes, HandlerTypes
<1> USE DEF TypeOK, Outcomes, chainHandlers, settings, files, cometVars, groupVars, chainVars,
            checkVars, Goto, Return, Stop
<1>2. CASE Signal
      BY <1>2 DEF Signal
<1>3. ASSUME NEW t \in {"grpc", "api"}, ServerStops(t) PROVE TypeOK'
      BY <1>3 DEF ServerStops
<1>4. ASSUME NEW t \in {"grpc", "api"}, ServerFails(t) PROVE TypeOK'
      BY <1>4 DEF ServerFails
<1>5. ASSUME NEW c \in chainHandlers, CallConsumer(c) PROVE TypeOK'
      BY <1>5 DEF CallConsumer
<1>6. CASE InitializeConsumer \/ MarkInitialized \/ CallEnds
  <2>1. CASE InitializeConsumer
        BY <2>1 DEF InitializeConsumer
  <2>2. CASE MarkInitialized
        BY <2>2 DEF MarkInitialized
  <2>3. CASE CallEnds
        BY <2>3 DEF CallEnds
  <2> QED BY <1>6, <2>1, <2>2, <2>3
<1>7. ASSUME NEW tx \in Received, CheckTx(tx) PROVE TypeOK'
      BY <1>7 DEF CheckTx
<1>8. CASE CheckTxCalls
      BY <1>8 DEF CheckTxCalls
<1>9. CASE MapRace
      BY <1>9 DEF MapRace
<1>10. CASE StopCometNodeFails
      BY <1>10 DEF StopCometNodeFails
<1>11. CASE UNCHANGED vars
      BY <1>11 DEF vars
<1> QED BY <1>1, <1>2, <1>3, <1>4, <1>5, <1>6, <1>7, <1>8, <1>9, <1>10, <1>11 DEF Next

\* Lifecycle's variables keep their types; registered ids are distinct.
THEOREM TypeCorrect == Spec => []TypeOK
  BY InitTypes, StepTypes, PTL DEF Spec

-----------------------------------------------------------------------------
(* What is open at which stage *)

BeforeStart  == {"load", "command"}
BeforeComet  == {"trace", "db", "provider", "genesis", "handlers", "comet"}
Starting     == BeforeComet \cup {"handshake", "start", "servers", "grpc", "api", "wait"}

\* CometBFT at each stage of Start: the field is set when it runs, from the servers on.
CometInv ==
  /\ pc \in BeforeStart \cup BeforeComet => comet = "none"
  /\ pc = "start" => comet = "running"
  /\ pc \in {"servers", "grpc", "api", "wait"} => comet = "none" \/ (comet = "running" /\ cmNode)

\* A Start that came as far as its wait: the tasks are done, and Stop can stop CometBFT, or
\* had an error from it.
EndInv ==
  /\ pc \in BeforeStart => tasks = {}
  /\ pc \in BeforeStart \cup Starting => outcome = "none"
  /\ provider = "closed" => pc \in {"closeConns", "closeTrace", "exit"}
  /\ outcome \in {"ok", "serverFailed"} =>
       /\ tasks = {}
       /\ stopError \/ comet \in {"none", "stopped"} \/ (pc = "stopComet" /\ comet = "running" /\ cmNode)

\* What Stop has closed at each of its stages.
ReleaseInv ==
  /\ pc \in BeforeStart => trace = "none" /\ db = "none" /\ provider = "none" /\ conns = {}
  /\ \A i \in conns \ handlers : file[i].id \in chainHandlers
  /\ pc \in {"closeConns", "closeTrace"} => provider = "closed" /\ db = "closed"
  /\ pc = "closeTrace" => conns \cap handlers = {}
  /\ StopReleases

\* What consensus and CheckTx have done with chains and transactions.
CheckInv ==
  /\ initializedConsumerChains \subseteq genesis
  /\ writing # None => writing \in genesis
  /\ check # None => check \in Received /\ HasHeader(check)
  /\ reached # None =>
       \E tx \in Received :
         HasHeader(tx) /\ reached = Handover(tx) /\ ChainID(tx) \in genesis \cup {Provider}

StageInv == CometInv /\ EndInv /\ ReleaseInv

LEMMA InitStage == Init => StageInv /\ CheckInv
<1> SUFFICES ASSUME Init PROVE StageInv /\ CheckInv
    OBVIOUS
<1>1. CometInv /\ EndInv
      BY DEF Init, CometInv, EndInv, BeforeStart
<1>2. ReleaseInv
      BY DEF Init, ReleaseInv, StopReleases, BeforeStart
<1>3. CheckInv
      BY DEF Init, CheckInv
<1> QED BY <1>1, <1>2, <1>3 DEF StageInv

\* The stages of Start and Stop, each action of the main goroutine in turn.
LEMMA MainComet ==
  ASSUME TypeOK, StageInv, Main
  PROVE  (CometInv /\ EndInv)'
<1> USE DEF StageInv, CometInv, EndInv, TypeOK, BeforeStart, BeforeComet, Starting, settings, files, cometVars, groupVars,
            Goto, Return, Stop
<1>1. CASE LoadConfig
      BY <1>1 DEF LoadConfig
<1>2. CASE StartCommand
      BY <1>2 DEF StartCommand
<1>3. CASE OpenTrace
      BY <1>3 DEF OpenTrace
<1>4. CASE OpenDB
      BY <1>4 DEF OpenDB
<1>5. CASE CreateProvider
      BY <1>5 DEF CreateProvider
<1>6. CASE LoadGenesis
      BY <1>6 DEF LoadGenesis, After
<1>7. CASE InitChainHandler
      BY <1>7 DEF InitChainHandler, Registrable
<1>8. CASE InitChainHandlersReturns
      BY <1>8 DEF InitChainHandlersReturns, After
<1>9. CASE NewNode
      BY <1>9 DEF NewNode
<1>10. CASE NewNodeReturns
      BY <1>10 DEF NewNodeReturns
<1>11. CASE StartNode
      BY <1>11 DEF StartNode, After
<1>12. CASE LocalClient
      BY <1>12 DEF LocalClient
<1>13. CASE StartGRPCServer
      BY <1>13 DEF StartGRPCServer
<1>14. CASE StartAPIServer
      BY <1>14 DEF StartAPIServer
<1>15. CASE Wait
      BY <1>15 DEF Wait, GroupDone
<1>16. CASE StopCometNode
      BY <1>16 DEF StopCometNode
<1>17. CASE CloseProvider
      BY <1>17 DEF CloseProvider
<1>18. CASE CloseConns
      BY <1>18 DEF CloseConns, Closed
<1>19. CASE StopTraceWriter
      BY <1>19 DEF StopTraceWriter
<1> QED BY <1>1, <1>2, <1>3, <1>4, <1>5, <1>6, <1>7, <1>8, <1>9, <1>10,
           <1>11, <1>12, <1>13, <1>14, <1>15, <1>16, <1>17, <1>18, <1>19 DEF Main

\* What they open and close.
LEMMA MainRelease ==
  ASSUME TypeOK, StageInv, Main
  PROVE  ReleaseInv'
<1> USE DEF StageInv, EndInv, ReleaseInv, StopReleases, chainHandlers, TypeOK, BeforeStart, BeforeComet, Starting, settings, files, cometVars, groupVars,
            Goto, Return, Stop
<1>1. CASE LoadConfig
      BY <1>1 DEF LoadConfig
<1>2. CASE StartCommand
      BY <1>2 DEF StartCommand
<1>3. CASE OpenTrace
      BY <1>3 DEF OpenTrace
<1>4. CASE OpenDB
      BY <1>4 DEF OpenDB
<1>5. CASE CreateProvider
      BY <1>5 DEF CreateProvider
<1>6. CASE LoadGenesis
      BY <1>6 DEF LoadGenesis, After
<1>7. CASE InitChainHandler
      BY <1>7 DEF InitChainHandler, Registrable
<1>8. CASE InitChainHandlersReturns
      BY <1>8 DEF InitChainHandlersReturns, After
<1>9. CASE NewNode
      BY <1>9 DEF NewNode
<1>10. CASE NewNodeReturns
      BY <1>10 DEF NewNodeReturns
<1>11. CASE StartNode
      BY <1>11 DEF StartNode, After
<1>12. CASE LocalClient
      BY <1>12 DEF LocalClient
<1>13. CASE StartGRPCServer
      BY <1>13 DEF StartGRPCServer
<1>14. CASE StartAPIServer
      BY <1>14 DEF StartAPIServer
<1>15. CASE Wait
      BY <1>15 DEF Wait, GroupDone
<1>16. CASE StopCometNode
      BY <1>16 DEF StopCometNode
<1>17. CASE CloseProvider
      BY <1>17 DEF CloseProvider
<1>18. CASE CloseConns
      BY <1>18 DEF CloseConns, Closed
<1>19. CASE StopTraceWriter
      BY <1>19 DEF StopTraceWriter
<1> QED BY <1>1, <1>2, <1>3, <1>4, <1>5, <1>6, <1>7, <1>8, <1>9, <1>10,
           <1>11, <1>12, <1>13, <1>14, <1>15, <1>16, <1>17, <1>18, <1>19 DEF Main

\* The other goroutines move no stage, but for the race that ends the process.
LEMMA StepStage == TypeOK /\ StageInv /\ [Next]_vars => StageInv'
<1> SUFFICES ASSUME TypeOK, StageInv, [Next]_vars PROVE StageInv'
    OBVIOUS
<1>1. CASE Main
      BY <1>1, MainComet, MainRelease DEF StageInv
<1>2. ASSUME tasks' \subseteq tasks,
             UNCHANGED <<pc, outcome, settings, files, handlers, cometVars>>
      PROVE  StageInv'
  <2>1. (CometInv /\ EndInv)'
        BY <1>2 DEF StageInv, CometInv, EndInv, files, cometVars
  <2>2. ReleaseInv'
        BY <1>2 DEF StageInv, ReleaseInv, StopReleases, chainHandlers, settings, files
  <2> QED BY <2>1, <2>2 DEF StageInv
<1>3. CASE Signal
      BY <1>2, <1>3 DEF Signal
<1>4. ASSUME NEW t \in {"grpc", "api"}, ServerStops(t) \/ ServerFails(t) PROVE StageInv'
      BY <1>2, <1>4 DEF ServerStops, ServerFails
<1>5. ASSUME NEW c \in chainHandlers, CallConsumer(c) PROVE StageInv'
      BY <1>2, <1>5 DEF CallConsumer, groupVars
<1>6. CASE InitializeConsumer \/ MarkInitialized \/ CallEnds \/ CheckTxCalls
      BY <1>2, <1>6 DEF InitializeConsumer, MarkInitialized, CallEnds, CheckTxCalls, groupVars
<1>7. ASSUME NEW tx \in Received, CheckTx(tx) PROVE StageInv'
      BY <1>2, <1>7 DEF CheckTx, groupVars
<1>8. CASE MapRace
  <2>1. (CometInv /\ EndInv)'
        BY <1>8 DEF MapRace, Return, StageInv, CometInv, EndInv, files, cometVars, groupVars,
                    BeforeStart, BeforeComet, Starting
  <2>2. ReleaseInv'
        BY <1>8 DEF MapRace, Return, StageInv, ReleaseInv, StopReleases, chainHandlers,
                    settings, files, BeforeStart
  <2> QED BY <2>1, <2>2 DEF StageInv
<1>9. CASE StopCometNodeFails
  <2>1. (CometInv /\ EndInv)'
        BY <1>9 DEF StopCometNodeFails, Goto, StageInv, CometInv, EndInv, settings, files, groupVars,
                    BeforeStart, BeforeComet, Starting
  <2>2. ReleaseInv'
        BY <1>9 DEF StopCometNodeFails, Goto, StageInv, ReleaseInv, StopReleases, chainHandlers,
                    settings, files, BeforeStart
  <2> QED BY <2>1, <2>2 DEF StageInv
<1>10. CASE UNCHANGED vars
      BY <1>2, <1>10 DEF vars, groupVars
<1> QED BY <1>1, <1>3, <1>4, <1>5, <1>6, <1>7, <1>8, <1>9, <1>10 DEF Next

\* A parsed id is a chain's, never None.
LEMMA StepCheck == TypeOK /\ CheckInv /\ [Next]_vars => CheckInv'
<1> SUFFICES ASSUME TypeOK, CheckInv, [Next]_vars PROVE CheckInv'
    OBVIOUS
<1>1. CASE UNCHANGED <<chainVars, checkVars>>
      BY <1>1 DEF CheckInv, chainVars, checkVars
<1>2. CASE Main
  <2>1. UNCHANGED <<chainVars, checkVars>>
        BY <1>2 DEF Main, LoadConfig, StartCommand, OpenTrace, OpenDB, CreateProvider, LoadGenesis,
          InitChainHandler, InitChainHandlersReturns, NewNode, NewNodeReturns, StartNode, LocalClient,
          StartGRPCServer, StartAPIServer, Wait, StopCometNode, CloseProvider, CloseConns, StopTraceWriter
  <2> QED BY <1>1, <2>1
<1>3. CASE StopCometNodeFails \/ Signal \/ MapRace
      BY <1>1, <1>3 DEF StopCometNodeFails, Signal, MapRace
<1>4. ASSUME NEW t \in {"grpc", "api"}, ServerStops(t) \/ ServerFails(t) PROVE CheckInv'
      BY <1>1, <1>4 DEF ServerStops, ServerFails
<1>5. ASSUME NEW c \in chainHandlers, CallConsumer(c) PROVE CheckInv'
      BY <1>5 DEF CallConsumer, CheckInv, checkVars
<1>6. CASE InitializeConsumer \/ MarkInitialized \/ CallEnds
      BY <1>6 DEF InitializeConsumer, MarkInitialized, CallEnds, CheckInv, checkVars
<1>7. ASSUME NEW tx \in Received, CheckTx(tx) PROVE CheckInv'
      BY <1>7 DEF CheckTx, CheckInv, chainVars
<1>8. CASE CheckTxCalls
  <2>1. /\ check # None /\ check \in Received /\ HasHeader(check) /\ check' = None
        /\ UNCHANGED <<genesis, initializedConsumerChains, writing>>
        BY <1>8 DEF CheckTxCalls, Connected, CheckInv, chainVars
  <2>2. ChainID(check) # None
        BY <2>1, ReceivedBytes, ParsedID, LifecycleAssumption
  <2>3. CASE UNCHANGED reached
        BY <2>1, <2>3 DEF CheckInv
  <2>4. CASE reached' = Handover(check) /\ ChainID(check) \in initializedConsumerChains \cup {writing}
    <3>1. ChainID(check) \in genesis
          BY <2>2, <2>4 DEF CheckInv
    <3> QED BY <2>1, <2>4, <3>1 DEF CheckInv
  <2> QED BY <1>8, <2>3, <2>4 DEF CheckTxCalls
<1>9. CASE UNCHANGED vars
      BY <1>1, <1>9 DEF vars
<1> QED BY <1>2, <1>3, <1>4, <1>5, <1>6, <1>7, <1>8, <1>9 DEF Next

LEMMA Stages == Spec => [](TypeOK /\ StageInv /\ CheckInv)
  BY InitTypes, StepTypes, InitStage, StepStage, StepCheck, PTL DEF Spec

\* Stop closes the provider's database under no server and no running CometBFT, after a
\* Start that came as far as its wait and a Stop of CometBFT without an error.
THEOREM ClosedIsUnused == Spec => []NoUseAfterClose
<1>1. StageInv => NoUseAfterClose
      BY DEF StageInv, EndInv, NoUseAfterClose
<1> QED BY <1>1, Stages, PTL

\* However Start and Stop end, short of a panic, only the gateway's client and the
\* connection of a duplicate id are left open.
THEOREM Releases == Spec => []StopReleases
<1>1. StageInv => StopReleases
      BY DEF StageInv, ReleaseInv
<1> QED BY <1>1, Stages, PTL

\* CheckTx delivers to the chain named by a sender whose id has no colon, after its genesis.
THEOREM Delivery == Spec => []ReachesItsChain
<1>1. CheckInv => ReachesItsChain
  <2> SUFFICES ASSUME CheckInv, reached # None
               PROVE  /\ reached.tx \notin Garbage
                      /\ reached.chain \in genesis \cup {Provider}
                      /\ \A s \in Sent :
                           (Len(s.id) = 1 /\ reached.tx = Transaction(s.id, s.payload)) =>
                             reached.chain = s.id /\ reached.payload = s.payload
      BY DEF ReachesItsChain
  <2>1. PICK tx \in Received :
          HasHeader(tx) /\ reached = Handover(tx) /\ ChainID(tx) \in genesis \cup {Provider}
        BY DEF CheckInv
  <2>2. reached.tx = tx /\ reached.chain = ChainID(tx) /\ reached.payload = Payload(tx)
        BY <2>1 DEF Handover
  <2>3. tx \notin Garbage
        BY <2>1, LifecycleAssumption
  <2>4. ASSUME NEW s \in Sent, Len(s.id) = 1, tx = Transaction(s.id, s.payload)
        PROVE  ChainID(tx) = s.id /\ Payload(tx) = s.payload
    <3>1. s.id \in Bytes /\ s.payload \in Bytes
          BY LifecycleAssumption
    <3> QED BY <2>4, <3>1, HeaderRoundTrip
  <2> QED BY <2>1, <2>2, <2>3, <2>4
<1> QED BY <1>1, Stages, PTL

\* No step changes chainHandlers while CometBFT may call into the multiplexer.
THEOREM HandlersAreFixed == Spec => HandlersFixed
<1>1. StageInv /\ [Next]_vars => [handlers' # handlers => comet \notin {"handshake", "running"}]_vars
  <2> SUFFICES ASSUME StageInv, [Next]_vars, handlers' # handlers
               PROVE  comet \notin {"handshake", "running"}
      OBVIOUS
  <2>1. CASE InitChainHandler
        BY <2>1 DEF InitChainHandler, StageInv, CometInv, BeforeComet
  <2>2. CASE Main /\ ~InitChainHandler
        BY <2>2 DEF Main, LoadConfig, StartCommand, OpenTrace, OpenDB, CreateProvider, LoadGenesis,
          InitChainHandlersReturns, NewNode, NewNodeReturns, StartNode, LocalClient,
          StartGRPCServer, StartAPIServer, Wait, StopCometNode, CloseProvider, CloseConns, StopTraceWriter
  <2>3. CASE ~Main
        BY <2>3 DEF Next, vars, Signal, ServerStops, ServerFails, CallConsumer, InitializeConsumer,
          MarkInitialized, CallEnds, StopCometNodeFails, CheckTx, CheckTxCalls, MapRace
  <2> QED BY <2>1, <2>2, <2>3
<1> QED BY <1>1, Stages, PTL DEF Spec, HandlersFixed

=============================================================================
