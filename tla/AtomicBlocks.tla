---------------------------- MODULE AtomicBlocks ----------------------------
(***************************************************************************)
(* What a node promises to do with a decided block: in one step, every     *)
(* served chain that can execute it has executed and committed it, and all *)
(* others are as they were.  Multiplexer needs many steps for this, calls  *)
(* to the consumers in any order among them; Replicas takes it for granted *)
(* of every node.                                                          *)
(***************************************************************************)
EXTENDS Integers

CONSTANTS
  Consumers,
  Lenient,  \* execute a block after missing some
  Hashed    \* their Info answer has a hash before their first block

VARIABLES
  height,   \* of the last block
  \* the fields of the process
  handlers, rejected, initialized,
  known,    \* the genesis values are those of the provider's InitChain
  apps      \* the consumers: their genesis, the first block they were told, their last one

vars == <<height, handlers, rejected, initialized, known, apps>>

\* A chain without state that this process has not initialized: the genesis it may have
\* from an earlier process will be replaced.
Unborn == [genesis |-> "none", initial |-> 0, last |-> 0]

\* A chain that begins with block h.
Born(h) == [genesis |-> IF known THEN "provider" ELSE "document", initial |-> h, last |-> 0]

HasState(c) == apps[c].last > 0 \/ c \in Hashed

\* Before InitChain, or when it has reached some chains.
Init ==
  /\ height = 0 /\ known \in BOOLEAN
  /\ handlers \in SUBSET Consumers /\ rejected = {}
  /\ initialized \in SUBSET handlers /\ (known \/ initialized = {})
  /\ apps = [c \in Consumers |-> IF c \in initialized THEN Born(1) ELSE Unborn]

\* A new process remembers nothing.
Restart ==
  /\ handlers' \in SUBSET Consumers
  /\ rejected' = {} /\ initialized' = {} /\ known' = FALSE
  /\ apps' = [c \in Consumers |-> IF HasState(c) THEN apps[c] ELSE Unborn]
  /\ UNCHANGED height

\* The provider's InitChain answers.
Genesis ==
  /\ height = 0
  /\ known' = TRUE
  /\ UNCHANGED <<height, handlers, rejected, initialized, apps>>

\* A chain is prepared for the next block, once in a process: one with state is taken as it
\* is, one without begins.  A hash in its Info answer does not keep a chain without blocks
\* from beginning: InitChain does not ask, and an Info call may fail.
Initialize(c) ==
  /\ c \in handlers \ initialized
  /\ initialized' = initialized \cup {c}
  /\ \/ HasState(c) /\ UNCHANGED apps
     \/ /\ apps[c].last = 0
        /\ apps' = [d \in Consumers |-> IF d = c THEN Born(height + 1) ELSE apps[d]]
  /\ UNCHANGED <<height, handlers, rejected, known>>

\* A proposal, which some of the chains refuse.
Reject ==
  /\ rejected' \in SUBSET (handlers \cap initialized)
  /\ UNCHANGED <<height, handlers, initialized, known, apps>>

Executable(c, a, h) ==
  /\ a.genesis # "none"
  /\ c \in Lenient \/ h = IF a.last = 0 THEN a.initial ELSE a.last + 1

\* What the next block makes of a chain that is served with it.
Advanced(c) ==
  LET begun == IF c \in initialized \/ HasState(c) THEN apps[c] ELSE Born(height + 1)
  IN  IF Executable(c, begun, height + 1)
      THEN [genesis |-> begun.genesis, initial |-> begun.initial, last |-> height + 1]
      ELSE begun

\* The next block, with the chains that are active for it.
Block(active) ==
  LET served == (active \cap handlers) \ rejected
  IN  /\ height' = height + 1
      /\ initialized' = initialized \cup served
      /\ apps' = [c \in Consumers |-> IF c \in served THEN Advanced(c) ELSE apps[c]]
      /\ UNCHANGED <<handlers, rejected, known>>

Next ==
  \/ Restart \/ Genesis \/ Reject
  \/ \E c \in Consumers : Initialize(c)
  \/ \E active \in SUBSET Consumers : Block(active)

Spec == Init /\ [][Next]_vars

=============================================================================
