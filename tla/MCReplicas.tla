---------------------------- MODULE MCReplicas -----------------------------
(* Values of the constants of Replicas that a cfg file cannot write. *)
EXTENDS Replicas

CONSTANTS c1, c2, n1, n2

MCSorted == <<c1, c2>>

\* n1 is the validator and n2 a full node, which may be late.
MCQuorums == {{n1}}

\* Both chains have a transaction, and c1 may refuse its own.
MCBlocks == {[txs |-> {c1, c2}, invalid |-> {}], [txs |-> {c1, c2}, invalid |-> {c1}]}

Chain(status) == [status |-> status, addedAt |-> 0, sunsetAt |-> 0]

NoValidators == {[v \in {} |-> 0]}

\* c1 can pay for one block, c2 for none: they go on when somebody funds them.  Or there
\* are no fees.
MCGeneses ==
  { [chains |-> [c \in {c1, c2} |-> IF c = c1 THEN Chain("ACTIVE") ELSE Chain("OVERDUE")],
     feesPerBlock |-> 1, balance |-> [c \in {c1, c2} |-> IF c = c1 THEN 1 ELSE 0]],
    [chains |-> [c \in {c1, c2} |-> Chain("ACTIVE")], feesPerBlock |-> 0,
     balance |-> [c \in {c1, c2} |-> 1]] }

\* n2 may be configured with one chain only, at first or after a restart.
MCConfigs == [n \in {n1, n2} |-> IF n = n1 THEN {{c1, c2}} ELSE {{c1, c2}, {c2}}]

\* The chains of a node may be started late.
MCReached == {{}, {c1, c2}}

=============================================================================
