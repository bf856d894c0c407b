------------------------------- MODULE Header -------------------------------
(***************************************************************************)
(* The header that names the chain of a transaction (abci/header.go).      *)
(* Bytes are the parts between their colons: "ICS:chain:pay:load" is       *)
(* <<"ICS", "chain", "pay", "load">>.  A chain id is bytes as well: nothing *)
(* forbids a colon in it.                                                  *)
(***************************************************************************)
EXTENDS Integers, Sequences

CONSTANTS
  Parts,  \* bytes without a colon
  ICS     \* the part "ICS"

ASSUME HeaderAssumption == ICS \in Parts

Bytes == Seq(Parts) \ {<<>>}

\* A mistake, which takes ChainID's place to test a property: up to the last colon.
BadChainID(tx) == SubSeq(tx, 2, Len(tx) - 1)

\* CreateTransactionHeader(id) followed by the payload.
Transaction(id, payload) == <<ICS>> \o id \o payload

\* ParseHeader returns no error: the prefix "ICS:", and a colon in the rest.
HasHeader(tx) == Len(tx) >= 3 /\ tx[1] = ICS

\* Its chain id, the bytes before that colon, and the payload, those after it.
ChainID(tx) == SubSeq(tx, 2, 2)
Payload(tx) == SubSeq(tx, 3, Len(tx))

=============================================================================
