---------------------------- MODULE MCLifecycle ----------------------------
(* Values of the constants of Lifecycle that a cfg file cannot write. *)
EXTENDS Lifecycle

CONSTANTS provId, consId, word

Entry(id) == [id |-> id, complete |-> TRUE]

MCProvider == <<provId>>

\* No chain; one; one with the id of the provider; the same id twice; an id with a colon
\* next to one that it begins with; an entry without an address.
MCFiles ==
  {<<>>, <<Entry(<<consId>>)>>, <<Entry(MCProvider)>>, <<Entry(<<consId>>), Entry(<<consId>>)>>,
   <<Entry(<<consId>>), Entry(<<consId, word>>)>>, <<[id |-> <<consId>>, complete |-> FALSE]>>}

MCFlags == [withCmt : BOOLEAN, trace : BOOLEAN, grpcOnly : BOOLEAN, grpc : BOOLEAN, api : BOOLEAN]

\* The payload "word:word" to consId and "word" to "consId:word" are the same bytes.
MCSent == {[id |-> <<consId>>, payload |-> <<word, word>>], [id |-> <<consId, word>>, payload |-> <<word>>],
           [id |-> MCProvider, payload |-> <<word>>]}

\* No second colon, and another prefix.
MCGarbage == {<<ICS, consId>>, <<consId, consId, word>>}

=============================================================================
