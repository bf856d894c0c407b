--------------------------- MODULE MCMultiplexer ---------------------------
(* Values of Multiplexer's constants that a cfg file cannot write. *)
EXTENDS Multiplexer

CONSTANTS c1, c2

\* Every chain once; the provider alone; two consumers, one twice; a bad header last.
MCBlocks == { <<c1, Provider, c2>>, <<Provider>>, <<c1, Unparsable>> }

\* Both consumers configured, or only one, so that the other is a chain without handler.
BothConfigured == {{c1, c2}}
SecondAddedLater == {{c1}, {c1, c2}}
AnyConfigured == {{c1}, {c2}, {c1, c2}}

AnyActive == SUBSET {c1, c2}

=============================================================================
