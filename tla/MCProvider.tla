----------------------------- MODULE MCProvider -----------------------------
(* Values of Provider's constants that a cfg file cannot write. *)
EXTENDS Provider

CONSTANTS c1, c2, v1, v2

\* Nobody bonded, no power, an even split and one that rounds.
MCBondedSets ==
  { [v \in {} |-> 0], [v \in {v1} |-> 0],
    [v \in {v1, v2} |-> 1], [v \in {v1, v2} |-> IF v = v1 THEN 2 ELSE 1] }

Chain(status) == [status |-> status, addedAt |-> 0, sunsetAt |-> 0]

\* The genesis of the Makefile: one ACTIVE chain; and two chains of other statuses.
MCGeneses ==
  { [chains |-> [c \in {c1} |-> Chain("ACTIVE")], feesPerBlock |-> 1,
     balance |-> [c \in {c1, c2} |-> IF c = c1 THEN 2 ELSE 0]],
    [chains |-> [c \in {c1, c2} |-> IF c = c1 THEN Chain("OVERDUE") ELSE Chain("ACTIVE")],
     feesPerBlock |-> 2, balance |-> [c \in {c1, c2} |-> 1]] }

=============================================================================
