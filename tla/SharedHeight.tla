---------------------------- MODULE SharedHeight ----------------------------
(***************************************************************************)
(* What one node promises about the heights of its chains: the provider    *)
(* commits one block after the other, and a consumer only ever catches up  *)
(* with it.  A consumer may miss blocks - the code lets it - but it never  *)
(* commits a block before the provider has, and never goes back.           *)
(***************************************************************************)
EXTENDS Integers

CONSTANT Followers

VARIABLES leader, follower

Init ==
  /\ leader = 0
  /\ follower = [c \in Followers |-> 0]

Lead ==
  /\ leader' = leader + 1
  /\ UNCHANGED follower

Follow(c) ==
  /\ \E h \in follower[c] + 1 .. leader : follower' = [follower EXCEPT ![c] = h]
  /\ UNCHANGED leader

Next == Lead \/ \E c \in Followers : Follow(c)

Spec == Init /\ [][Next]_<<leader, follower>>

=============================================================================
