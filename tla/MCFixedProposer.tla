-------------------------- MODULE MCFixedProposer ----------------------------
(* Instances of FixedProposer: four replicas of which r4 may be silent, and *)
(* a few commands.                                                         *)
EXTENDS FixedProposer

CONSTANTS r1, r2, r3, r4, c1, c2, c3, c4, c5, c6

Replica4 == {r1, r2, r3, r4}
R1R2 == {r1, r2}
OnlyR4 == {r4}
Cmd6 == {c1, c2, c3, c4, c5, c6}

(* Commands are interchangeable, so it is enough to let them reach the      *)
(* proposer in one order.  Unlike symmetry, this is sound for liveness too. *)
Order == << c1, c2, c3, c4, c5, c6 >>
InOrder == \A i \in 1 .. 5 :
             arrived'[proposer][Order[i]] >= arrived'[proposer][Order[i + 1]]
==============================================================================
