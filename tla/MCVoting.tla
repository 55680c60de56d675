------------------------------ MODULE MCVoting -------------------------------
(* Voting on two branches that fork at genesis: on the left every block    *)
(* carries the certificate of its parent, as under a stable proposer; on   *)
(* the right the certificates stay at genesis for a while, as under        *)
(* proposers whose blocks go unvoted, and are fresh from then on.          *)
EXTENDS Voting, TLC

CONSTANTS LeftHeight, RightHeight,     \* heights of the two branches
          r1, r2, r3, r4

MCReplica == {r1, r2, r3, r4}
MCFaulty  == {r4}
MCPayload == {"left", "right"}

(* The block of height h of a branch that is fresh above height k. *)
RECURSIVE Branch(_, _, _)
Branch(payload, h, k) ==
  IF h = 0 THEN genesis
  ELSE LET p == Branch(payload, h - 1, k)
       IN  NewBlock(p, payload, IF h <= k THEN genesis ELSE p)

Branches ==
  {Branch("left", h, 0) : h \in 0 .. LeftHeight} \cup
  UNION {{Branch("right", h, k) : k \in 1 .. h} : h \in 1 .. RightHeight}

(* TLC computes what Block refers to only once. *)
MCBlock == Branches

Symmetry == Permutations(MCReplica \ MCFaulty)
==============================================================================
