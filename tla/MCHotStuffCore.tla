--------------------------- MODULE MCHotStuffCore ----------------------------
(* Instances of HotStuffCore: replicas r1, r2, r3 and r4, of which some may  *)
(* be faulty.                                                              *)
EXTENDS HotStuffCore, TLC

CONSTANTS r1, r2, r3, r4, x, y

Replica2 == {r1, r2}
Replica4 == {r1, r2, r3, r4}
NoReplica == {}
OnlyR1 == {r1}
R1R2 == {r1, r2}
OnlyR4 == {r4}
OnlyX == {x}
XY == {x, y}

(* The blocks up to a height with a certificate for any ancestor, as       *)
(* correct proposers build them.                                           *)
Honest[h \in 0 .. 5] ==
  IF h = 0 THEN {genesis}
  ELSE LET lower == Honest[h - 1]
       IN  lower \cup {NewBlock(b, p, Anc(b, k)) : b \in {c \in lower : Height(c) = h - 1},
                                                  p \in Payload, k \in 0 .. h - 1}

(* All blocks that can be among the first n to be proposed: on any of the  *)
(* others, with a certificate for any other.                               *)
Earliest[n \in 0 .. 3] ==
  IF n = 0 THEN {genesis}
  ELSE LET E == Earliest[n - 1]
       IN  E \cup {NewBlock(b, p, q) : b \in E, p \in Payload, q \in E}

(* Of the highest, which no other of three is for or on, only the fresh.   *)
FreshEarliest == {b \in Earliest[3] : Height(b) = 3 => QcRef(b) = Parent(b)}
------------------------------------------------------------------------------
(* The block of height h of a branch whose certificates are for genesis up *)
(* to height k, for the block q just above, and then for the parents.      *)
Branch(p, n, k, q) ==
  LET B[h \in 0 .. n] ==
        IF h = 0 THEN genesis
        ELSE NewBlock(B[h - 1], p, IF h <= k THEN genesis
                                   ELSE IF h = k + 1 THEN q ELSE B[h - 1])
  IN  B[n]
BranchUpTo(p, n, k, q) == {Branch(p, h, k, q) : h \in 0 .. n}

(* One branch as under a stable leader, and a longer one, at first without *)
(* certificates, whose next block carries that of the first branch's top.  *)
TwoBranches == BranchUpTo(x, 2, 0, genesis) \cup BranchUpTo(y, 5, 2, Branch(x, 2, 0, genesis))
TwoLongBranches == BranchUpTo(x, 3, 0, genesis) \cup BranchUpTo(y, 7, 3, Branch(x, 3, 0, genesis))

(* What Block is in the runs.  TLC computes what these refer to only once,  *)
(* and would compute it at each use of Block if it stood here itself.      *)
HonestSet == [h \in {2, 5} |-> Honest[h]]
Honest2 == HonestSet[2]
Honest5 == HonestSet[5]
Earliest3 == FreshEarliest
Fork == TwoBranches
OffChain == TwoLongBranches
------------------------------------------------------------------------------
(* A replica that does not propose delivers a block as soon as it can: it  *)
(* may handle the proposal as late as it likes.                            *)
Prompt ==
  \/ delivered' # delivered
  \/ \A r \in Correct \ Proposers, b \in Proposed : ~ENABLED Deliver(r, b)

(* No block is proposed by two replicas. *)
OwnProposals == Cardinality(props') = Cardinality({p.blk : p \in props'})

PromptAndOwn == Prompt /\ OwnProposals

(* A faulty leader proposes all of Block before anything else happens.     *)
ProposeFirst == Proposed # Block \ {genesis} => props' # props

PromptAfterProposals ==
  IF Proposed # Block \ {genesis} THEN ProposeFirst ELSE Prompt

(* Without correct proposers hqc_tail and the certificate to propose with  *)
(* are never read.                                                         *)
VoterView == << props, votes, delivered, vheight, lock, exec, failed >>

(* Replicas with the same part in an instance, and payloads, are            *)
(* interchangeable.                                                        *)
Symmetry == Permutations(Correct \ Proposers) \cup Permutations(Payload)
VoterSymmetry == Permutations(Correct)
ProposerSymmetry == Permutations(Correct) \cup Permutations(Payload)
==============================================================================
