------------------------------- MODULE Voting --------------------------------
(***************************************************************************)
(* What the votes of HotStuff promise, without messages, proposers or      *)
(* certificates in transit: each correct replica keeps the height it last  *)
(* voted at (vheight) and the block it is locked on (b_lock) and votes by  *)
(* the rule of HotStuffCore::on_receive_proposal.  HotStuffCore.tla is     *)
(* checked to implement this module.                                       *)
(***************************************************************************)
EXTENDS BlockTree, ReplicaConfig

CONSTANT TwoStep     \* HOTSTUFF_TWO_STEP is defined

VARIABLES voted,     \* voted[r]: the blocks correct replica r signed a vote for
          vheight,   \* vheight[r]: height of the last block r voted for
          lock       \* lock[r]: b_lock of r

vars == << voted, vheight, lock >>

ASSUME BuildAssumption == TwoStep \in BOOLEAN

(* What safety rests on: HOTSTUFF_TWO_STEP, or certificates for ancestors. *)
SafeBuild == TwoStep \/ OwnCerts

(* A faulty replica signs whatever helps, so its votes count everywhere. *)
Voters(b) == {r \in Correct : b \in voted[r]} \cup Faulty

(* Block::verify: genesis needs no signatures. *)
Certified(b) == b = genesis \/ IsQuorum(Voters(b))

CertifiedBlocks == {b \in Block : Certified(b)}

(* The block update() locks when it handles a block whose certificate is   *)
(* for b: b itself (two-step) or the block b's certificate is for.         *)
LockedBy(b) == IF TwoStep THEN b ELSE QcRef(b)

(* Wrong on purpose: the lock is not looked at. *)
SafeNodeAlways(n, l) == TRUE

(* With lock l a replica votes for n if n's certificate is above the lock  *)
(* (the liveness condition) or if n extends the lock (the safety one).  In *)
(* the two-step variant the first never comes to bear: update() has locked *)
(* the certificate's block itself, unless it is decided, and so no higher  *)
(* than the lock, or not delivered, and then its height still reads 0.     *)
SafeNode(n, l) == Extends(n, l) \/ (~TwoStep /\ Height(QcRef(n)) > Height(l))

(* Whether the blocks that update(n) looks at for the lock are ancestors   *)
(* of n, so that they are delivered when n is.                             *)
OnChain(n) == OwnCert(n) /\ (TwoStep \/ OwnCert(QcRef(n)))

(* Wrong on purpose: bnew->height >= vheight. *)
NotYetVotedSameHeight(r, n) == Height(n) >= vheight[r]

(* bnew->height > vheight *)
NotYetVoted(r, n) == Height(n) > vheight[r]

(* The blocks that update() may lock next. *)
HigherLocks(r) ==
  {l \in {LockedBy(b) : b \in CertifiedBlocks} : Height(l) > Height(lock[r])}

Init == /\ voted = [r \in Correct |-> {}]
        /\ vheight = [r \in Correct |-> 0]
        /\ lock = [r \in Correct |-> genesis]

(* update() on a block that r does not vote for. *)
RaiseLock(r, l) == /\ lock' = [lock EXCEPT ![r] = l]
                   /\ UNCHANGED << voted, vheight >>

(* on_receive_proposal for block n, with the vote: the lock after update() *)
(* is l, at least as high as what n itself makes r lock.  A certificate of *)
(* another branch may be for a block that r has fetched and not delivered, *)
(* which has no height and no qc_ref yet and so moves no lock.             *)
CastVote(r, n, l) ==
  /\ NotYetVoted(r, n)
  /\ OnChain(n) => Height(LockedBy(QcRef(n))) <= Height(l)
  /\ SafeNode(n, l)
  /\ Certified(QcRef(n))
  /\ voted' = [voted EXCEPT ![r] = @ \cup {n}]
  /\ vheight' = [vheight EXCEPT ![r] = Height(n)]
  /\ lock' = [lock EXCEPT ![r] = l]

Next == \E r \in Correct :
          \/ \E l \in HigherLocks(r) : RaiseLock(r, l)
          \/ \E l \in {lock[r]} \cup HigherLocks(r), n \in Block : CastVote(r, n, l)

Spec == Init /\ [][Next]_vars
------------------------------------------------------------------------------
(* The rule by which update() commits b once p is certified: a direct      *)
(* chain of parents, each certified by the next.                           *)
CommitChain(p, b) ==
  IF TwoStep
  THEN p # genesis /\ b = Parent(p) /\ b = QcRef(p)
  ELSE /\ p # genesis /\ Parent(p) = QcRef(p)
       /\ Parent(p) # genesis
       /\ b = Parent(Parent(p)) /\ b = QcRef(Parent(p))

CommittedBlocks ==
  LET C == CertifiedBlocks IN {b \in Block : \E p \in C : CommitChain(p, b)}

(* Types of the state; genesis is never voted for. *)
TypeOK == /\ voted \in [Correct -> SUBSET (Block \ {genesis})]
          /\ vheight \in [Correct -> Nat]
          /\ lock \in [Correct -> Block]

(* Two certified blocks of the same height are the same block: replicas    *)
(* vote at most once per height and certificates intersect in a correct    *)
(* voter.  What vheight and nmajority are for.                             *)
OneCertPerHeight ==
  \A b, c \in CertifiedBlocks : Len(b) = Len(c) => b = c

(* A committed block is on the chain of every certified block that is at   *)
(* least as high, so no later leader can get a conflicting block certified *)
(* ("safety breached" in update() is unreachable).  This and the next two  *)
(* need SafeBuild.                                                         *)
CertifiedExtendCommitted ==
  \A b \in CommittedBlocks, c \in CertifiedBlocks :
    Len(b) <= Len(c) => Extends(c, b)

(* No two replicas can commit conflicting blocks. *)
Agreement ==
  \A b, c \in CommittedBlocks : Extends(b, c) \/ Extends(c, b)

(* The certificate rule of the lock: a lock never leaves the chain of a    *)
(* block that is committed while it is at least that high.                 *)
LocksExtendCommitted ==
  \A r \in Correct, b \in CommittedBlocks :
    Len(b) <= Len(lock[r]) => Extends(lock[r], b)
==============================================================================
