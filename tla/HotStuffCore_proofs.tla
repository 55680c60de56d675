------------------------- MODULE HotStuffCore_proofs --------------------------
(***************************************************************************)
(* For every configuration, bound and order of messages: the handlers of   *)
(* HotStuffCore vote and lock by the rule of Voting, and therefore, in a   *)
(* SafeBuild, no two correct replicas execute conflicting chains.          *)
(***************************************************************************)
EXTENDS HotStuffCore, FiniteSetTheorems, TLAPS

VP == INSTANCE Voting_proofs WITH voted <- Voted

(* Instantiating Voting renames the operators of FiniteSets too. *)
LEMMA SameCardinality ==
  ASSUME NEW S
  PROVE  VP!Cardinality(S) = Cardinality(S) /\ (VP!IsFiniteSet(S) <=> IsFiniteSet(S))
  BY DEF VP!Cardinality, Cardinality, VP!IsFiniteSet, IsFiniteSet

(* What Voting assumes of its blocks and replicas holds here. *)
LEMMA VotingAssumed ==
  VP!ReplicaAssumption /\ VP!BlockAssumption /\ VP!BuildAssumption
  <1>1. VP!ReplicaAssumption
    BY ReplicaAssumption, SameCardinality DEF VP!nfaulty, VP!nreplicas, nfaulty, nreplicas
  <1>2. VP!BuildAssumption  BY CoreAssumption
  <1>3. VP!BlockAssumption
    BY BlockAssumption DEF VP!Entry, Entry, VP!Anc, Anc, VP!genesis, genesis
  <1> QED BY <1>1, <1>2, <1>3
------------------------------------------------------------------------------
(* The walks over blocks are the same in Voting. *)
LEMMA SameWalks ==
  /\ VP!genesis = genesis
  /\ VP!Correct = Correct
  /\ \A b : VP!QcRef(b) = QcRef(b) /\ VP!Parent(b) = Parent(b) /\ VP!Height(b) = Len(b)
  /\ \A a, b : VP!Extends(b, a) <=> Extends(b, a)
  /\ \A b : VP!OwnCert(b) <=> OwnCert(b)
  /\ \A n : VP!LockedBy(QcRef(n)) = Lockee(n)
  /\ VP!SafeBuild <=> SafeBuild
  <1>1. \A b : VP!OwnCert(b) <=> OwnCert(b)
    BY DEF VP!genesis, genesis, VP!QcRef, QcRef, VP!Anc, Anc, VP!Extends, Extends,
           VP!OwnCert, OwnCert
  <1>2. VP!SafeBuild <=> SafeBuild
    BY <1>1 DEF VP!SafeBuild, SafeBuild, VP!OwnCerts, OwnCerts
  <1> QED BY <1>1, <1>2
    DEF VP!genesis, genesis, VP!Correct, Correct, VP!QcRef, QcRef, VP!Anc, Anc,
        VP!Parent, Parent, VP!Height, Height, VP!Extends, Extends, VP!LockedBy, Lockee

(* Heights are numbers, and only genesis has height 0. *)
LEMMA HeightProps ==
  ASSUME NEW b \in Block
  PROVE  Len(b) \in Nat /\ Height(b) = Len(b) /\ (b = genesis <=> Len(b) = 0)
  <1>1. b \in Seq(Entry)  BY BlockAssumption
  <1> QED BY <1>1 DEF Height, genesis

(* The block that a certificate is for may be on any branch, the parent is *)
(* the block of the chain just below.                                      *)
LEMMA QcRefBlock ==
  ASSUME NEW b \in Block
  PROVE  QcRef(b) \in Block /\ QcRef(genesis) = genesis
  <1>1. QcRef(b) \in Block  BY VP!QcRefProps, VotingAssumed, SameWalks
  <1>2. QcRef(genesis) = genesis  BY DEF QcRef
  <1> QED BY <1>1, <1>2

LEMMA ParentChain ==
  ASSUME NEW b \in Block, b # genesis
  PROVE  Parent(b) \in Block /\ Extends(b, Parent(b)) /\ Len(Parent(b)) = Len(b) - 1
  BY VP!ParentProps, VotingAssumed, SameWalks

(* Blocks on one chain are ordered. *)
LEMMA Chains ==
  ASSUME NEW a \in Block, NEW b \in Block, NEW c \in Block
  PROVE  /\ Extends(a, a)
         /\ Extends(a, genesis)
         /\ Extends(b, a) => Len(a) <= Len(b)
         /\ Extends(c, b) /\ Extends(b, a) => Extends(c, a)
         /\ Extends(c, a) /\ Extends(c, b) /\ Len(a) <= Len(b) => Extends(b, a)
  <1>1. Extends(a, a)  BY VP!ExtendsSelf, VotingAssumed, SameWalks
  <1>2. Extends(a, genesis)
    <2>1. a \in Seq(Entry)  BY BlockAssumption
    <2> QED BY <2>1 DEF Extends, genesis, Anc
  <1>3. Extends(b, a) => Len(a) <= Len(b)  BY DEF Extends
  <1>4. Extends(c, b) /\ Extends(b, a) => Extends(c, a)
    BY VP!ExtendsTrans, VotingAssumed, SameWalks
  <1>5. Extends(c, a) /\ Extends(c, b) /\ Len(a) <= Len(b) => Extends(b, a)
    BY VP!ExtendsOfChain, VotingAssumed, SameWalks
  <1> QED BY <1>1, <1>2, <1>3, <1>4, <1>5

(* A new block on p with a certificate for q. *)
LEMMA NewBlockProps ==
  ASSUME NEW p \in Block, NEW q \in Block, NEW x \in Payload,
         NewBlock(p, x, q) \in Block
  PROVE  /\ NewBlock(p, x, q) # genesis
         /\ Parent(NewBlock(p, x, q)) = p
         /\ Extends(NewBlock(p, x, q), p)
         /\ QcRef(NewBlock(p, x, q)) = q
  <1> DEFINE e == [payload |-> x, qc |-> q]
             b == Append(p, e)
  <1>1. NewBlock(p, x, q) = b  BY DEF NewBlock
  <1>2. p \in Seq(Entry) /\ Len(p) \in Nat  BY BlockAssumption
  <1>3. e \in Entry /\ e.qc = q  BY DEF Entry
  <1> HIDE DEF e
  <1>4. /\ b \in Seq(Entry) /\ Len(b) = Len(p) + 1
        /\ b[Len(p) + 1] = e
        /\ \A i \in 1 .. Len(p) : b[i] = p[i]
    BY <1>2, <1>3
  <1>5. b # genesis  BY <1>2, <1>4 DEF genesis
  <1>6. SubSeq(b, 1, Len(p)) = p
    <2>1. /\ SubSeq(b, 1, Len(p)) \in Seq(Entry)
          /\ Len(SubSeq(b, 1, Len(p))) = Len(p)
      BY <1>2, <1>4
    <2>2. \A i \in 1 .. Len(p) : SubSeq(b, 1, Len(p))[i] = p[i]
      BY <1>2, <1>4
    <2> QED BY <1>2, <2>1, <2>2
  <1>7. Extends(b, p) /\ Parent(b) = p
    BY <1>2, <1>4, <1>6 DEF Extends, Anc, Parent
  <1>8. QcRef(b) = q  BY <1>3, <1>4, <1>5 DEF QcRef
  <1> QED BY <1>1, <1>5, <1>7, <1>8
------------------------------------------------------------------------------
(***************************************************************************)
(* The inductive invariant: with a delivered block come its ancestors and  *)
(* a real certificate, counted votes were signed, b_exec is never higher   *)
(* than b_lock, what is executed was committed, and the votes, vote heights*)
(* and locks satisfy the invariant of Voting.  In a SafeBuild also: b_lock *)
(* is not higher than hqc, update() never threw "safety breached", and     *)
(* whoever proposed has voted.                                             *)
(***************************************************************************)
HeldDelivered ==
  \A r \in Correct : {lock[r], exec[r], hqc[r], tail[r]} \subseteq delivered[r]

DeliveredClosed ==
  \A r \in Correct : \A b \in delivered[r], a \in Block : Extends(b, a) => a \in delivered[r]

DeliveredVerified == \A r \in Correct : \A b \in delivered[r] : Verify(b)

CountedSigned == \A r \in Correct : \A v \in counted[r] : v.voter \in Signers(v.blk)

ExecUnderLock == \A r \in Correct : Len(exec[r]) <= Len(lock[r])

LockUnderHqc == \A r \in Correct : Len(lock[r]) <= Len(hqc[r])

ExecIsCommitted ==
  \A r \in Correct : exec[r] = genesis \/ exec[r] \in VP!CommittedBlocks

Inv ==
  /\ TypeOK
  /\ DeliveredClosed
  /\ DeliveredVerified
  /\ HqcCertified
  /\ TailExtendsHqc
  /\ CountedSigned
  /\ ExecUnderLock
  /\ ExecIsCommitted
  /\ VP!Inv
  /\ SafeBuild => LockUnderHqc /\ NoSafetyBreach /\ ProposersVote
------------------------------------------------------------------------------
(* A quorum stays one with more voters. *)
LEMMA QuorumGrows ==
  ASSUME NEW S, NEW T, S \subseteq T, T \subseteq Replica, IsQuorum(S)
  PROVE  IsQuorum(T)
  <1>1. IsFiniteSet(Replica) /\ IsFiniteSet(T) /\ IsFiniteSet(S)
    BY ReplicaAssumption, FS_Subset
  <1>2. Cardinality(S) <= Cardinality(T)  BY <1>1, FS_Subset
  <1>3. Cardinality(S) \in Nat /\ Cardinality(T) \in Nat /\ nmajority \in Int
    BY <1>1, FS_CardinalityType DEF nmajority, nfaulty, nreplicas
  <1> QED BY <1>2, <1>3 DEF IsQuorum

(* Voting's certificates are those of the votes that were signed. *)
LEMMA SameCertified ==
  ASSUME votes \subseteq Vote, NEW b
  PROVE  VP!Certified(b) <=> Certified(b)
  <1>1. {r \in Correct : b \in Voted[r]} = {v.voter : v \in {w \in votes : w.blk = b}}
    BY DEF Voted, Vote
  <1>2. VP!Voters(b) = Signers(b)
    BY <1>1, SameWalks DEF VP!Voters, Signers
  <1>3. \A S : VP!IsQuorum(S) <=> IsQuorum(S)
    BY SameCardinality
       DEF VP!IsQuorum, IsQuorum, VP!nmajority, nmajority, VP!nfaulty, nfaulty,
           VP!nreplicas, nreplicas
  <1> QED BY <1>2, <1>3, SameWalks DEF VP!Certified, Certified

(* The same after a step. *)
LEMMA SameCertifiedNext ==
  ASSUME votes' \subseteq Vote, NEW b
  PROVE  VP!Certified(b)' <=> Certified(b)'
  <1>1. {r \in Correct : b \in Voted'[r]} = {v.voter : v \in {w \in votes' : w.blk = b}}
    BY DEF Voted, Vote
  <1>2. VP!Voters(b)' = Signers(b)'
    BY <1>1, SameWalks DEF VP!Voters, Signers
  <1>3. \A S : VP!IsQuorum(S) <=> IsQuorum(S)
    BY SameCardinality
       DEF VP!IsQuorum, IsQuorum, VP!nmajority, nmajority, VP!nfaulty, nfaulty,
           VP!nreplicas, nreplicas
  <1> QED BY <1>2, <1>3, SameWalks DEF VP!Certified, Certified

(* Whoever signs a vote is a replica. *)
LEMMA SignersAreReplicas ==
  ASSUME votes \subseteq Vote, NEW b
  PROVE  Signers(b) \subseteq Replica
  BY ReplicaAssumption DEF Signers, Vote, Correct

(* Certificates stay when more votes are signed. *)
LEMMA CertifiedGrows ==
  ASSUME votes \subseteq votes', votes' \subseteq Vote, NEW b, Certified(b)
  PROVE  Certified(b)'
  <1>1. Signers(b) \subseteq Signers(b)'  BY DEF Signers
  <1>2. Signers(b)' \subseteq Replica
    BY ReplicaAssumption DEF Signers, Vote, Correct
  <1> QED BY <1>1, <1>2, QuorumGrows DEF Certified

(* So do commits. *)
LEMMA CommittedGrows ==
  ASSUME votes \subseteq votes', votes' \subseteq Vote, NEW b \in VP!CommittedBlocks
  PROVE  b \in VP!CommittedBlocks'
  <1>1. votes \subseteq Vote  OBVIOUS
  <1>2. PICK p \in Block : VP!Certified(p) /\ VP!CommitChain(p, b)
    BY DEF VP!CommittedBlocks, VP!CertifiedBlocks
  <1>3. Certified(p)'  BY <1>1, <1>2, SameCertified, CertifiedGrows
  <1>4. VP!Certified(p)'  BY <1>3, SameCertifiedNext
  <1>5. b \in Block  BY DEF VP!CommittedBlocks
  <1> QED BY <1>2, <1>4, <1>5 DEF VP!CommittedBlocks, VP!CertifiedBlocks
------------------------------------------------------------------------------
(* The block that update(n) starts from is delivered if n extends it: of a *)
(* delivered n because its ancestors are, of a new one because it is hqc.  *)
Ready(r, n) == OwnCert(n) => QcRef(n) \in delivered[r]

(* The types of what update(n) reads, with the heights as numbers.         *)
LEMMA UpdateTypes ==
  ASSUME Inv, NEW r \in Correct, NEW n \in Block
  PROVE  /\ QcRef(n) \in Block /\ Lockee(n) \in Block /\ ToCommit(n) \in Block
         /\ lock[r] \in Block /\ exec[r] \in Block /\ hqc[r] \in Block
         /\ lock[r] \in delivered[r] /\ exec[r] \in delivered[r] /\ hqc[r] \in delivered[r]
         /\ Len(QcRef(n)) \in Nat /\ Len(Lockee(n)) \in Nat /\ Len(ToCommit(n)) \in Nat
         /\ Len(lock[r]) \in Nat /\ Len(exec[r]) \in Nat /\ Len(hqc[r]) \in Nat
         /\ Len(exec[r]) <= Len(lock[r])
  <1>1. QcRef(n) \in Block /\ Lockee(n) \in Block /\ ToCommit(n) \in Block
    BY QcRefBlock DEF Lockee, ToCommit
  <1>2. lock[r] \in Block /\ exec[r] \in Block /\ hqc[r] \in Block
    BY DEF Inv, TypeOK
  <1>3. lock[r] \in delivered[r] /\ exec[r] \in delivered[r] /\ hqc[r] \in delivered[r]
    BY DEF Inv, TypeOK
  <1>4. Len(exec[r]) <= Len(lock[r])  BY DEF Inv, ExecUnderLock
  <1> QED BY <1>1, <1>2, <1>3, <1>4, HeightProps

(* What update(n) locks: the lock of Voting or a higher certified block's, *)
(* and at least the Lockee where update() is sure to get to it.            *)
LEMMA LockAfterProps ==
  ASSUME Inv, NEW r \in Correct, NEW n \in Block, Verify(n)
  PROVE  /\ LockAfter(r, n) \in Block /\ LockAfter(r, n) \in delivered[r]
         /\ LockAfter(r, n) \in {lock[r]} \cup VP!HigherLocks(r)
         /\ Len(lock[r]) <= Len(LockAfter(r, n))
         /\ Reaches(r, n) => Len(Lockee(n)) <= Len(LockAfter(r, n))
  <1>1. /\ QcRef(n) \in Block /\ Lockee(n) \in Block
        /\ lock[r] \in Block /\ lock[r] \in delivered[r]
        /\ Len(Lockee(n)) \in Nat /\ Len(lock[r]) \in Nat
        /\ Height(Lockee(n)) = Len(Lockee(n)) /\ Height(lock[r]) = Len(lock[r])
    BY UpdateTypes, HeightProps
  <1>2. CASE Reaches(r, n) /\ Height(Lockee(n)) > Height(lock[r])
    <2>1. LockAfter(r, n) = Lockee(n) /\ Len(Lockee(n)) > Len(lock[r])
      BY <1>1, <1>2 DEF LockAfter
    <2>2. QcRef(n) \in VP!CertifiedBlocks
      <3>1. VP!Certified(QcRef(n))  BY SameCertified DEF Inv, TypeOK, Verify
      <3> QED BY <1>1, <3>1 DEF VP!CertifiedBlocks
    <2>3. Lockee(n) \in VP!HigherLocks(r)
      BY <2>1, <2>2, SameWalks DEF VP!HigherLocks
    <2>4. Lockee(n) \in delivered[r]  BY <1>2 DEF Reaches, Live
    <2> QED BY <1>1, <2>1, <2>3, <2>4
  <1>3. CASE ~(Reaches(r, n) /\ Height(Lockee(n)) > Height(lock[r]))
    <2>1. LockAfter(r, n) = lock[r]  BY <1>3 DEF LockAfter
    <2> QED BY <1>1, <1>3, <2>1
  <1> QED BY <1>2, <1>3

(* What n makes its voters lock, if on n's chain, is not above the lock. *)
LEMMA LocksOwnChain ==
  ASSUME Inv, NEW r \in Correct, NEW n \in Block, Verify(n), Ready(r, n),
         OwnCert(n), TwoStep \/ OwnCert(QcRef(n))
  PROVE  Len(Lockee(n)) <= Len(LockAfter(r, n))
  <1>1. /\ QcRef(n) \in Block /\ Lockee(n) \in Block /\ exec[r] \in Block
        /\ Len(exec[r]) <= Len(lock[r]) /\ Len(lock[r]) <= Len(LockAfter(r, n))
        /\ Len(Lockee(n)) \in Nat /\ Len(lock[r]) \in Nat /\ Len(exec[r]) \in Nat
        /\ Len(LockAfter(r, n)) \in Nat
    BY UpdateTypes, LockAfterProps, HeightProps
  <1>2. Extends(QcRef(n), Lockee(n))
    BY <1>1, Chains DEF OwnCert, Lockee
  <1>3. QcRef(n) \in delivered[r]  BY DEF Ready
  <1>4. Lockee(n) \in delivered[r]
    BY <1>1, <1>2, <1>3 DEF Inv, DeliveredClosed
  <1>5. CASE Decided(r, Lockee(n))
    <2>1. Len(Lockee(n)) <= Len(exec[r])  BY <1>5 DEF Decided, Extends
    <2> QED BY <1>1, <2>1
  <1>6. CASE ~Decided(r, Lockee(n))
    <2>1. ~Decided(r, QcRef(n))
      BY <1>1, <1>2, <1>6, Chains DEF Decided
    <2>2. Reaches(r, n)  BY <1>3, <1>4, <1>6, <2>1 DEF Reaches, Live
    <2> QED BY <2>2, LockAfterProps
  <1> QED BY <1>5, <1>6

(* In the two-step variant a certificate is never above the lock that      *)
(* update() has left: only an extension of the lock is voted for.          *)
LEMMA VoteRule ==
  ASSUME Inv, NEW r \in Correct, NEW n \in Block, Verify(n),
         SafeNode(r, n, LockAfter(r, n))
  PROVE  VP!SafeNode(n, LockAfter(r, n))
  <1>1. CASE Extends(n, LockAfter(r, n))
    BY <1>1, SameWalks DEF VP!SafeNode
  <1>2. CASE ~Extends(n, LockAfter(r, n))
    <2>1. /\ QcRef(n) \in Block /\ exec[r] \in Block /\ LockAfter(r, n) \in Block
          /\ Len(exec[r]) <= Len(lock[r]) /\ Len(lock[r]) <= Len(LockAfter(r, n))
          /\ Len(QcRef(n)) \in Nat /\ Len(lock[r]) \in Nat /\ Len(exec[r]) \in Nat
          /\ Len(LockAfter(r, n)) \in Nat
      BY UpdateTypes, LockAfterProps, HeightProps
    <2>2. QcRef(n) \in delivered[r] /\ Len(QcRef(n)) > Len(LockAfter(r, n))
      BY <1>2, <2>1, HeightProps DEF SafeNode
    <2>3. ASSUME TwoStep PROVE FALSE
      <3>1. Lockee(n) = QcRef(n)  BY <2>3 DEF Lockee
      <3>2. CASE Decided(r, QcRef(n))
        <4>1. Len(QcRef(n)) <= Len(exec[r])  BY <3>2 DEF Decided, Extends
        <4> QED BY <2>1, <2>2, <4>1
      <3>3. CASE ~Decided(r, QcRef(n))
        <4>1. Reaches(r, n)  BY <2>2, <3>1, <3>3 DEF Reaches, Live
        <4>2. Len(QcRef(n)) <= Len(LockAfter(r, n))  BY <3>1, <4>1, LockAfterProps
        <4> QED BY <2>1, <2>2, <4>2
      <3> QED BY <3>2, <3>3
    <2> QED BY <2>2, <2>3, SameWalks DEF VP!SafeNode
  <1> QED BY <1>1, <1>2

(* Two committed blocks are on one chain. *)
LEMMA CommittedChain ==
  ASSUME VP!Inv, SafeBuild, NEW b \in VP!CommittedBlocks, NEW c \in VP!CommittedBlocks
  PROVE  /\ b \in Block /\ c \in Block
         /\ Len(b) <= Len(c) => Extends(c, b)
  <1>1. b \in Block /\ c \in Block  BY DEF VP!CommittedBlocks
  <1>2. c \in VP!CertifiedBlocks  BY VP!CommittedCertified, VotingAssumed
  <1>3. VP!SafeBuild  BY SameWalks
  <1>4. Len(b) <= Len(c) => VP!Extends(c, b)
    BY <1>2, <1>3, VP!InvCertifiedExtend, VotingAssumed
  <1> QED BY <1>1, <1>4, SameWalks

(* A block that update(n) commits was committed by the certificate in n,   *)
(* is just below what update(n) locks and, in a SafeBuild, extends what is *)
(* executed.                                                               *)
LEMMA CommitsProps ==
  ASSUME Inv, NEW r \in Correct, NEW n \in Block, Verify(n), Commits(r, n)
  PROVE  /\ ToCommit(n) \in VP!CommittedBlocks
         /\ ToCommit(n) \in delivered[r]
         /\ Len(ToCommit(n)) <= Len(LockAfter(r, n))
         /\ SafeBuild => Extends(ToCommit(n), exec[r])
  <1>1. /\ QcRef(n) \in Block /\ Lockee(n) \in Block /\ ToCommit(n) \in Block
        /\ exec[r] \in Block /\ LockAfter(r, n) \in Block
        /\ Len(ToCommit(n)) \in Nat /\ Len(Lockee(n)) \in Nat /\ Len(exec[r]) \in Nat
        /\ Len(LockAfter(r, n)) \in Nat
    BY UpdateTypes, LockAfterProps, HeightProps
  <1>2. /\ Reaches(r, n) /\ ~Decided(r, ToCommit(n))
        /\ ToCommit(n) = QcRef(Lockee(n)) /\ ToCommit(n) = Parent(Lockee(n))
        /\ TwoStep \/ Lockee(n) = Parent(QcRef(n))
    BY DEF Commits, ToCommit
  <1>3. \A b \in Block : Extends(b, genesis)  BY BlockAssumption, Chains
  <1>4. QcRef(n) # genesis /\ Lockee(n) # genesis
    BY <1>1, <1>2, <1>3 DEF Reaches, Live, Decided
  <1>5. /\ Extends(Lockee(n), ToCommit(n)) /\ Len(ToCommit(n)) = Len(Lockee(n)) - 1
        /\ Lockee(n) \in delivered[r]
    BY <1>1, <1>2, <1>4, ParentChain DEF Reaches, Live
  <1>6. ToCommit(n) \in delivered[r]
    BY <1>1, <1>5 DEF Inv, DeliveredClosed
  <1>7. Len(ToCommit(n)) <= Len(LockAfter(r, n))
    BY <1>1, <1>2, <1>5, LockAfterProps
  <1>8. VP!CommitChain(QcRef(n), ToCommit(n))
    <2>1. CASE TwoStep
      <3>1. Lockee(n) = QcRef(n)  BY <2>1 DEF Lockee
      <3> QED BY <1>2, <1>4, <2>1, <3>1, SameWalks DEF VP!CommitChain
    <2>2. CASE ~TwoStep
      <3>1. Lockee(n) = QcRef(QcRef(n)) /\ Lockee(n) = Parent(QcRef(n))
        BY <1>2, <2>2 DEF Lockee
      <3> QED BY <1>2, <1>4, <2>2, <3>1, SameWalks DEF VP!CommitChain
    <2> QED BY <2>1, <2>2
  <1>9. VP!Certified(QcRef(n))  BY SameCertified DEF Inv, TypeOK, Verify
  <1>10. ToCommit(n) \in VP!CommittedBlocks
    BY <1>1, <1>8, <1>9 DEF VP!CommittedBlocks, VP!CertifiedBlocks
  <1>11. ASSUME SafeBuild PROVE Extends(ToCommit(n), exec[r])
    <2>1. CASE exec[r] = genesis  BY <1>1, <1>3, <2>1
    <2>2. CASE exec[r] \in VP!CommittedBlocks
      <3>1. VP!Inv  BY DEF Inv
      <3>2. ~Extends(exec[r], ToCommit(n))  BY <1>2 DEF Decided
      <3>3. ~(Len(ToCommit(n)) <= Len(exec[r]))
        BY <1>10, <1>11, <2>2, <3>1, <3>2, CommittedChain
      <3>4. Len(exec[r]) <= Len(ToCommit(n))  BY <1>1, <3>3
      <3> QED BY <1>10, <1>11, <2>2, <3>1, <3>4, CommittedChain
    <2> QED BY <2>1, <2>2 DEF Inv, ExecIsCommitted
  <1> QED BY <1>6, <1>7, <1>10, <1>11

(* update(n) moves b_exec up to a committed block that b_lock has reached, *)
(* and in a SafeBuild does not throw "safety breached".                    *)
LEMMA ExecAfterProps ==
  ASSUME Inv, NEW r \in Correct, NEW n \in Block, Verify(n)
  PROVE  /\ SafeBuild => ~Breach(r, n)
         /\ ExecAfter(r, n) \in Block /\ ExecAfter(r, n) \in delivered[r]
         /\ ExecAfter(r, n) = genesis \/ ExecAfter(r, n) \in VP!CommittedBlocks
         /\ Len(ExecAfter(r, n)) <= Len(LockAfter(r, n))
  <1>1. SafeBuild => ~Breach(r, n)  BY CommitsProps DEF Breach
  <1>2. /\ exec[r] \in Block /\ exec[r] \in delivered[r] /\ ToCommit(n) \in Block
        /\ Len(exec[r]) <= Len(lock[r]) /\ Len(lock[r]) <= Len(LockAfter(r, n))
        /\ Len(exec[r]) \in Nat /\ Len(lock[r]) \in Nat /\ Len(LockAfter(r, n)) \in Nat
        /\ exec[r] = genesis \/ exec[r] \in VP!CommittedBlocks
    BY UpdateTypes, LockAfterProps, HeightProps DEF Inv, ExecIsCommitted
  <1>3. CASE Commits(r, n) /\ ~Breach(r, n)
    <2>1. ExecAfter(r, n) = ToCommit(n)  BY <1>3 DEF ExecAfter
    <2> QED BY <1>1, <1>2, <1>3, <2>1, CommitsProps
  <1>4. CASE ~(Commits(r, n) /\ ~Breach(r, n))
    <2>1. ExecAfter(r, n) = exec[r]  BY <1>4 DEF ExecAfter
    <2>2. Len(exec[r]) <= Len(LockAfter(r, n))  BY <1>2
    <2> QED BY <1>1, <1>2, <2>1, <2>2
  <1> QED BY <1>3, <1>4

(* hqc is certified, never falls and, in a SafeBuild, is at least as high  *)
(* as the lock.                                                            *)
LEMMA HqcAfterProps ==
  ASSUME Inv, NEW r \in Correct, NEW n \in Block, Verify(n)
  PROVE  /\ HqcAfter(r, n) \in Block /\ HqcAfter(r, n) \in delivered[r]
         /\ Certified(HqcAfter(r, n))
         /\ SafeBuild => Len(LockAfter(r, n)) <= Len(HqcAfter(r, n))
  <1>1. /\ hqc[r] \in Block /\ hqc[r] \in delivered[r] /\ Certified(hqc[r])
        /\ QcRef(n) \in Block /\ Certified(QcRef(n)) /\ Lockee(n) \in Block
    BY UpdateTypes DEF Inv, HqcCertified, Verify
  <1>2. /\ Len(hqc[r]) \in Nat /\ Len(lock[r]) \in Nat
        /\ Len(QcRef(n)) \in Nat /\ Len(Lockee(n)) \in Nat
        /\ Height(hqc[r]) = Len(hqc[r]) /\ Height(QcRef(n)) = Len(QcRef(n))
    BY <1>1, UpdateTypes, HeightProps
  <1>3. /\ HqcAfter(r, n) \in Block /\ HqcAfter(r, n) \in delivered[r]
        /\ Certified(HqcAfter(r, n))
    BY <1>1 DEF HqcAfter, Live
  <1>4. Len(hqc[r]) <= Len(HqcAfter(r, n)) /\ Len(HqcAfter(r, n)) \in Nat
    BY <1>1, <1>2, <1>3, HeightProps DEF HqcAfter
  <1>5. ASSUME SafeBuild PROVE Len(LockAfter(r, n)) <= Len(HqcAfter(r, n))
    <2>1. CASE LockAfter(r, n) = lock[r]
      <3>1. Len(lock[r]) <= Len(hqc[r])  BY <1>5 DEF Inv, LockUnderHqc
      <3> QED BY <1>2, <1>4, <2>1, <3>1
    <2>2. CASE LockAfter(r, n) # lock[r]
      <3>1. LockAfter(r, n) = Lockee(n) /\ Live(r, QcRef(n))
        BY <2>2 DEF LockAfter, Reaches
      <3>2. Len(Lockee(n)) <= Len(QcRef(n))
        <4>1. CASE TwoStep  BY <1>2, <4>1 DEF Lockee
        <4>2. CASE ~TwoStep
          <5>1. OwnCert(QcRef(n))  BY <1>1, <1>5, <4>2 DEF SafeBuild, OwnCerts
          <5> QED BY <4>2, <5>1 DEF OwnCert, Extends, Lockee
        <4> QED BY <4>1, <4>2
      <3>3. Len(QcRef(n)) <= Len(HqcAfter(r, n))
        BY <1>2, <3>1 DEF HqcAfter
      <3> QED BY <1>2, <1>4, <3>1, <3>2, <3>3
    <2> QED BY <2>1, <2>2
  <1> QED BY <1>3, <1>5

(* hqc_tail is delivered and extends hqc. *)
LEMMA TailsAfterProps ==
  ASSUME Inv, NEW r \in Correct, NEW h \in Block, NEW t \in TailsAfter(r, h)
  PROVE  t \in Block /\ t \in delivered[r] /\ Extends(t, h)
  <1>1. CASE h = hqc[r]
    BY <1>1 DEF TailsAfter, Inv, TypeOK, TailExtendsHqc
  <1>2. CASE h # hqc[r]
    BY <1>2 DEF TailsAfter, HighTails, Inv, TypeOK
  <1> QED BY <1>1, <1>2
------------------------------------------------------------------------------
(* One more vote of r. *)
LEMMA VotedGrows ==
  ASSUME NEW r \in Correct, NEW n, NEW to,
         votes' = votes \cup {[voter |-> r, to |-> to, blk |-> n]}
  PROVE  Voted' = [Voted EXCEPT ![r] = @ \cup {n}]
  <1> DEFINE v == [voter |-> r, to |-> to, blk |-> n]
             By(W, x) == {w.blk : w \in {u \in W : u.voter = x}}
  <1>1. \A x \in Correct : By(votes \cup {v}, x) = IF x = r THEN By(votes, x) \cup {n} ELSE By(votes, x)
    <2> TAKE x \in Correct
    <2>1. v.voter = r /\ v.blk = n  OBVIOUS
    <2> HIDE DEF v
    <2> QED BY <2>1
  <1>2. Voted = [x \in Correct |-> By(votes, x)] /\ Voted' = [x \in Correct |-> By(votes', x)]
    BY DEF Voted
  <1> HIDE DEF By, v
  <1>3. votes' = votes \cup {v}  BY DEF v
  <1> QED BY <1>1, <1>2, <1>3

(* update(n), with or without a vote for n, is a step of Voting.           *)
LEMMA UpdateVotes ==
  ASSUME Inv, NEW r \in Correct, NEW n \in Block, Verify(n), Ready(r, n),
         lock' = [lock EXCEPT ![r] = LockAfter(r, n)],
         \/ /\ Opinion(r, n)
            /\ vheight' = [vheight EXCEPT ![r] = Height(n)]
            /\ \E to \in Replica : votes' = votes \cup {[voter |-> r, to |-> to, blk |-> n]}
         \/ UNCHANGED << vheight, votes >>
  PROVE  VP!Next \/ UNCHANGED VP!vars
  <1> DEFINE l == LockAfter(r, n)
  <1>1. l \in {lock[r]} \cup VP!HigherLocks(r)  BY LockAfterProps
  <1>2. r \in VP!Correct  BY SameWalks
  <1>3. CASE /\ Opinion(r, n)
             /\ vheight' = [vheight EXCEPT ![r] = Height(n)]
             /\ \E to \in Replica : votes' = votes \cup {[voter |-> r, to |-> to, blk |-> n]}
    <2>1. Voted' = [Voted EXCEPT ![r] = @ \cup {n}]  BY <1>3, VotedGrows
    <2>2. Height(n) > vheight[r] /\ VP!SafeNode(n, l)
      BY <1>3, VoteRule DEF Opinion
    <2>6. VP!OnChain(n) => Len(Lockee(n)) <= Len(l)
      BY LocksOwnChain, SameWalks DEF VP!OnChain
    <2>3. VP!Certified(QcRef(n))  BY SameCertified DEF Inv, TypeOK, Verify
    <2>4. Height(n) = Len(n) /\ VP!Height(n) = Len(n)  BY HeightProps, SameWalks
    <2> HIDE DEF l
    <2>5. VP!CastVote(r, n, l)
      BY <1>1, <1>3, <2>1, <2>2, <2>3, <2>4, <2>6, SameWalks
         DEF VP!CastVote, VP!NotYetVoted, l
    <2> QED BY <1>1, <1>2, <2>5 DEF VP!Next
  <1>4. CASE UNCHANGED << vheight, votes >>
    <2>1. UNCHANGED << Voted, vheight >>  BY <1>4 DEF Voted
    <2>2. CASE l = lock[r]
      <3>1. lock' = lock  BY <2>2 DEF Inv, TypeOK
      <3> QED BY <2>1, <3>1 DEF VP!vars
    <2>3. CASE l \in VP!HigherLocks(r)
      <3>1. VP!RaiseLock(r, l)  BY <2>1 DEF VP!RaiseLock
      <3> QED BY <1>2, <2>3, <3>1 DEF VP!Next
    <2> QED BY <1>1, <2>2, <2>3
  <1> QED BY <1>3, <1>4

(* The part of the invariant that an update can disturb.                   *)
LEMMA UpdateInv ==
  ASSUME Inv, NEW r \in Correct, NEW n \in Block, Verify(n), Ready(r, n),
         lock' = [lock EXCEPT ![r] = LockAfter(r, n)],
         exec' = [exec EXCEPT ![r] = ExecAfter(r, n)],
         hqc' = [hqc EXCEPT ![r] = HqcAfter(r, n)],
         \/ /\ Opinion(r, n)
            /\ vheight' = [vheight EXCEPT ![r] = Height(n)]
            /\ \E to \in Replica : votes' = votes \cup {[voter |-> r, to |-> to, blk |-> n]}
         \/ UNCHANGED << vheight, votes >>
  PROVE  /\ votes \subseteq votes' /\ votes' \subseteq Vote
         /\ vheight' \in [Correct -> Nat]
         /\ lock' \in [Correct -> Block] /\ exec' \in [Correct -> Block]
         /\ hqc' \in [Correct -> Block]
         /\ \A x \in Correct : {lock'[x], exec'[x], hqc'[x]} \subseteq delivered[x]
         /\ HqcCertified' /\ ExecUnderLock' /\ ExecIsCommitted' /\ VP!Inv'
         /\ SafeBuild => LockUnderHqc'
  <1>1. Height(n) \in Nat  BY HeightProps
  <1>2. votes \subseteq votes' /\ votes' \subseteq Vote /\ vheight' \in [Correct -> Nat]
    BY <1>1 DEF Inv, TypeOK, Vote
  <1>3. /\ LockAfter(r, n) \in Block /\ ExecAfter(r, n) \in Block /\ HqcAfter(r, n) \in Block
        /\ LockAfter(r, n) \in delivered[r] /\ ExecAfter(r, n) \in delivered[r]
        /\ HqcAfter(r, n) \in delivered[r]
    BY LockAfterProps, ExecAfterProps, HqcAfterProps
  <1>4. /\ lock \in [Correct -> Block] /\ exec \in [Correct -> Block] /\ hqc \in [Correct -> Block]
    BY DEF Inv, TypeOK
  <1>5. /\ lock' \in [Correct -> Block] /\ exec' \in [Correct -> Block]
        /\ hqc' \in [Correct -> Block]
    BY <1>3, <1>4
  <1>6. \A x \in Correct :
          /\ lock'[x] = IF x = r THEN LockAfter(r, n) ELSE lock[x]
          /\ exec'[x] = IF x = r THEN ExecAfter(r, n) ELSE exec[x]
          /\ hqc'[x] = IF x = r THEN HqcAfter(r, n) ELSE hqc[x]
    BY <1>4
  <1>7. \A x \in Correct : {lock'[x], exec'[x], hqc'[x]} \subseteq delivered[x]
    <2> TAKE x \in Correct
    <2>1. lock[x] \in delivered[x] /\ exec[x] \in delivered[x] /\ hqc[x] \in delivered[x]
      BY UpdateTypes
    <2> QED BY <1>3, <1>6, <2>1
  <1>8. HqcCertified'
    <2> SUFFICES ASSUME NEW x \in Correct PROVE Certified(hqc[x])'
      BY DEF HqcCertified
    <2>1. Certified(hqc[x]) /\ Certified(HqcAfter(r, n))
      BY HqcAfterProps DEF Inv, HqcCertified
    <2>2. \A b : Certified(b) => Certified(b)'  BY <1>2, CertifiedGrows
    <2> QED BY <1>6, <2>1, <2>2
  <1>9. ExecUnderLock'
    BY <1>6, ExecAfterProps DEF Inv, ExecUnderLock
  <1>10. SafeBuild => LockUnderHqc'
    BY <1>6, HqcAfterProps DEF Inv, LockUnderHqc
  <1>11. ExecIsCommitted'
    <2> SUFFICES ASSUME NEW x \in Correct
                 PROVE  exec'[x] = genesis \/ exec'[x] \in VP!CommittedBlocks'
      BY DEF ExecIsCommitted
    <2>1. exec'[x] = genesis \/ exec'[x] \in VP!CommittedBlocks
      BY <1>6, ExecAfterProps DEF Inv, ExecIsCommitted
    <2> QED BY <1>2, <2>1, CommittedGrows
  <1>12. VP!Inv'
    <2>1. VP!Next \/ UNCHANGED VP!vars  BY UpdateVotes
    <2> QED BY <2>1, VP!NextInv, VotingAssumed DEF Inv
  <1> QED BY <1>2, <1>5, <1>7, <1>8, <1>9, <1>10, <1>11, <1>12
------------------------------------------------------------------------------
(* At the start everything is genesis. *)
LEMMA InitInv == Init => Inv
  <1> SUFFICES ASSUME Init PROVE Inv
    OBVIOUS
  <1>1. genesis \in Block /\ Certified(genesis) /\ QcRef(genesis) = genesis
    BY BlockAssumption, QcRefBlock DEF Certified
  <1>2. TypeOK  BY <1>1 DEF Init, TypeOK
  <1>3. DeliveredClosed
    <2> SUFFICES ASSUME NEW a \in Block, Extends(genesis, a) PROVE a = genesis
      BY DEF Init, DeliveredClosed
    <2>1. Len(a) <= Len(genesis)  BY DEF Extends
    <2> QED BY <1>1, <2>1, HeightProps
  <1>4. DeliveredVerified  BY <1>1 DEF Init, DeliveredVerified, Verify
  <1>5. HqcCertified  BY <1>1 DEF Init, HqcCertified
  <1>6. TailExtendsHqc  BY <1>1, Chains DEF Init, TailExtendsHqc
  <1>7. CountedSigned  BY DEF Init, CountedSigned
  <1>8. ExecUnderLock /\ LockUnderHqc
    BY <1>1, HeightProps DEF Init, ExecUnderLock, LockUnderHqc
  <1>9. ExecIsCommitted  BY DEF Init, ExecIsCommitted
  <1>10. VP!Inv
    <2>1. Voted = [r \in Correct |-> {}]  BY DEF Init, Voted
    <2>2. VP!Init  BY <2>1, SameWalks DEF Init, VP!Init
    <2> QED BY <2>2, VP!InitInv, VotingAssumed
  <1>11. NoSafetyBreach  BY DEF Init, NoSafetyBreach, None
  <1>12. ProposersVote  BY DEF Init, ProposersVote
  <1> QED BY <1>2, <1>3, <1>4, <1>5, <1>6, <1>7, <1>8, <1>9, <1>10, <1>11, <1>12
          DEF Inv

(* A block whose parent is delivered adds only itself to what must be.     *)
LEMMA DeliveredStep ==
  ASSUME Inv, NEW r \in Correct, NEW b \in Block, b # genesis,
         Parent(b) \in delivered[r],
         delivered' = [delivered EXCEPT ![r] = @ \cup {b}]
  PROVE  DeliveredClosed' /\ delivered' \in [Correct -> SUBSET Block]
  <1>1. delivered \in [Correct -> SUBSET Block]  BY DEF Inv, TypeOK
  <1>2. \A q \in Correct :
          delivered'[q] = IF q = r THEN delivered[q] \cup {b} ELSE delivered[q]
    BY <1>1
  <1>3. ASSUME NEW a \in Block, Extends(b, a), a # b
        PROVE  a \in delivered[r]
    <2>1. /\ Parent(b) \in Block /\ Extends(b, Parent(b)) /\ Len(Parent(b)) = Len(b) - 1
          /\ Len(a) \in Nat /\ Len(b) \in Nat /\ Len(a) <= Len(b)
      BY <1>3, ParentChain, HeightProps, Chains
    <2>2. CASE Len(a) = Len(b)
      <3>1. Anc(b, Len(b)) = a  BY <1>3, <2>2 DEF Extends
      <3>2. Anc(b, Len(b)) = b  BY BlockAssumption DEF Anc
      <3> QED BY <1>3, <3>1, <3>2
    <2>3. CASE Len(a) <= Len(b) - 1
      <3>1. Extends(Parent(b), a)  BY <1>3, <2>1, <2>3, Chains
      <3> QED BY <3>1 DEF Inv, DeliveredClosed
    <2> QED BY <2>1, <2>2, <2>3
  <1>4. DeliveredClosed'
    <2> SUFFICES ASSUME NEW q \in Correct, NEW c \in delivered'[q], NEW a \in Block,
                        Extends(c, a)
                 PROVE  a \in delivered'[q]
      BY DEF DeliveredClosed
    <2>1. CASE c \in delivered[q]
      BY <1>2, <2>1 DEF Inv, DeliveredClosed
    <2>2. CASE c \notin delivered[q]
      <3>1. q = r /\ c = b  BY <1>2, <2>2
      <3> QED BY <1>2, <1>3, <3>1
    <2> QED BY <2>1, <2>2
  <1>5. delivered' \in [Correct -> SUBSET Block]  BY <1>1
  <1> QED BY <1>4, <1>5

(* The proposal of a correct replica. *)
LEMMA ProposeBlock ==
  ASSUME Inv, NEW r \in Correct, NEW x \in Payload, Room(NewBlock(tail[r], x, hqc[r]))
  PROVE  LET b == NewBlock(tail[r], x, hqc[r])
         IN  /\ b \in Block /\ b # genesis /\ Parent(b) = tail[r]
             /\ QcRef(b) = hqc[r] /\ Extends(b, hqc[r])
             /\ Verify(b) /\ Ready(r, b)
             /\ HqcAfter(r, b) = hqc[r]
  <1> DEFINE b == NewBlock(tail[r], x, hqc[r])
  <1>1. /\ tail[r] \in Block /\ hqc[r] \in Block /\ hqc[r] \in delivered[r]
        /\ Extends(tail[r], hqc[r]) /\ Certified(hqc[r])
    BY UpdateTypes DEF Inv, TypeOK, TailExtendsHqc, HqcCertified
  <1>2. b \in Block  BY DEF Room
  <1>3. b # genesis /\ Parent(b) = tail[r] /\ Extends(b, tail[r]) /\ QcRef(b) = hqc[r]
    BY <1>1, <1>2, NewBlockProps
  <1> HIDE DEF b
  <1>4. Extends(b, hqc[r])  BY <1>1, <1>2, <1>3, Chains
  <1>5. HqcAfter(r, b) = hqc[r]
    BY <1>1, <1>3, HeightProps DEF HqcAfter
  <1> QED BY <1>1, <1>2, <1>3, <1>4, <1>5 DEF b, Verify, Ready

(* In a SafeBuild the proposer's lock is hqc or lower, so the new block,   *)
(* which carries hqc's certificate and extends it, passes the vote rule.   *)
LEMMA OwnProposalSafe ==
  ASSUME Inv, SafeBuild, NEW r \in Correct, NEW b \in Block, Verify(b),
         QcRef(b) = hqc[r], Extends(b, hqc[r]), HqcAfter(r, b) = hqc[r]
  PROVE  SafeNode(r, b, LockAfter(r, b))
  <1> DEFINE l == LockAfter(r, b)
  <1>1. /\ l \in Block /\ l \in {lock[r]} \cup VP!HigherLocks(r)
        /\ hqc[r] \in Block /\ hqc[r] \in delivered[r] /\ Certified(hqc[r])
    BY LockAfterProps, HqcAfterProps
  <1>2. Len(l) <= Len(hqc[r])  BY HqcAfterProps
  <1> HIDE DEF l
  <1>3. VP!Certified(l)
    <2>1. VP!Inv /\ r \in VP!Correct  BY SameWalks DEF Inv
    <2> QED BY <1>1, <2>1, VP!HigherLocksProps, VotingAssumed
  <1>4. VP!Certified(hqc[r])  BY <1>1, SameCertified DEF Inv, TypeOK
  <1>5. CASE Len(l) = Len(hqc[r])
    <2>1. VP!TypeOK /\ VP!OneVotePerHeight  BY DEF Inv, VP!Inv
    <2>2. l = hqc[r]
      BY <1>1, <1>3, <1>4, <1>5, <2>1, VP!UniqueCert, VotingAssumed
    <2> QED BY <2>2 DEF SafeNode, l
  <1>6. CASE Len(l) # Len(hqc[r])
    <2>1. Len(l) \in Nat /\ Len(hqc[r]) \in Nat  BY <1>1, HeightProps
    <2>2. Height(QcRef(b)) > Height(l)
      BY <1>1, <1>2, <1>6, <2>1, HeightProps
    <2> QED BY <1>1, <2>2 DEF SafeNode, l
  <1> QED BY <1>5, <1>6

(* on_propose keeps the invariant. *)
LEMMA ProposeInv ==
  ASSUME Inv, NEW r \in Proposers, NEW x \in Payload, Propose(r, x)
  PROVE  Inv'
  <1> DEFINE b == NewBlock(tail[r], x, hqc[r])
             error == IF Breach(r, b) THEN "safety breached"
                      ELSE IF Height(b) <= vheight[r]
                           THEN "new block should be higher than vheight" ELSE None
             voting == error = None /\ Opinion(r, b)
  <1>1. /\ Room(b)
        /\ delivered' = [delivered EXCEPT ![r] = @ \cup {b}]
        /\ lock' = [lock EXCEPT ![r] = LockAfter(r, b)]
        /\ exec' = [exec EXCEPT ![r] = ExecAfter(r, b)]
        /\ failed' = [failed EXCEPT ![r] = error]
        /\ props' = IF error = None THEN props \cup {[proposer |-> r, blk |-> b]} ELSE props
        /\ tail' = IF error = None THEN [tail EXCEPT ![r] = b] ELSE tail
        /\ IF voting
           THEN /\ vheight' = [vheight EXCEPT ![r] = Height(b)]
                /\ votes' = votes \cup {[voter |-> r, to |-> r, blk |-> b]}
                /\ counted' = [counted EXCEPT ![r] = @ \cup {[voter |-> r, blk |-> b]}]
           ELSE UNCHANGED << vheight, votes, counted >>
        /\ UNCHANGED hqc
    BY DEF Propose
  <1>2. r \in Correct /\ r \in Replica  BY CoreAssumption DEF Correct
  <1>3. /\ b \in Block /\ b # genesis /\ Parent(b) = tail[r]
        /\ QcRef(b) = hqc[r] /\ Extends(b, hqc[r])
        /\ Verify(b) /\ Ready(r, b) /\ HqcAfter(r, b) = hqc[r]
    BY <1>1, <1>2, ProposeBlock
  <1>4. error \in Exceptions \cup {None}  BY DEF Exceptions
  <1>5. voting => Opinion(r, b)  OBVIOUS
  <1>17. SafeBuild => error # "safety breached"
    BY <1>2, <1>3, ExecAfterProps DEF None
  <1>18. SafeBuild /\ error = None => voting
    <2>1. Height(b) \in Nat /\ vheight[r] \in Nat
      BY <1>2, <1>3, HeightProps DEF Inv, TypeOK
    <2>2. error = None => Height(b) > vheight[r]  BY <2>1 DEF None
    <2>3. SafeBuild => SafeNode(r, b, LockAfter(r, b))
      BY <1>2, <1>3, OwnProposalSafe
    <2> QED BY <2>2, <2>3 DEF Opinion
  <1> HIDE DEF b, error, voting
  <1>6. TypeOK  BY DEF Inv
  <1>7. /\ DeliveredClosed' /\ delivered' \in [Correct -> SUBSET Block]
        /\ \A q \in Correct : delivered[q] \subseteq delivered'[q]
        /\ b \in delivered'[r]
    <2>1. Parent(b) \in delivered[r]  BY <1>2, <1>3, <1>6 DEF TypeOK
    <2> QED BY <1>1, <1>2, <1>3, <1>6, <2>1, DeliveredStep DEF TypeOK
  <1>8. hqc' = [hqc EXCEPT ![r] = HqcAfter(r, b)]  BY <1>1, <1>3, <1>6 DEF TypeOK
  <1>9. \/ /\ Opinion(r, b)
           /\ vheight' = [vheight EXCEPT ![r] = Height(b)]
           /\ \E to \in Replica : votes' = votes \cup {[voter |-> r, to |-> to, blk |-> b]}
        \/ UNCHANGED << vheight, votes >>
    BY <1>1, <1>2, <1>5
  <1>10. /\ votes \subseteq votes' /\ votes' \subseteq Vote
         /\ vheight' \in [Correct -> Nat]
         /\ lock' \in [Correct -> Block] /\ exec' \in [Correct -> Block]
         /\ hqc' \in [Correct -> Block]
         /\ \A q \in Correct : {lock'[q], exec'[q], hqc'[q]} \subseteq delivered[q]
         /\ HqcCertified' /\ ExecUnderLock' /\ ExecIsCommitted' /\ VP!Inv'
         /\ SafeBuild => LockUnderHqc'
    BY <1>1, <1>2, <1>3, <1>8, <1>9, UpdateInv
  <1>11. \A c : Certified(c) => Certified(c)'  BY <1>10, CertifiedGrows
  <1>12. HeldDelivered'
    <2> SUFFICES ASSUME NEW q \in Correct
                 PROVE  {lock'[q], exec'[q], hqc'[q], tail'[q]} \subseteq delivered'[q]
      BY DEF HeldDelivered
    <2>1. tail[q] \in delivered[q]  BY <1>6 DEF TypeOK
    <2>2. tail'[q] \in delivered'[q]  BY <1>1, <1>6, <1>7, <2>1 DEF TypeOK
    <2> QED BY <1>7, <1>10, <2>2
  <1>13. TypeOK'
    <2>1. props' \subseteq Proposal  BY <1>1, <1>2, <1>3, <1>6 DEF TypeOK, Proposal
    <2>2. tail' \in [Correct -> Block]  BY <1>1, <1>3, <1>6 DEF TypeOK
    <2>3. counted' \in [Correct -> SUBSET [voter : Replica, blk : Block]]
      BY <1>1, <1>2, <1>3, <1>6 DEF TypeOK
    <2>4. failed' \in [Correct -> Exceptions \cup {None}]
      BY <1>1, <1>4, <1>6 DEF TypeOK
    <2> QED BY <1>7, <1>10, <1>12, <2>1, <2>2, <2>3, <2>4 DEF TypeOK, HeldDelivered
  <1>14. DeliveredVerified'
    BY <1>1, <1>3, <1>6, <1>11 DEF DeliveredVerified, Verify, Inv, TypeOK
  <1>15. TailExtendsHqc'
    BY <1>1, <1>3, <1>6 DEF TailExtendsHqc, Inv, TypeOK
  <1>16. CountedSigned'
    <2> SUFFICES ASSUME NEW q \in Correct, NEW v \in counted'[q]
                 PROVE  v.voter \in Signers(v.blk)'
      BY DEF CountedSigned
    <2>1. CASE v \in counted[q]
      BY <1>10, <2>1 DEF Inv, CountedSigned, Signers
    <2>2. CASE v \notin counted[q]
      <3>1. v = [voter |-> r, blk |-> b] /\ [voter |-> r, to |-> r, blk |-> b] \in votes'
        BY <1>1, <1>6, <2>2 DEF TypeOK
      <3> QED BY <3>1 DEF Signers
    <2> QED BY <2>1, <2>2
  <1>19. SafeBuild => NoSafetyBreach'
    BY <1>1, <1>2, <1>6, <1>17 DEF NoSafetyBreach, Inv, TypeOK
  <1>20. SafeBuild => ProposersVote'
    BY <1>1, <1>10, <1>18 DEF ProposersVote, Inv
  <1> QED BY <1>7, <1>10, <1>13, <1>14, <1>15, <1>16, <1>19, <1>20 DEF Inv

(* A step that leaves votes, vote heights and locks alone keeps what the   *)
(* certificates rest on.                                                   *)
LEMMA SameVotes ==
  ASSUME Inv, UNCHANGED << votes, vheight, lock >>
  PROVE  /\ VP!Inv'
         /\ \A b : Certified(b) => Certified(b)'
         /\ \A b : Signers(b)' = Signers(b)
         /\ exec' = exec => ExecIsCommitted'
  <1>1. votes \subseteq votes' /\ votes' \subseteq Vote  BY DEF Inv, TypeOK
  <1>2. VP!Inv'
    <2>1. UNCHANGED VP!vars  BY DEF VP!vars, Voted
    <2> QED BY <2>1, VP!NextInv, VotingAssumed DEF Inv
  <1>3. \A b : Certified(b) => Certified(b)'  BY <1>1, CertifiedGrows
  <1>4. \A b : Signers(b)' = Signers(b)  BY DEF Signers
  <1>5. ASSUME exec' = exec PROVE ExecIsCommitted'
    <2> SUFFICES ASSUME NEW r \in Correct
                 PROVE  exec'[r] = genesis \/ exec'[r] \in VP!CommittedBlocks'
      BY DEF ExecIsCommitted
    <2>1. exec'[r] = genesis \/ exec'[r] \in VP!CommittedBlocks
      BY <1>5 DEF Inv, ExecIsCommitted
    <2> QED BY <1>1, <2>1, CommittedGrows
  <1> QED BY <1>2, <1>3, <1>4, <1>5

(* A proposal of a faulty replica keeps the invariant, whatever block it   *)
(* names a certificate for.                                                *)
LEMMA FaultyProposeInv ==
  ASSUME Inv, NEW f \in FaultyProposers, NEW p, NEW q, NEW x, FaultyPropose(f, p, q, x)
  PROVE  Inv'
  <1> DEFINE b == NewBlock(p, x, q)
  <1>1. /\ b \in Block
        /\ props' = props \cup {[proposer |-> f, blk |-> b]}
        /\ UNCHANGED << votes, delivered, vheight, lock, exec, hqc, tail, counted, failed >>
    BY DEF FaultyPropose, Room, replicaVars
  <1> HIDE DEF b
  <1>2. f \in Replica /\ f \notin Correct
    BY CoreAssumption, ReplicaAssumption DEF Correct
  <1>3. /\ VP!Inv' /\ ExecIsCommitted'
        /\ \A c : Certified(c) => Certified(c)'
        /\ \A c : Signers(c)' = Signers(c)
    BY <1>1, SameVotes
  <1>4. TypeOK'
    <2>1. props' \subseteq Proposal  BY <1>1, <1>2 DEF Inv, TypeOK, Proposal
    <2> QED BY <1>1, <2>1 DEF Inv, TypeOK
  <1>5. DeliveredVerified' /\ HqcCertified' /\ CountedSigned'
    BY <1>1, <1>3 DEF Inv, DeliveredVerified, Verify, HqcCertified, CountedSigned
  <1>6. DeliveredClosed' /\ TailExtendsHqc' /\ ExecUnderLock'
    BY <1>1 DEF Inv, DeliveredClosed, TailExtendsHqc, ExecUnderLock
  <1>7. SafeBuild => LockUnderHqc' /\ NoSafetyBreach'
    BY <1>1 DEF Inv, LockUnderHqc, NoSafetyBreach
  <1>8. ProposersVote => ProposersVote'  BY <1>1, <1>2 DEF ProposersVote
  <1> QED BY <1>3, <1>4, <1>5, <1>6, <1>7, <1>8 DEF Inv

(* on_deliver_blk keeps the invariant: it checks the certificate and       *)
(* delivers parents first.                                                 *)
LEMMA DeliverInv ==
  ASSUME Inv, NEW r \in Correct, NEW b \in Proposed, Deliver(r, b)
  PROVE  Inv'
  <1>1. b \in Block /\ b # genesis
    <2>1. b \in Block  BY DEF Proposed, Inv, TypeOK, Proposal
    <2>2. hqc[r] \in delivered[r] /\ hqc[r] \in Block  BY DEF Inv, TypeOK
    <2>3. genesis \in delivered[r]
      BY <2>2, BlockAssumption, Chains DEF Inv, DeliveredClosed
    <2> QED BY <2>1, <2>3 DEF Deliver
  <1>2. /\ Verify(b) /\ Parent(b) \in delivered[r]
        /\ delivered' = [delivered EXCEPT ![r] = @ \cup {b}]
        /\ UNCHANGED << props, votes, vheight, lock, exec, hqc, tail, counted, failed >>
    BY DEF Deliver
  <1>3. /\ VP!Inv' /\ ExecIsCommitted'
        /\ \A c : Certified(c) => Certified(c)'
        /\ \A c : Signers(c)' = Signers(c)
    BY <1>2, SameVotes
  <1>4. DeliveredClosed' /\ delivered' \in [Correct -> SUBSET Block]
    BY <1>1, <1>2, DeliveredStep
  <1>5. HeldDelivered'
    <2>1. \A q \in Correct : delivered[q] \subseteq delivered'[q]
      BY <1>2 DEF Inv, TypeOK
    <2>2. HeldDelivered  BY DEF Inv, TypeOK, HeldDelivered
    <2> QED BY <1>2, <2>1, <2>2 DEF HeldDelivered
  <1>6. TypeOK'  BY <1>2, <1>4, <1>5 DEF Inv, TypeOK, HeldDelivered
  <1>7. DeliveredVerified'
    BY <1>2, <1>3 DEF Inv, DeliveredVerified, Verify, TypeOK
  <1>8. HqcCertified' /\ CountedSigned'
    BY <1>2, <1>3 DEF Inv, HqcCertified, CountedSigned
  <1>9. TailExtendsHqc' /\ ExecUnderLock'
    BY <1>2 DEF Inv, TailExtendsHqc, ExecUnderLock
  <1>10. SafeBuild => LockUnderHqc' /\ NoSafetyBreach' /\ ProposersVote'
    BY <1>2 DEF Inv, LockUnderHqc, NoSafetyBreach, ProposersVote
  <1> QED BY <1>3, <1>4, <1>6, <1>7, <1>8, <1>9, <1>10 DEF Inv

(* on_receive_proposal keeps the invariant. *)
LEMMA ReceiveProposalInv ==
  ASSUME Inv, NEW r \in Correct, NEW p \in props, ReceiveProposal(r, p)
  PROVE  Inv'
  <1> DEFINE b == p.blk
             h == HqcAfter(r, b)
             voting == ~Breach(r, b) /\ Opinion(r, b)
  <1>1. /\ b \in delivered[r]
        /\ hqc' = [hqc EXCEPT ![r] = HqcAfter(r, b)]
        /\ lock' = [lock EXCEPT ![r] = LockAfter(r, b)]
        /\ exec' = [exec EXCEPT ![r] = ExecAfter(r, b)]
        /\ failed' = [failed EXCEPT ![r] = IF Breach(r, b) THEN "safety breached" ELSE None]
        /\ IF voting
           THEN /\ vheight' = [vheight EXCEPT ![r] = Height(b)]
                /\ votes' = votes \cup {[voter |-> r, to |-> p.proposer, blk |-> b]}
           ELSE UNCHANGED << vheight, votes >>
        /\ UNCHANGED << props, delivered, counted >>
    BY DEF ReceiveProposal
  <1>2. PICK t \in TailsAfter(r, h) :
          tail' = [tail EXCEPT ![r] = IF Breach(r, b) THEN t ELSE TailOnProposal(t, h, b)]
    BY DEF ReceiveProposal
  <1>3. voting => Opinion(r, b)  OBVIOUS
  <1>4. TypeOK  BY DEF Inv
  <1>5. b \in Block /\ Verify(b) /\ p.proposer \in Replica
    BY <1>1, <1>4 DEF Inv, DeliveredVerified, TypeOK, Proposal
  <1> HIDE DEF b, voting
  <1>6. h \in Block  BY <1>5, HqcAfterProps
  <1> HIDE DEF h
  <1>7. \/ /\ Opinion(r, b)
           /\ vheight' = [vheight EXCEPT ![r] = Height(b)]
           /\ \E to \in Replica : votes' = votes \cup {[voter |-> r, to |-> to, blk |-> b]}
        \/ UNCHANGED << vheight, votes >>
    BY <1>1, <1>3, <1>5
  <1>8. Ready(r, b)
    <2>1. QcRef(b) \in Block  BY <1>5, QcRefBlock
    <2> QED BY <1>1, <2>1 DEF Inv, DeliveredClosed, Ready, OwnCert
  <1>9. /\ votes \subseteq votes' /\ votes' \subseteq Vote
        /\ vheight' \in [Correct -> Nat]
        /\ lock' \in [Correct -> Block] /\ exec' \in [Correct -> Block]
        /\ hqc' \in [Correct -> Block]
        /\ \A q \in Correct : {lock'[q], exec'[q], hqc'[q]} \subseteq delivered[q]
        /\ HqcCertified' /\ ExecUnderLock' /\ ExecIsCommitted' /\ VP!Inv'
        /\ SafeBuild => LockUnderHqc'
    BY <1>1, <1>5, <1>7, <1>8, UpdateInv
  <1>10. \A c : Certified(c) => Certified(c)'  BY <1>9, CertifiedGrows
  <1> DEFINE u == IF Breach(r, b) THEN t ELSE TailOnProposal(t, h, b)
  <1>11. /\ tail' = [tail EXCEPT ![r] = u]
         /\ u \in Block /\ u \in delivered[r] /\ Extends(u, h)
    <2>1. t \in Block /\ t \in delivered[r] /\ Extends(t, h)
      BY <1>2, <1>6, TailsAfterProps
    <2> QED BY <1>1, <1>2, <1>5, <2>1 DEF TailOnProposal
  <1> HIDE DEF u
  <1>12. TypeOK'
    <2>1. tail' \in [Correct -> Block]  BY <1>4, <1>11 DEF TypeOK
    <2>2. failed' \in [Correct -> Exceptions \cup {None}]
      BY <1>1, <1>4 DEF TypeOK, Exceptions
    <2>3. HeldDelivered'
      <3> SUFFICES ASSUME NEW q \in Correct
                   PROVE  {lock'[q], exec'[q], hqc'[q], tail'[q]} \subseteq delivered[q]
        BY <1>1 DEF HeldDelivered
      <3>1. tail[q] \in delivered[q]  BY <1>4 DEF TypeOK
      <3>2. tail'[q] \in delivered[q]  BY <1>4, <1>11, <3>1 DEF TypeOK
      <3> QED BY <1>9, <3>2
    <2> QED BY <1>1, <1>4, <1>9, <2>1, <2>2, <2>3 DEF TypeOK, HeldDelivered
  <1>13. DeliveredVerified' /\ DeliveredClosed'
    BY <1>1, <1>10 DEF Inv, DeliveredVerified, Verify, DeliveredClosed
  <1>14. TailExtendsHqc'
    BY <1>1, <1>4, <1>11 DEF Inv, TailExtendsHqc, TypeOK, h
  <1>15. CountedSigned'  BY <1>1, <1>9 DEF Inv, CountedSigned, Signers
  <1>16. SafeBuild => NoSafetyBreach'
    <2>1. SafeBuild => ~Breach(r, b)  BY <1>5, ExecAfterProps
    <2> QED BY <1>1, <1>4, <2>1 DEF Inv, NoSafetyBreach, TypeOK, None
  <1>17. SafeBuild => ProposersVote'  BY <1>1, <1>9 DEF Inv, ProposersVote
  <1> QED BY <1>9, <1>12, <1>13, <1>14, <1>15, <1>16, <1>17 DEF Inv

(* The votes counted for a block are votes that were signed, so the one    *)
(* that completes the count makes a certificate.                           *)
LEMMA CompletesCertified ==
  ASSUME Inv, NEW r \in Correct, NEW b \in Block, NEW voter \in Signers(b),
         Completes(r, b), [voter |-> voter, blk |-> b] \notin counted[r]
  PROVE  Certified(b)
  <1> DEFINE C == CountedFor(r, b)
             W == {v.voter : v \in C}
  <1>1. /\ C \subseteq counted[r]
        /\ \A v \in C : v.blk = b /\ v = [voter |-> v.voter, blk |-> b]
    BY DEF CountedFor, Inv, TypeOK
  <1>2. W \subseteq Signers(b)  BY <1>1 DEF Inv, CountedSigned
  <1>3. Signers(b) \subseteq Replica  BY SignersAreReplicas DEF Inv, TypeOK
  <1>4. voter \notin W  BY <1>1
  <1>5. IsFiniteSet(W)  BY <1>2, <1>3, ReplicaAssumption, FS_Subset
  <1>6. Cardinality(W) = Cardinality(C)
    <2> DEFINE f == [w \in W |-> [voter |-> w, blk |-> b]]
    <2>1. f \in Bijection(W, C)
      <3>1. f \in [W -> C]  BY <1>1
      <3>2. \A v, w \in W : f[v] = f[w] => v = w  OBVIOUS
      <3>3. \A v \in C : v.voter \in W /\ f[v.voter] = v  BY <1>1
      <3> HIDE DEF f, W, C
      <3> QED BY <3>1, <3>2, <3>3 DEF Bijection, Injection, Surjection, IsInjective
    <2> HIDE DEF f, W, C
    <2> QED BY <1>5, <2>1, FS_Bijection DEF ExistsBijection
  <1> HIDE DEF W, C
  <1>7. /\ IsFiniteSet(W \cup {voter})
        /\ Cardinality(W \cup {voter}) = Cardinality(C) + 1
    BY <1>4, <1>5, <1>6, FS_AddElement
  <1>8. Cardinality(C) + 1 = nmajority  BY DEF Completes, C
  <1>9. IsQuorum(W \cup {voter})
    <2>1. nmajority \in Int
      BY ReplicaAssumption, FS_CardinalityType DEF nmajority, nfaulty, nreplicas
    <2>2. Cardinality(W \cup {voter}) >= nmajority  BY <1>7, <1>8, <2>1
    <2> QED BY <1>2, <1>3, <2>2 DEF IsQuorum
  <1>10. IsQuorum(Signers(b))  BY <1>2, <1>3, <1>9, QuorumGrows
  <1> QED BY <1>10 DEF Certified

(* on_receive_vote of a vote that was signed keeps the invariant. *)
LEMMA ReceiveVoteInv ==
  ASSUME Inv, NEW r \in Correct, NEW b \in Block, NEW voter \in Signers(b),
         ReceiveVote(r, voter, b)
  PROVE  Inv'
  <1> DEFINE v == [voter |-> voter, blk |-> b]
             h == IF Completes(r, b) /\ Height(b) > Height(hqc[r]) THEN b ELSE hqc[r]
  <1>1. /\ v \notin counted[r] /\ b \in delivered[r]
        /\ counted' = [counted EXCEPT ![r] = @ \cup {v}]
        /\ hqc' = [hqc EXCEPT ![r] = h]
        /\ UNCHANGED << props, votes, delivered, vheight, lock, exec, failed >>
    BY DEF ReceiveVote
  <1>2. PICK t \in TailsAfter(r, h) : tail' = [tail EXCEPT ![r] = t]
    BY DEF ReceiveVote
  <1>3. TypeOK  BY DEF Inv
  <1>4. voter \in Replica  BY <1>3, SignersAreReplicas DEF TypeOK
  <1>5. /\ h \in Block /\ h \in delivered[r] /\ Certified(h) /\ Len(hqc[r]) <= Len(h)
    <2>1. hqc[r] \in Block /\ hqc[r] \in delivered[r] /\ Certified(hqc[r])
      BY DEF Inv, TypeOK, HqcCertified
    <2>2. Len(hqc[r]) \in Nat /\ Len(b) \in Nat  BY <2>1, HeightProps
    <2>3. CASE Completes(r, b) /\ Height(b) > Height(hqc[r])
      <3>1. Certified(b)  BY <1>1, <2>3, CompletesCertified
      <3>2. h = b /\ Len(hqc[r]) <= Len(b)  BY <2>1, <2>2, <2>3, HeightProps
      <3> QED BY <1>1, <3>1, <3>2
    <2>4. CASE ~(Completes(r, b) /\ Height(b) > Height(hqc[r]))
      <3>1. h = hqc[r]  BY <2>4
      <3> QED BY <2>1, <2>2, <3>1
    <2> QED BY <2>3, <2>4
  <1> HIDE DEF h
  <1>6. t \in Block /\ t \in delivered[r] /\ Extends(t, h)
    BY <1>2, <1>5, TailsAfterProps
  <1>7. /\ VP!Inv' /\ ExecIsCommitted'
        /\ \A c : Certified(c) => Certified(c)'
        /\ \A c : Signers(c)' = Signers(c)
    BY <1>1, SameVotes
  <1>8. \A x \in Correct : /\ hqc'[x] = IF x = r THEN h ELSE hqc[x]
                           /\ tail'[x] = IF x = r THEN t ELSE tail[x]
    BY <1>1, <1>2, <1>3 DEF TypeOK
  <1>9. TypeOK'
    <2>1. counted' \in [Correct -> SUBSET [voter : Replica, blk : Block]]
      BY <1>1, <1>3, <1>4 DEF TypeOK
    <2>2. hqc' \in [Correct -> Block] /\ tail' \in [Correct -> Block]
      BY <1>1, <1>2, <1>3, <1>5, <1>6 DEF TypeOK
    <2>3. HeldDelivered'
      <3> SUFFICES ASSUME NEW x \in Correct
                   PROVE  {lock[x], exec[x], hqc'[x], tail'[x]} \subseteq delivered[x]
        BY <1>1 DEF HeldDelivered
      <3>1. {lock[x], exec[x], hqc[x], tail[x]} \subseteq delivered[x]
        BY <1>3 DEF TypeOK
      <3> QED BY <1>5, <1>6, <1>8, <3>1
    <2> QED BY <1>1, <1>3, <2>1, <2>2, <2>3 DEF TypeOK, HeldDelivered
  <1>10. DeliveredVerified' /\ DeliveredClosed' /\ ExecUnderLock'
    BY <1>1, <1>7 DEF Inv, DeliveredVerified, Verify, DeliveredClosed, ExecUnderLock
  <1>11. HqcCertified'  BY <1>5, <1>7, <1>8 DEF Inv, HqcCertified
  <1>12. TailExtendsHqc'  BY <1>6, <1>8 DEF Inv, TailExtendsHqc
  <1>13. SafeBuild => LockUnderHqc'
    <2> SUFFICES ASSUME SafeBuild, NEW x \in Correct PROVE Len(lock[x]) <= Len(hqc'[x])
      BY <1>1 DEF LockUnderHqc
    <2>1. Len(lock[x]) <= Len(hqc[x])  BY DEF Inv, LockUnderHqc
    <2>2. Len(lock[x]) \in Nat /\ Len(hqc[x]) \in Nat /\ Len(h) \in Nat
      BY <1>3, <1>5, HeightProps DEF TypeOK
    <2> QED BY <1>5, <1>8, <2>1, <2>2
  <1>14. SafeBuild => NoSafetyBreach' /\ ProposersVote'
    BY <1>1 DEF Inv, NoSafetyBreach, ProposersVote
  <1>15. CountedSigned'
    BY <1>1, <1>3, <1>7 DEF Inv, CountedSigned, TypeOK
  <1> QED BY <1>7, <1>9, <1>10, <1>11, <1>12, <1>13, <1>14, <1>15 DEF Inv

(* Every handler, in whatever order messages arrive, keeps the invariant. *)
THEOREM NextInv == Inv /\ [Next]_vars => Inv'
  <1> SUFFICES ASSUME Inv, [Next]_vars PROVE Inv'
    OBVIOUS
  <1>1. ASSUME NEW r \in Proposers, NEW x \in Payload, Propose(r, x)
        PROVE  Inv'
    BY <1>1, ProposeInv
  <1>2. ASSUME NEW f \in FaultyProposers, NEW p, NEW q, NEW x, FaultyPropose(f, p, q, x)
        PROVE  Inv'
    BY <1>2, FaultyProposeInv
  <1>3. ASSUME NEW r \in Correct, NEW b \in Proposed, Deliver(r, b)
        PROVE  Inv'
    BY <1>3, DeliverInv
  <1>4. ASSUME NEW r \in Correct, NEW p \in props, ReceiveProposal(r, p)
        PROVE  Inv'
    BY <1>4, ReceiveProposalInv
  <1>5. ASSUME NEW r \in Correct, ReceiveCorrectVote(r)
        PROVE  Inv'
    <2>1. PICK v \in votes : ReceiveVote(r, v.voter, v.blk)
      BY <1>5 DEF ReceiveCorrectVote
    <2>2. v.blk \in Block  BY <2>1 DEF ReceiveVote, Inv, TypeOK
    <2>3. v.voter \in Signers(v.blk)  BY DEF Signers
    <2> QED BY <2>1, <2>2, <2>3, ReceiveVoteInv
  <1>6. ASSUME NEW r \in Correct, ReceiveFaultyVote(r)
        PROVE  Inv'
    <2>1. PICK f \in FaultyVoters, b \in delivered[r] : ReceiveVote(r, f, b)
      BY <1>6 DEF ReceiveFaultyVote
    <2>2. b \in Block /\ f \in Signers(b)
      BY CoreAssumption DEF Signers, Inv, TypeOK
    <2> QED BY <2>1, <2>2, ReceiveVoteInv
  <1>7. CASE UNCHANGED vars
    <2>1. UNCHANGED << props, votes, delivered, vheight, lock, exec, hqc, tail, counted, failed >>
      BY <1>7 DEF vars
    <2>2. /\ VP!Inv' /\ ExecIsCommitted'
          /\ \A c : Certified(c) => Certified(c)'
          /\ \A c : Signers(c)' = Signers(c)
      BY <2>1, SameVotes
    <2>3. TypeOK'  BY <2>1 DEF Inv, TypeOK
    <2>4. DeliveredVerified' /\ HqcCertified' /\ CountedSigned'
      BY <2>1, <2>2 DEF Inv, DeliveredVerified, Verify, HqcCertified, CountedSigned
    <2>5. DeliveredClosed' /\ TailExtendsHqc' /\ ExecUnderLock'
      BY <2>1 DEF Inv, DeliveredClosed, TailExtendsHqc, ExecUnderLock
    <2>6. SafeBuild => LockUnderHqc' /\ NoSafetyBreach' /\ ProposersVote'
      BY <2>1 DEF Inv, LockUnderHqc, NoSafetyBreach, ProposersVote
    <2> QED BY <2>2, <2>3, <2>4, <2>5, <2>6 DEF Inv
  <1> QED BY <1>1, <1>2, <1>3, <1>4, <1>5, <1>6, <1>7 DEF Next

(* The invariant holds in every reachable state. *)
THEOREM InvHolds == Spec => []Inv
  BY InitInv, NextInv, PTL DEF Spec
------------------------------------------------------------------------------
(* Blocks, votes, heights and certificates have their types, whatever the  *)
(* handlers of HotStuffCore do.                                            *)
THEOREM TypeCorrect == Spec => []TypeOK
  <1>1. Inv => TypeOK  BY DEF Inv
  <1> QED BY <1>1, InvHolds, PTL

(* hqc of every correct replica is certified: update_hqc is only called    *)
(* with a verified certificate or with one made of nmajority votes.        *)
THEOREM HqcIsCertified == Spec => []HqcCertified
  <1>1. Inv => HqcCertified  BY DEF Inv
  <1> QED BY <1>1, InvHolds, PTL

(* PMHighTail's hqc_tail extends hqc, so on_propose makes proper blocks. *)
THEOREM TailStaysAboveHqc == Spec => []TailExtendsHqc
  <1>1. Inv => TailExtendsHqc  BY DEF Inv
  <1> QED BY <1>1, InvHolds, PTL

(* The build and the blocks do not change. *)
LEMMA SafeBuildStays == SafeBuild => []SafeBuild
  <1>1. SafeBuild => SafeBuild'  OBVIOUS
  <1> QED BY <1>1, PTL

(* In a SafeBuild "safety breached" in update() is unreachable. *)
THEOREM NeverBreached == SafeBuild /\ Spec => []NoSafetyBreach
  <1>1. SafeBuild /\ Inv => NoSafetyBreach  BY DEF Inv
  <1> QED BY <1>1, InvHolds, SafeBuildStays, PTL

(* In a SafeBuild whoever proposes has voted for the proposal. *)
THEOREM ProposersHaveVoted == SafeBuild /\ Spec => []ProposersVote
  <1>1. SafeBuild /\ Inv => ProposersVote  BY DEF Inv
  <1> QED BY <1>1, InvHolds, SafeBuildStays, PTL

(* In a SafeBuild, what two correct replicas have executed lies on one     *)
(* chain.                                                                  *)
THEOREM ReplicasAgree == SafeBuild /\ Spec => []Agreement
  <1>1. SafeBuild /\ Inv => Agreement
    <2> SUFFICES ASSUME SafeBuild, Inv, NEW r \in Correct, NEW s \in Correct
                 PROVE  Extends(exec[r], exec[s]) \/ Extends(exec[s], exec[r])
      BY DEF Agreement
    <2>1. exec[r] \in Block /\ exec[s] \in Block  BY DEF Inv, TypeOK
    <2>2. CASE exec[r] = genesis \/ exec[s] = genesis  BY <2>1, <2>2, Chains
    <2>3. CASE exec[r] # genesis /\ exec[s] # genesis
      <3>1. exec[r] \in VP!CommittedBlocks /\ exec[s] \in VP!CommittedBlocks /\ VP!Inv
        BY <2>3 DEF Inv, ExecIsCommitted
      <3>2. Len(exec[r]) <= Len(exec[s]) \/ Len(exec[s]) <= Len(exec[r])
        BY <2>1, HeightProps
      <3> QED BY <3>1, <3>2, CommittedChain
    <2> QED BY <2>2, <2>3
  <1> QED BY <1>1, InvHolds, SafeBuildStays, PTL

(* In a SafeBuild b_lock extends b_exec and is not above hqc. *)
THEOREM LockStaysBetween == SafeBuild /\ Spec => []LockBetweenExecAndHqc
  <1>1. SafeBuild /\ Inv => LockBetweenExecAndHqc
    <2> SUFFICES ASSUME SafeBuild, Inv, NEW r \in Correct
                 PROVE  Extends(lock[r], exec[r]) /\ Height(lock[r]) <= Height(hqc[r])
      BY DEF LockBetweenExecAndHqc
    <2>1. /\ lock[r] \in Block /\ exec[r] \in Block /\ hqc[r] \in Block
          /\ Len(exec[r]) <= Len(lock[r]) /\ Len(lock[r]) <= Len(hqc[r])
      BY DEF Inv, TypeOK, ExecUnderLock, LockUnderHqc
    <2>2. VP!Inv /\ VP!SafeBuild /\ lock[r] \in VP!CertifiedBlocks
      BY <2>1, SameWalks DEF Inv, VP!Inv, VP!VotesOk, VP!CertifiedBlocks
    <2>3. Extends(lock[r], exec[r])
      <3>1. CASE exec[r] = genesis  BY <2>1, <3>1, Chains
      <3>2. CASE exec[r] \in VP!CommittedBlocks
        BY <2>1, <2>2, <3>2, VP!InvCertifiedExtend, VotingAssumed, SameWalks
      <3> QED BY <3>1, <3>2 DEF Inv, ExecIsCommitted
    <2> QED BY <2>1, <2>3, HeightProps
  <1> QED BY <1>1, InvHolds, SafeBuildStays, PTL
------------------------------------------------------------------------------
(* The instance of Voting in HotStuffCore is the one the proofs are about. *)
LEMMA SameVoting ==
  /\ V!CommittedBlocks = VP!CommittedBlocks
  /\ V!Init <=> VP!Init
  /\ V!Next <=> VP!Next
  /\ V!vars = VP!vars
  /\ (V!vars)' = (VP!vars)'
  <1>1. V!Correct = VP!Correct /\ V!genesis = VP!genesis
    BY DEF V!Correct, VP!Correct, V!genesis, VP!genesis
  <1>2. /\ V!CertifiedBlocks = VP!CertifiedBlocks
        /\ \A b : V!Certified(b) <=> VP!Certified(b)
    BY SameCardinality
       DEF V!CertifiedBlocks, VP!CertifiedBlocks, V!Certified, VP!Certified,
           V!genesis, VP!genesis, V!IsQuorum, VP!IsQuorum, V!nmajority, VP!nmajority,
           V!nfaulty, VP!nfaulty, V!nreplicas, VP!nreplicas, V!Voters, VP!Voters,
           V!Correct, VP!Correct, V!Cardinality, VP!Cardinality
  <1>3. V!CommittedBlocks = VP!CommittedBlocks
    BY <1>2
       DEF V!CommittedBlocks, VP!CommittedBlocks, V!CommitChain, VP!CommitChain,
           V!genesis, VP!genesis, V!Parent, VP!Parent, V!QcRef, VP!QcRef,
           V!Anc, VP!Anc
  <1>4. V!Init <=> VP!Init
    BY <1>1 DEF V!Init, VP!Init
  <1>5. V!Next <=> VP!Next
    <2>1. /\ \A b : V!QcRef(b) = VP!QcRef(b) /\ V!Height(b) = VP!Height(b)
          /\ \A b : V!LockedBy(b) = VP!LockedBy(b)
          /\ \A n, l : V!SafeNode(n, l) <=> VP!SafeNode(n, l)
          /\ \A n : V!OnChain(n) <=> VP!OnChain(n)
      BY DEF V!OnChain, VP!OnChain, V!OwnCert, VP!OwnCert, V!SafeNode, VP!SafeNode, V!LockedBy, VP!LockedBy, V!QcRef, VP!QcRef, V!Anc,
             VP!Anc, V!Height, VP!Height, V!Extends, VP!Extends, V!genesis, VP!genesis
    <2>2. \A r : V!HigherLocks(r) = VP!HigherLocks(r)
      <3>1. {V!LockedBy(b) : b \in V!CertifiedBlocks}
              = {VP!LockedBy(b) : b \in VP!CertifiedBlocks}
        BY <1>2, <2>1
      <3> QED BY <2>1, <3>1 DEF V!HigherLocks, VP!HigherLocks
    <2>3. \A r, l : V!RaiseLock(r, l) <=> VP!RaiseLock(r, l)
      BY DEF V!RaiseLock, VP!RaiseLock
    <2>4. \A r, n, l : V!CastVote(r, n, l) <=> VP!CastVote(r, n, l)
      BY <1>2, <2>1 DEF V!CastVote, VP!CastVote, V!NotYetVoted, VP!NotYetVoted
    <2> QED BY <1>1, <2>2, <2>3, <2>4 DEF V!Next, VP!Next
  <1>6. V!vars = VP!vars /\ (V!vars)' = (VP!vars)'  BY DEF V!vars, VP!vars
  <1> QED BY <1>3, <1>4, <1>5, <1>6

(* What a correct replica executes was committed by certificates. *)
THEOREM ExecWasCommitted == Spec => []ExecCommitted
  <1>1. Inv => ExecCommitted
    BY SameVoting DEF Inv, ExecIsCommitted, ExecCommitted
  <1> QED BY <1>1, InvHolds, PTL

(* Every handler of HotStuffCore is a step of Voting, or leaves its        *)
(* variables alone.                                                        *)
LEMMA VotingStep ==
  ASSUME Inv, [Next]_vars
  PROVE  VP!Next \/ UNCHANGED VP!vars
  <1>1. ASSUME NEW r \in Proposers, NEW x \in Payload, Propose(r, x)
        PROVE  VP!Next \/ UNCHANGED VP!vars
    <2> DEFINE b == NewBlock(tail[r], x, hqc[r])
    <2>1. r \in Correct /\ r \in Replica  BY CoreAssumption DEF Correct
    <2>2. Room(b)  BY <1>1 DEF Propose
    <2>3. b \in Block /\ Verify(b) /\ Ready(r, b)  BY <2>1, <2>2, ProposeBlock
    <2>4. /\ lock' = [lock EXCEPT ![r] = LockAfter(r, b)]
          /\ \/ /\ Opinion(r, b)
                /\ vheight' = [vheight EXCEPT ![r] = Height(b)]
                /\ votes' = votes \cup {[voter |-> r, to |-> r, blk |-> b]}
             \/ UNCHANGED << vheight, votes >>
      BY <1>1 DEF Propose
    <2> HIDE DEF b
    <2> QED BY <2>1, <2>3, <2>4, UpdateVotes
  <1>2. ASSUME NEW r \in Correct, NEW p \in props, ReceiveProposal(r, p)
        PROVE  VP!Next \/ UNCHANGED VP!vars
    <2>1. p.blk \in Block /\ Verify(p.blk) /\ p.proposer \in Replica
      BY <1>2 DEF ReceiveProposal, Inv, DeliveredVerified, TypeOK, Proposal
    <2>2. /\ lock' = [lock EXCEPT ![r] = LockAfter(r, p.blk)]
          /\ \/ /\ Opinion(r, p.blk)
                /\ vheight' = [vheight EXCEPT ![r] = Height(p.blk)]
                /\ votes' = votes \cup {[voter |-> r, to |-> p.proposer, blk |-> p.blk]}
             \/ UNCHANGED << vheight, votes >>
      BY <1>2 DEF ReceiveProposal
    <2>3. Ready(r, p.blk)
      <3>1. QcRef(p.blk) \in Block /\ p.blk \in delivered[r]
        BY <1>2, <2>1, QcRefBlock DEF ReceiveProposal
      <3> QED BY <3>1 DEF Inv, DeliveredClosed, Ready, OwnCert
    <2> QED BY <2>1, <2>2, <2>3, UpdateVotes
  <1>3. CASE UNCHANGED << votes, vheight, lock >>
    BY <1>3 DEF VP!vars, Voted
  <1> QED BY <1>1, <1>2, <1>3, ZenonT(60)
          DEF Next, vars, FaultyPropose, Deliver, ReceiveCorrectVote, ReceiveFaultyVote,
              ReceiveVote, replicaVars

(* HotStuffCore implements Voting: its votes, vote heights and locks are   *)
(* those of the voting rule.                                               *)
THEOREM ImplementsVoting == Spec => VotingSpec
  <1>1. Init => V!Init
    <2> SUFFICES ASSUME Init PROVE V!Init
      OBVIOUS
    <2>1. Voted = [r \in Correct |-> {}]  BY DEF Init, Voted
    <2>2. VP!Init  BY <2>1, SameWalks DEF Init, VP!Init
    <2> QED BY <2>2, SameVoting
  <1>2. Inv /\ [Next]_vars => [UNCHANGED V!vars \/ V!Next]_(V!vars)
    BY VotingStep, SameVoting
  <1> QED BY <1>1, <1>2, InvHolds, PTL DEF Spec, VotingSpec
==============================================================================
