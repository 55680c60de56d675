---------------------------- MODULE Voting_proofs ----------------------------
(***************************************************************************)
(* The safety of the voting rule for every configuration, block set and    *)
(* number of steps: certified blocks are unique per height, and in a       *)
(* SafeBuild they extend every committed block, so commits agree.          *)
(***************************************************************************)
EXTENDS Voting, FiniteSetTheorems, TLAPS

(* Anc cuts a chain at a height, and cutting twice is cutting lower. *)
LEMMA AncProps ==
  ASSUME NEW b \in Block, NEW h \in 0 .. Len(b)
  PROVE  /\ Len(b) \in Nat
         /\ Anc(b, h) \in Block
         /\ Len(Anc(b, h)) = h
         /\ \A k \in 0 .. h : Anc(Anc(b, h), k) = Anc(b, k)
         /\ Anc(b, Len(b)) = b
  <1>1. b \in Seq(Entry) BY BlockAssumption
  <1>2. Len(b) \in Nat /\ Anc(b, h) \in Block BY <1>1, BlockAssumption
  <1>3. Len(Anc(b, h)) = h BY <1>1 DEF Anc
  <1>4. \A k \in 0 .. h : Anc(Anc(b, h), k) = Anc(b, k)
    <2> SUFFICES ASSUME NEW k \in 0 .. h
                 PROVE  Anc(Anc(b, h), k) = Anc(b, k)
      OBVIOUS
    <2> QED BY <1>1 DEF Anc
  <1>5. Anc(b, Len(b)) = b BY <1>1 DEF Anc
  <1> QED BY <1>2, <1>3, <1>4, <1>5

(* Extends is reflexive and transitive on blocks. *)
LEMMA ExtendsTrans ==
  ASSUME NEW a \in Block, NEW b \in Block, NEW c \in Block,
         Extends(c, b), Extends(b, a)
  PROVE  Extends(c, a)
  <1>1. /\ Len(a) \in Nat /\ Len(b) \in Nat /\ Len(c) \in Nat
        /\ Len(a) <= Len(b) /\ Len(b) <= Len(c)
        /\ b = Anc(c, Len(b)) /\ a = Anc(b, Len(a))
    BY AncProps, BlockAssumption DEF Extends
  <1>2. Anc(Anc(c, Len(b)), Len(a)) = Anc(c, Len(a)) BY <1>1, AncProps
  <1>3. Anc(b, Len(a)) = Anc(c, Len(a)) BY <1>1, <1>2
  <1>4. Len(a) <= Len(c) /\ Anc(c, Len(a)) = a BY <1>1, <1>3
  <1> QED BY <1>4 DEF Extends

(* Two blocks on one chain: the higher extends the lower. *)
LEMMA ExtendsOfChain ==
  ASSUME NEW a \in Block, NEW b \in Block, NEW c \in Block,
         Extends(c, a), Extends(c, b), Len(a) <= Len(b)
  PROVE  Extends(b, a)
  <1>1. /\ Len(a) \in Nat /\ Len(b) \in Nat /\ Len(c) \in Nat
        /\ Len(b) <= Len(c)
        /\ b = Anc(c, Len(b)) /\ a = Anc(c, Len(a))
    BY AncProps, BlockAssumption DEF Extends
  <1>2. Anc(Anc(c, Len(b)), Len(a)) = Anc(c, Len(a)) BY <1>1, AncProps
  <1> QED BY <1>1, <1>2 DEF Extends

(* Every block extends itself. *)
LEMMA ExtendsSelf == ASSUME NEW b \in Block PROVE Extends(b, b)
  BY AncProps, BlockAssumption DEF Extends

(* The block a certificate is for is a block, on whatever branch. *)
LEMMA QcRefProps ==
  ASSUME NEW b \in Block
  PROVE  QcRef(b) \in Block /\ (b # genesis <=> Len(b) > 0)
  <1>1. b \in Seq(Entry) /\ genesis \in Block  BY BlockAssumption
  <1>2. b # genesis <=> Len(b) > 0  BY <1>1 DEF genesis
  <1>3. ASSUME b # genesis PROVE b[Len(b)].qc \in Block
    <2>1. Len(b) \in 1 .. Len(b)  BY <1>1, <1>2, <1>3
    <2>2. b[Len(b)] \in Entry  BY <1>1, <2>1
    <2> QED BY <2>2 DEF Entry
  <1> QED BY <1>1, <1>2, <1>3 DEF QcRef

(* The parent of a block above genesis. *)
LEMMA ParentProps ==
  ASSUME NEW b \in Block, b # genesis
  PROVE  /\ Parent(b) \in Block
         /\ Extends(b, Parent(b))
         /\ Len(b) \in Nat
         /\ Len(Parent(b)) = Len(b) - 1
  <1>1. b \in Seq(Entry) BY BlockAssumption
  <1>2. Len(b) - 1 \in 0 .. Len(b) BY <1>1, QcRefProps
  <1> QED BY <1>1, <1>2, AncProps DEF Parent, Extends

(* The block committed by p is the one p makes its voters lock. *)
LEMMA CommitChainProps ==
  ASSUME NEW p \in Block, NEW b \in Block, CommitChain(p, b)
  PROVE  /\ LockedBy(QcRef(p)) = b /\ OnChain(p)
         /\ p # genesis
         /\ Extends(p, b)
         /\ TwoStep => Len(p) = Len(b) + 1 /\ QcRef(p) = b
         /\ ~TwoStep => /\ Len(p) = Len(b) + 2
                        /\ QcRef(p) # genesis
                        /\ QcRef(QcRef(p)) = b
                        /\ Len(QcRef(p)) = Len(b) + 1
                        /\ Extends(QcRef(p), b)
  <1>1. CASE TwoStep
    <2>1. p # genesis /\ b = Parent(p) /\ b = QcRef(p) BY <1>1 DEF CommitChain
    <2>2. Extends(p, b) /\ Len(p) \in Nat /\ Len(b) = Len(p) - 1
      BY <2>1, ParentProps
    <2> QED BY <1>1, <2>1, <2>2 DEF LockedBy, OnChain, OwnCert
  <1>2. CASE ~TwoStep
    <2>1. /\ p # genesis /\ Parent(p) = QcRef(p) /\ QcRef(p) # genesis
          /\ b = Parent(QcRef(p)) /\ b = QcRef(QcRef(p))
      BY <1>2 DEF CommitChain
    <2>2. /\ QcRef(p) \in Block /\ Extends(p, QcRef(p))
          /\ Len(QcRef(p)) = Len(p) - 1
      BY <2>1, QcRefProps, ParentProps
    <2>3. Extends(QcRef(p), b) /\ Len(b) = Len(QcRef(p)) - 1
      BY <2>1, <2>2, ParentProps
    <2>4. Len(p) \in Nat /\ Len(b) \in Nat BY <2>1, ParentProps, AncProps, BlockAssumption
    <2>5. OnChain(p)  BY <2>1, <2>2, <2>3 DEF OnChain, OwnCert
    <2> QED BY <1>2, <2>1, <2>2, <2>3, <2>4, <2>5, ExtendsTrans DEF LockedBy
  <1> QED BY <1>1, <1>2
------------------------------------------------------------------------------
(* Two certificates have a correct voter in common, and every certificate  *)
(* has a correct voter.                                                    *)
LEMMA QuorumIntersection ==
  ASSUME NEW S, NEW T, IsQuorum(S), IsQuorum(T)
  PROVE  \E r \in Correct : r \in S /\ r \in T
  <1>1. /\ IsFiniteSet(S) /\ IsFiniteSet(T) /\ IsFiniteSet(S \cup T)
        /\ IsFiniteSet(S \cap T) /\ IsFiniteSet(Faulty)
        /\ Cardinality(S \cup T) <= nreplicas
    BY ReplicaAssumption, FS_Subset DEF IsQuorum, nreplicas
  <1>2. /\ nreplicas \in Nat /\ Cardinality(S) \in Nat /\ Cardinality(T) \in Nat
        /\ Cardinality(S \cap T) \in Nat /\ Cardinality(Faulty) \in Nat
    BY <1>1, ReplicaAssumption, FS_CardinalityType DEF nreplicas
  <1>3. nreplicas # 0
    BY ReplicaAssumption, FS_EmptySet DEF nreplicas
  <1>4. nfaulty \in Nat /\ 3 * nfaulty <= nreplicas - 1
    BY <1>2, <1>3 DEF nfaulty
  <1>5. Cardinality(S \cup T) = Cardinality(S) + Cardinality(T) - Cardinality(S \cap T)
    BY <1>1, FS_Union
  <1>6. Cardinality(S) >= nreplicas - nfaulty /\ Cardinality(T) >= nreplicas - nfaulty
    BY DEF IsQuorum, nmajority
  <1>7. Cardinality(S \cap T) > Cardinality(Faulty)
    <2>1. Cardinality(S \cup T) \in Nat BY <1>1, FS_CardinalityType
    <2>2. Cardinality(Faulty) <= nfaulty BY ReplicaAssumption
    <2> QED BY <1>1, <1>2, <1>4, <1>5, <1>6, <2>1, <2>2
  <1>8. ~(S \cap T \subseteq Faulty)
    BY <1>1, <1>2, <1>7, FS_Subset
  <1> QED BY <1>8 DEF IsQuorum, Correct
------------------------------------------------------------------------------
(***************************************************************************)
(* The inductive invariant.  A correct replica votes at growing heights,   *)
(* for blocks whose certificates it verified, holding a certified lock at  *)
(* least as high as its votes require (VotesOk); whenever it voted for a   *)
(* block above an earlier vote, it did so by the rule SafeNode with a lock *)
(* that the earlier vote had raised (VoteSafe).  The heart is CommitLocked:*)
(* once a block p that would commit b can still become certified, nothing  *)
(* higher than p and off b's chain is certified.  It speaks of p that MAY  *)
(* become certified, not of certified p, because a slow voter can complete *)
(* p's certificate after higher blocks have theirs.  It alone needs that   *)
(* the build is safe.                                                      *)
(***************************************************************************)
VotesOk ==
  \A r \in Correct :
    /\ Certified(lock[r])
    /\ \A b \in voted[r] :
         /\ Len(b) <= vheight[r]
         /\ Certified(QcRef(b))
         /\ OnChain(b) => Len(LockedBy(QcRef(b))) <= Len(lock[r])

OneVotePerHeight ==
  \A r \in Correct : \A b, c \in voted[r] : Len(b) = Len(c) => b = c

VoteSafe ==
  \A r \in Correct : \A b, c \in voted[r] :
    Len(b) < Len(c) =>
      \E l \in Block : /\ Certified(l)
                       /\ OnChain(b) => Len(LockedBy(QcRef(b))) <= Len(l)
                       /\ SafeNode(c, l)

MayBeCertified(p) ==
  \E Q \in SUBSET Replica :
    /\ IsQuorum(Q)
    /\ \A q \in Q \cap Correct : p \in voted[q] \/ vheight[q] < Len(p)

CommitLocked ==
  \A p, b, c \in Block :
    CommitChain(p, b) /\ MayBeCertified(p) /\ Certified(c) /\ Len(p) < Len(c)
      => Extends(c, b)

Inv == TypeOK /\ VotesOk /\ OneVotePerHeight /\ VoteSafe /\ (SafeBuild => CommitLocked)
------------------------------------------------------------------------------
(* A certified block above genesis has a correct voter. *)
LEMMA CertifiedHasVoter ==
  ASSUME TypeOK, NEW b \in Block, Certified(b), b # genesis
  PROVE  \E r \in Correct : b \in voted[r]
  <1>1. IsQuorum(Voters(b)) BY DEF Certified
  <1>2. PICK r \in Correct : r \in Voters(b) BY <1>1, QuorumIntersection
  <1> QED BY <1>2 DEF Voters, Correct

(* The block a certified block's certificate is for is certified. *)
LEMMA CertifiedQcRef ==
  ASSUME TypeOK, VotesOk, NEW b \in Block, Certified(b)
  PROVE  Certified(QcRef(b))
  <1>1. CASE b = genesis BY <1>1 DEF QcRef, Certified
  <1>2. CASE b # genesis BY <1>2, CertifiedHasVoter DEF VotesOk
  <1> QED BY <1>1, <1>2

(* Certificates are unique per height. *)
LEMMA UniqueCert ==
  ASSUME TypeOK, OneVotePerHeight,
         NEW b \in Block, NEW c \in Block,
         Certified(b), Certified(c), Len(b) = Len(c)
  PROVE  b = c
  <1>1. CASE b = genesis \/ c = genesis
    BY <1>1, QcRefProps
  <1>2. CASE b # genesis /\ c # genesis
    <2>1. PICK r \in Correct : r \in Voters(b) /\ r \in Voters(c)
      BY <1>2, QuorumIntersection DEF Certified
    <2>2. b \in voted[r] /\ c \in voted[r] BY <2>1 DEF Voters, Correct
    <2> QED BY <2>2 DEF OneVotePerHeight
  <1> QED BY <1>1, <1>2

(* While p may be certified, every certified block at or above the block b *)
(* it commits extends b.                                                   *)
LEMMA CertifiedExtend ==
  ASSUME Inv, SafeBuild, NEW p \in Block, NEW b \in Block, NEW c \in Block,
         CommitChain(p, b), MayBeCertified(p),
         NEW q \in Correct, p \in voted[q],
         Certified(c), Len(b) <= Len(c)
  PROVE  Extends(c, b)
  <1> USE DEF Inv
  <1>1. Len(b) \in Nat /\ Len(c) \in Nat /\ Len(p) \in Nat
    BY BlockAssumption
  <1>2. Certified(QcRef(p)) BY DEF VotesOk
  <1>3. QcRef(p) \in Block BY QcRefProps
  <1>4. Certified(b)
    BY <1>2, <1>3, CommitChainProps, CertifiedQcRef
  <1>5. CASE Len(c) > Len(p)
    BY <1>1, <1>5 DEF CommitLocked
  <1>6. CASE Len(c) = Len(p)
    <2>1. c # genesis BY <1>6, <1>1, CommitChainProps, QcRefProps
    <2>2. PICK Q \in SUBSET Replica :
            /\ IsQuorum(Q)
            /\ \A x \in Q \cap Correct : p \in voted[x] \/ vheight[x] < Len(p)
      BY DEF MayBeCertified
    <2>3. PICK x \in Correct : x \in Q /\ x \in Voters(c)
      BY <2>1, <2>2, QuorumIntersection DEF Certified
    <2>4. c \in voted[x] BY <2>3 DEF Voters, Correct
    <2>5. Len(c) <= vheight[x] /\ vheight[x] \in Nat
      BY <2>3, <2>4 DEF VotesOk, TypeOK
    <2>6. p \in voted[x] BY <2>2, <2>3, <2>5, <1>6, <1>1
    <2>7. c = p BY <2>4, <2>6, <2>3, <1>6 DEF OneVotePerHeight
    <2> QED BY <2>7, CommitChainProps
  <1>7. CASE Len(c) = Len(b)
    BY <1>4, <1>7, UniqueCert, ExtendsSelf
  <1>8. CASE ~TwoStep /\ Len(c) = Len(b) + 1
    <2>1. c = QcRef(p) BY <1>2, <1>3, <1>8, CommitChainProps, UniqueCert
    <2> QED BY <2>1, <1>8, CommitChainProps
  <1>9. Len(p) <= Len(b) + 2 /\ (TwoStep => Len(p) <= Len(b) + 1)
    BY <1>1, CommitChainProps
  <1> QED BY <1>1, <1>5, <1>6, <1>7, <1>8, <1>9, CommitChainProps
------------------------------------------------------------------------------
(* Every block update() may lock is certified. *)
LEMMA HigherLocksProps ==
  ASSUME Inv, NEW r \in Correct, NEW l \in {lock[r]} \cup HigherLocks(r)
  PROVE  l \in Block /\ Certified(l) /\ Len(lock[r]) <= Len(l)
  <1>1. lock[r] \in Block /\ Certified(lock[r]) BY DEF Inv, TypeOK, VotesOk
  <1>2. Len(lock[r]) \in Nat BY <1>1, BlockAssumption
  <1>3. CASE l = lock[r] BY <1>1, <1>2, <1>3
  <1>4. CASE l \in HigherLocks(r)
    <2>1. PICK b \in Block : Certified(b) /\ l = LockedBy(b)
      BY <1>4 DEF HigherLocks, CertifiedBlocks
    <2>2. l \in Block /\ Certified(l)
      BY <2>1, QcRefProps, CertifiedQcRef DEF LockedBy, Inv
    <2>3. Len(l) \in Nat BY <2>2, BlockAssumption
    <2> QED BY <1>2, <1>4, <2>2, <2>3 DEF HigherLocks, Height
  <1> QED BY <1>3, <1>4

(* A vote completes no certificate but its own block's, and undoes none. *)
LEMMA CertifiedStep ==
  ASSUME TypeOK, NEW r \in Correct, NEW n \in Block,
         voted' = [voted EXCEPT ![r] = @ \cup {n}],
         NEW b \in Block
  PROVE  /\ Certified(b) => Certified(b)'
         /\ b # n => (Certified(b)' <=> Certified(b))
  <1>1. \A x \in Correct : voted'[x] = IF x = r THEN voted[x] \cup {n} ELSE voted[x]
    BY DEF TypeOK
  <1>2. Voters(b) \subseteq Voters(b)' BY <1>1 DEF Voters
  <1>3. b # n => Voters(b)' = Voters(b) BY <1>1 DEF Voters
  <1>4. IsQuorum(Voters(b)) => IsQuorum(Voters(b)')
    <2> HAVE IsQuorum(Voters(b))
    <2>1. Voters(b)' \subseteq Replica
      BY ReplicaAssumption DEF Voters, Correct
    <2>2. IsFiniteSet(Voters(b)') BY <2>1, ReplicaAssumption, FS_Subset
    <2>3. Cardinality(Voters(b)) <= Cardinality(Voters(b)')
      BY <1>2, <2>2, FS_Subset
    <2>4. /\ Cardinality(Voters(b)) \in Nat /\ Cardinality(Voters(b)') \in Nat
          /\ nmajority \in Int
      <3>1. IsFiniteSet(Voters(b)) BY <1>2, <2>2, FS_Subset
      <3>2. nreplicas \in Nat BY ReplicaAssumption, FS_CardinalityType DEF nreplicas
      <3> QED BY <2>2, <3>1, <3>2, FS_CardinalityType DEF nmajority, nfaulty
    <2> QED BY <2>1, <2>3, <2>4 DEF IsQuorum
  <1> QED BY <1>2, <1>3, <1>4 DEF Certified

(* Nothing is voted for at the start, so nothing but genesis is certified. *)
THEOREM InitInv == Init => Inv
  <1> SUFFICES ASSUME Init PROVE Inv OBVIOUS
  <1> USE BlockAssumption DEF Init
  <1>1. TypeOK BY DEF TypeOK
  <1>2. VotesOk BY DEF VotesOk, Certified
  <1>3. OneVotePerHeight /\ VoteSafe BY DEF OneVotePerHeight, VoteSafe
  <1>4. CommitLocked
    <2> SUFFICES ASSUME NEW p \in Block, NEW c \in Block,
                        Certified(c), Len(p) < Len(c)
                 PROVE  FALSE
      BY DEF CommitLocked
    <2>1. c # genesis
      <3>1. Len(p) \in Nat BY BlockAssumption
      <3> QED BY <3>1, QcRefProps
    <2>2. PICK r \in Correct : c \in voted[r] BY <1>1, <2>1, CertifiedHasVoter
    <2> QED BY <2>2
  <1> QED BY <1>1, <1>2, <1>3, <1>4 DEF Inv

(* update() without a vote keeps the invariant. *)
LEMMA RaiseLockInv ==
  ASSUME Inv, NEW r \in Correct, NEW l \in HigherLocks(r), RaiseLock(r, l)
  PROVE  Inv'
  <1>1. l \in Block /\ Certified(l) /\ Len(lock[r]) <= Len(l)
    BY HigherLocksProps
  <1>2. UNCHANGED << voted, vheight >> /\ lock' = [lock EXCEPT ![r] = l]
    BY DEF RaiseLock
  <1>3. \A b : Certified(b)' <=> Certified(b) BY <1>2 DEF Certified, Voters
  <1>4. TypeOK' BY <1>1, <1>2 DEF Inv, TypeOK
  <1>5. VotesOk'
    <2> SUFFICES ASSUME NEW x \in Correct
                 PROVE  /\ Certified(lock'[x])
                        /\ \A b \in voted[x] :
                             /\ Len(b) <= vheight[x]
                             /\ Certified(QcRef(b))
                             /\ OnChain(b) => Len(LockedBy(QcRef(b))) <= Len(lock'[x])
      BY <1>2, <1>3 DEF VotesOk
    <2>1. lock'[x] = IF x = r THEN l ELSE lock[x] BY <1>2 DEF Inv, TypeOK
    <2>2. CASE x # r BY <2>1, <2>2 DEF Inv, VotesOk
    <2>3. CASE x = r
      <3> SUFFICES ASSUME NEW b \in voted[r]
                   PROVE  OnChain(b) => Len(LockedBy(QcRef(b))) <= Len(l)
        BY <1>1, <2>1, <2>3 DEF Inv, VotesOk
      <3>1. b \in Block /\ lock[r] \in Block BY DEF Inv, TypeOK
      <3>2. LockedBy(QcRef(b)) \in Block BY <3>1, QcRefProps DEF LockedBy
      <3>3. OnChain(b) => Len(LockedBy(QcRef(b))) <= Len(lock[r]) BY DEF Inv, VotesOk
      <3> QED BY <1>1, <3>1, <3>2, <3>3, BlockAssumption
    <2> QED BY <2>2, <2>3
  <1>6. OneVotePerHeight' BY <1>2 DEF Inv, OneVotePerHeight
  <1>7. VoteSafe' BY <1>2, <1>3 DEF Inv, VoteSafe
  <1>8. SafeBuild => CommitLocked'
    BY <1>2, <1>3 DEF Inv, CommitLocked, MayBeCertified
  <1> QED BY <1>4, <1>5, <1>6, <1>7, <1>8 DEF Inv
(* Voting for n with lock l keeps the invariant. *)
LEMMA CastVoteInv ==
  ASSUME Inv, NEW r \in Correct, NEW n \in Block,
         NEW l \in {lock[r]} \cup HigherLocks(r), CastVote(r, n, l)
  PROVE  Inv'
  <1> USE DEF Height
  <1>1. l \in Block /\ Certified(l) /\ Len(lock[r]) <= Len(l)
    BY HigherLocksProps
  <1>2. /\ Len(n) > vheight[r] /\ SafeNode(n, l) /\ Certified(QcRef(n))
        /\ OnChain(n) => Len(LockedBy(QcRef(n))) <= Len(l)
        /\ voted' = [voted EXCEPT ![r] = @ \cup {n}]
        /\ vheight' = [vheight EXCEPT ![r] = Len(n)]
        /\ lock' = [lock EXCEPT ![r] = l]
    BY DEF CastVote, NotYetVoted
  <1>3. TypeOK BY DEF Inv
  <1>4. /\ Len(n) \in Nat /\ vheight[r] \in Nat /\ n # genesis
        /\ QcRef(n) \in Block /\ LockedBy(QcRef(n)) \in Block
    BY <1>2, <1>3, QcRefProps, BlockAssumption DEF TypeOK, LockedBy
  <1>5. \A b \in Block : Len(b) \in Nat BY BlockAssumption
  <1>6. \A x \in Correct :
         /\ voted'[x] = IF x = r THEN voted[x] \cup {n} ELSE voted[x]
         /\ vheight'[x] = IF x = r THEN Len(n) ELSE vheight[x]
         /\ lock'[x] = IF x = r THEN l ELSE lock[x]
         /\ voted[x] \subseteq Block
    BY <1>2, <1>3 DEF TypeOK
  <1>7. \A b \in Block : /\ Certified(b) => Certified(b)'
                         /\ b # n => (Certified(b)' <=> Certified(b))
    BY <1>2, <1>3, CertifiedStep
  <1>8. \A b \in voted[r] : Len(b) <= vheight[r] /\ Len(b) < Len(n)
    BY <1>2, <1>4, <1>5, <1>6 DEF Inv, VotesOk
  <1>9. TypeOK' BY <1>1, <1>2, <1>3, <1>4 DEF TypeOK
  <1>10. VotesOk'
    <2>1. ASSUME NEW x \in Correct
          PROVE  Certified(lock[x])'
      <3>1. lock[x] \in Block /\ Certified(lock[x])
        BY <1>3 DEF Inv, VotesOk, TypeOK
      <3> QED BY <1>1, <1>6, <1>7, <3>1
    <2>2. ASSUME NEW x \in Correct, NEW b \in voted'[x]
          PROVE  /\ Len(b) <= vheight'[x]
                 /\ Certified(QcRef(b))'
                 /\ OnChain(b) => Len(LockedBy(QcRef(b))) <= Len(lock'[x])
      <3>1. CASE b = n /\ x = r
        <4>1. vheight'[x] = Len(n) /\ lock'[x] = l BY <1>6, <3>1
        <4>2. Certified(QcRef(n))' BY <1>2, <1>4, <1>7
        <4>3. Len(n) <= vheight'[x] BY <1>4, <4>1
        <4>4. OnChain(n) => Len(LockedBy(QcRef(n))) <= Len(lock'[x]) BY <1>2, <4>1
        <4> QED BY <3>1, <4>2, <4>3, <4>4
      <3>2. CASE b \in voted[x]
        <4>1. /\ b \in Block /\ QcRef(b) \in Block
              /\ LockedBy(QcRef(b)) \in Block /\ lock[x] \in Block
              /\ vheight[x] \in Nat
          BY <1>3, <1>6, <3>2, QcRefProps DEF TypeOK, LockedBy
        <4>2. /\ Len(b) <= vheight[x] /\ Certified(QcRef(b))
              /\ OnChain(b) => Len(LockedBy(QcRef(b))) <= Len(lock[x])
          BY <3>2 DEF Inv, VotesOk
        <4>3. Certified(QcRef(b))' BY <1>7, <4>1, <4>2
        <4>4. Len(b) <= vheight'[x]
          BY <1>2, <1>4, <1>5, <1>6, <4>1, <4>2
        <4>5. OnChain(b) => Len(LockedBy(QcRef(b))) <= Len(lock'[x])
          <5>1. CASE x # r BY <1>6, <4>2, <5>1
          <5>2. CASE x = r
            <6>1. lock'[x] = l BY <1>6, <5>2
            <6>2. OnChain(b) => Len(LockedBy(QcRef(b))) <= Len(lock[r]) BY <4>2, <5>2
            <6>3. OnChain(b) => Len(LockedBy(QcRef(b))) <= Len(l)
              BY <1>1, <1>5, <4>1, <5>2, <6>2
            <6> QED BY <6>1, <6>3
          <5> QED BY <5>1, <5>2
        <4> QED BY <4>3, <4>4, <4>5
      <3> QED BY <1>6, <3>1, <3>2
    <2> QED BY <2>1, <2>2 DEF VotesOk
  <1>11. OneVotePerHeight'
    <2> SUFFICES ASSUME NEW x \in Correct, NEW b \in voted'[x], NEW c \in voted'[x],
                        Len(b) = Len(c)
                 PROVE  b = c
      BY DEF OneVotePerHeight
    <2>1. CASE b \in voted[x] /\ c \in voted[x]
      BY <2>1 DEF Inv, OneVotePerHeight
    <2>2. CASE x = r /\ ~(b \in voted[r] /\ c \in voted[r])
      <3>1. (b = n \/ b \in voted[r]) /\ (c = n \/ c \in voted[r])
        BY <1>6, <2>2
      <3> QED BY <1>4, <1>8, <2>2, <3>1
    <2> QED BY <1>6, <2>1, <2>2
  <1>12. VoteSafe'
    <2> SUFFICES ASSUME NEW x \in Correct, NEW b \in voted'[x], NEW c \in voted'[x],
                        Len(b) < Len(c)
                 PROVE  \E m \in Block : /\ Certified(m)'
                                         /\ OnChain(b) => Len(LockedBy(QcRef(b))) <= Len(m)
                                         /\ SafeNode(c, m)
      BY DEF VoteSafe
    <2>1. CASE b \in voted[x] /\ c \in voted[x]
      BY <1>7, <2>1 DEF Inv, VoteSafe
    <2>2. CASE x = r /\ c = n /\ b \in voted[r]
      <3>1. OnChain(b) => Len(LockedBy(QcRef(b))) <= Len(lock[r])
        BY <2>2 DEF Inv, VotesOk
      <3>2. b \in Block /\ lock[r] \in Block /\ LockedBy(QcRef(b)) \in Block
        BY <1>3, <1>6, <2>2, QcRefProps DEF TypeOK, LockedBy
      <3>3. OnChain(b) => Len(LockedBy(QcRef(b))) <= Len(l) BY <1>1, <1>5, <3>1, <3>2
      <3> QED BY <1>1, <1>2, <1>7, <2>2, <3>3
    <2>3. ASSUME x = r, b = n
          PROVE  FALSE
      <3>1. c = n \/ c \in voted[r] BY <1>6, <2>3
      <3>2. c \in Block BY <1>6, <3>1
      <3> QED BY <1>4, <1>5, <1>8, <2>3, <3>1, <3>2
    <2> QED BY <1>6, <2>1, <2>2, <2>3
  <1>13. SafeBuild => CommitLocked'
    <2> SUFFICES ASSUME SafeBuild, NEW p \in Block, NEW b \in Block, NEW c \in Block,
                        CommitChain(p, b), MayBeCertified(p)', Certified(c)',
                        Len(p) < Len(c)
                 PROVE  Extends(c, b)
      BY DEF CommitLocked
    <2>1. PICK Q \in SUBSET Replica :
            /\ IsQuorum(Q)
            /\ \A q \in Q \cap Correct : p \in voted'[q] \/ vheight'[q] < Len(p)
      BY DEF MayBeCertified
    (* Who may still vote for p now could before this vote. *)
    <2>2. ASSUME p # n
          PROVE  \A q \in Q \cap Correct : p \in voted[q] \/ vheight[q] < Len(p)
      <3> SUFFICES ASSUME NEW q \in Q \cap Correct
                   PROVE  p \in voted[q] \/ vheight[q] < Len(p)
        OBVIOUS
      <3>1. p \in voted'[q] \/ vheight'[q] < Len(p) BY <2>1
      <3>2. vheight[q] \in Nat BY <1>3 DEF TypeOK
      <3> QED BY <1>2, <1>4, <1>5, <1>6, <2>2, <3>1, <3>2
    <2>3. CASE p = n
      (* c is above n and was certified before: a voter that has yet to     *)
      (* vote for n, or r itself, has voted for c.                          *)
      <3>1. c # genesis /\ c # n /\ Certified(c)
        <4>1. Len(p) \in Nat /\ Len(c) \in Nat BY <1>5
        <4>2. c # n BY <2>3, <4>1
        <4>3. Len(c) > 0 BY <4>1
        <4> QED BY <1>7, <4>2, <4>3, QcRefProps
      <3>2. MayBeCertified(n)
        <4> SUFFICES ASSUME NEW q \in Q \cap Correct
                     PROVE  n \in voted[q] \/ vheight[q] < Len(n)
          BY <2>1 DEF MayBeCertified
        <4>1. n \in voted'[q] \/ vheight'[q] < Len(n) BY <2>1, <2>3
        <4> QED BY <1>2, <1>6, <4>1
      <3> QED BY <2>3, <3>1, <3>2 DEF Inv, CommitLocked
    <2>4. CASE p # n /\ Certified(c)
      BY <2>1, <2>2, <2>4 DEF Inv, CommitLocked, MayBeCertified
    <2>5. CASE p # n /\ ~Certified(c)
      <3>1. c = n BY <1>7, <2>5
      <3>2. MayBeCertified(p) BY <2>1, <2>2, <2>5 DEF MayBeCertified
      <3>3. PICK q \in Correct : q \in Q /\ q \in Voters(c)'
        BY <1>4, <2>1, <3>1, QuorumIntersection DEF Certified
      <3>4. c \in voted'[q] BY <3>3 DEF Voters, Correct
      <3>5. Len(c) <= vheight'[q] /\ vheight'[q] \in Nat
        BY <1>9, <1>10, <3>4 DEF VotesOk, TypeOK
      <3>6. p \in voted'[q] BY <1>5, <2>1, <3>3, <3>5
      <3>7. p \in voted[q] BY <1>6, <2>5, <3>6
      (* q voted for p and then for c with a certified lock m, p's effect. *)
      <3>8. PICK m \in Block : /\ Certified(m)
                              /\ Len(LockedBy(QcRef(p))) <= Len(m)
                              /\ SafeNode(c, m)
        <4> USE CommitChainProps
        <4>1. CASE c \in voted[q] BY <3>7, <4>1 DEF Inv, VoteSafe
        <4>2. CASE q = r /\ c = n
          <5>1. Len(LockedBy(QcRef(p))) <= Len(lock[r])
            BY <3>7, <4>2 DEF Inv, VotesOk
          <5>2. lock[r] \in Block /\ LockedBy(QcRef(p)) \in Block
            BY <1>3, QcRefProps DEF TypeOK, LockedBy
          <5>3. Len(LockedBy(QcRef(p))) <= Len(l) BY <1>1, <1>5, <5>1, <5>2
          <5> QED BY <1>1, <1>2, <4>2, <5>3
        <4> QED BY <1>6, <3>1, <3>4, <4>1, <4>2
      <3>9. Len(b) <= Len(m) BY <3>8, CommitChainProps
      <3>10. Extends(m, b) BY <3>2, <3>7, <3>8, <3>9, CertifiedExtend
      <3>11. CASE Extends(c, m) BY <3>10, <3>11, ExtendsTrans
      <3>12. CASE ~TwoStep /\ Len(QcRef(c)) > Len(m)
        <4>1. QcRef(c) \in Block /\ Certified(QcRef(c)) BY <1>2, <1>4, <3>1
        <4>2. Len(b) <= Len(QcRef(c)) BY <1>5, <3>9, <3>12, <4>1
        <4>3. Extends(QcRef(c), b) BY <3>2, <3>7, <4>1, <4>2, CertifiedExtend
        <4>4. Extends(c, QcRef(c)) BY <3>12 DEF SafeBuild, OwnCerts, OwnCert
        <4> QED BY <4>1, <4>3, <4>4, ExtendsTrans
      <3> QED BY <3>8, <3>11, <3>12 DEF SafeNode
    <2> QED BY <2>3, <2>4, <2>5
  <1> QED BY <1>9, <1>10, <1>11, <1>12, <1>13 DEF Inv

(* Every step of a replica, with or without a vote, keeps the invariant. *)
THEOREM NextInv == Inv /\ [Next]_vars => Inv'
  <1> SUFFICES ASSUME Inv, [Next]_vars PROVE Inv' OBVIOUS
  <1>1. ASSUME NEW r \in Correct, NEW l \in HigherLocks(r), RaiseLock(r, l)
        PROVE  Inv'
    BY <1>1, RaiseLockInv
  <1>2. ASSUME NEW r \in Correct, NEW l \in {lock[r]} \cup HigherLocks(r),
               NEW n \in Block, CastVote(r, n, l)
        PROVE  Inv'
    BY <1>2, CastVoteInv
  <1>3. CASE UNCHANGED vars
    <2>1. UNCHANGED << voted, vheight, lock >> BY <1>3 DEF vars
    <2>2. \A b : Certified(b)' <=> Certified(b) BY <2>1 DEF Certified, Voters
    <2>3. TypeOK' BY <2>1 DEF Inv, TypeOK
    <2>4. VotesOk' BY <2>1, <2>2 DEF Inv, VotesOk
    <2>5. OneVotePerHeight' BY <2>1 DEF Inv, OneVotePerHeight
    <2>6. VoteSafe' BY <2>1, <2>2 DEF Inv, VoteSafe
    <2>7. SafeBuild => CommitLocked' BY <2>1, <2>2 DEF Inv, CommitLocked, MayBeCertified
    <2> QED BY <2>3, <2>4, <2>5, <2>6, <2>7 DEF Inv
  <1> QED BY <1>1, <1>2, <1>3 DEF Next

(* The invariant holds in every reachable state. *)
THEOREM InvHolds == Spec => []Inv
  BY InitInv, NextInv, PTL DEF Spec
------------------------------------------------------------------------------
(* The quorum of a certified block is one that may certify it. *)
LEMMA CertifiedMayBe ==
  ASSUME TypeOK, NEW p \in Block, p # genesis, Certified(p)
  PROVE  MayBeCertified(p)
  <1>1. IsQuorum(Voters(p)) BY DEF Certified
  <1>2. \A q \in Voters(p) \cap Correct : p \in voted[q] BY DEF Voters, Correct
  <1> QED BY <1>1, <1>2 DEF MayBeCertified, IsQuorum

(* Under the invariant a certified block extends every committed block     *)
(* below it.                                                               *)
LEMMA InvCertifiedExtend ==
  ASSUME Inv, SafeBuild,
         NEW b \in CommittedBlocks, NEW c \in CertifiedBlocks, Len(b) <= Len(c)
  PROVE  Extends(c, b)
  <1>1. PICK p \in Block : Certified(p) /\ CommitChain(p, b)
    BY DEF CommittedBlocks, CertifiedBlocks
  <1>2. b \in Block /\ c \in Block /\ Certified(c)
    BY DEF CommittedBlocks, CertifiedBlocks
  <1>3. p # genesis BY <1>1, <1>2, CommitChainProps
  <1>4. PICK q \in Correct : p \in voted[q] BY <1>1, <1>3, CertifiedHasVoter DEF Inv
  <1> QED BY <1>1, <1>2, <1>3, <1>4, CertifiedMayBe, CertifiedExtend DEF Inv

(* A committed block is certified. *)
LEMMA CommittedCertified ==
  ASSUME Inv, NEW b \in CommittedBlocks
  PROVE  b \in CertifiedBlocks
  <1>1. PICK p \in Block : Certified(p) /\ CommitChain(p, b)
    BY DEF CommittedBlocks, CertifiedBlocks
  <1>2. b \in Block BY DEF CommittedBlocks
  <1>3. QcRef(p) \in Block /\ Certified(QcRef(p))
    BY <1>1, QcRefProps, CertifiedQcRef DEF Inv
  <1> QED BY <1>1, <1>2, <1>3, CommitChainProps, CertifiedQcRef
       DEF CertifiedBlocks, Inv

(* The build and the blocks do not change. *)
LEMMA SafeBuildStays == SafeBuild => []SafeBuild
  <1>1. SafeBuild => SafeBuild'  OBVIOUS
  <1> QED BY <1>1, PTL

(* Types hold in every reachable state of the voting protocol. *)
THEOREM TypeCorrect == Spec => []TypeOK
  BY InvHolds, PTL DEF Inv

(* Certificates are unique per height (vheight in on_receive_proposal and  *)
(* the quorum size of on_init).                                            *)
THEOREM UniqueCertificates == Spec => []OneCertPerHeight
  <1>1. Inv => OneCertPerHeight
    BY UniqueCert DEF Inv, OneCertPerHeight, CertifiedBlocks
  <1> QED BY <1>1, InvHolds, PTL

(* In a SafeBuild, certified blocks extend committed ones, so the walk of  *)
(* update() from a newly committed block always ends at b_exec.            *)
THEOREM CommitsStay == SafeBuild /\ Spec => []CertifiedExtendCommitted
  <1>1. SafeBuild /\ Inv => CertifiedExtendCommitted
    BY InvCertifiedExtend DEF CertifiedExtendCommitted
  <1> QED BY <1>1, InvHolds, SafeBuildStays, PTL

(* In a SafeBuild, two committed blocks lie on one chain. *)
THEOREM CommitsAgree == SafeBuild /\ Spec => []Agreement
  <1>1. SafeBuild /\ Inv => Agreement
    <2> SUFFICES ASSUME SafeBuild, Inv,
                        NEW b \in CommittedBlocks, NEW c \in CommittedBlocks
                 PROVE  Extends(b, c) \/ Extends(c, b)
      BY DEF Agreement
    <2>1. b \in Block /\ c \in Block BY DEF CommittedBlocks
    <2>2. Len(b) <= Len(c) \/ Len(c) <= Len(b)
      BY <2>1, BlockAssumption
    <2> QED BY <2>2, InvCertifiedExtend, CommittedCertified
  <1> QED BY <1>1, InvHolds, SafeBuildStays, PTL

(* In a SafeBuild, the lock of a correct replica stays on the chain of the *)
(* committed blocks.                                                       *)
THEOREM LocksStay == SafeBuild /\ Spec => []LocksExtendCommitted
  <1>1. SafeBuild /\ Inv => LocksExtendCommitted
    BY InvCertifiedExtend
       DEF LocksExtendCommitted, Inv, VotesOk, TypeOK, CertifiedBlocks
  <1> QED BY <1>1, InvHolds, SafeBuildStays, PTL
==============================================================================
