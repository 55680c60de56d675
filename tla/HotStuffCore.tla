---------------------------- MODULE HotStuffCore -----------------------------
(***************************************************************************)
(* HotStuffCore (consensus.cpp) in every correct replica, the parent       *)
(* choice of PMHighTail (liveness.h) and the messages between replicas.    *)
(*                                                                         *)
(* One action is one handler run to its end: the code runs on one event    *)
(* loop per replica.  Messages are never removed from props and votes: a   *)
(* message may arrive late, out of order, again, or never.  An exception   *)
(* thrown by a handler leaves the event loop, so the replica stops.        *)
(***************************************************************************)
EXTENDS BlockTree, ReplicaConfig

CONSTANTS TwoStep,      \* HOTSTUFF_TWO_STEP is defined
          Proposers,    \* the correct replicas whose pacemaker lets them propose
          FaultyProposers, \* bound: the faulty replicas that propose
          FaultyVoters,    \* bound: the faulty replicas that send votes
          MaxBlocks     \* bound: number of blocks proposed

VARIABLES props,        \* proposals that were broadcast
          votes,        \* votes that correct replicas have signed and sent
          delivered,    \* delivered[r]: the blocks with Block::delivered set
          vheight,      \* vheight[r]
          lock,         \* lock[r]: b_lock
          exec,         \* exec[r]: b_exec
          hqc,          \* hqc[r]: the block of the highest certificate
          tail,         \* tail[r]: PMHighTail::hqc_tail
          counted,      \* counted[r]: the votes in Block::voted of r's blocks
          failed        \* failed[r]: the exception that stopped r, if any

replicaVars == << delivered, vheight, lock, exec, hqc, tail, counted, failed >>
vars == << props, votes, delivered, vheight, lock, exec, hqc, tail, counted, failed >>

ASSUME CoreAssumption ==
  /\ TwoStep \in BOOLEAN
  /\ Proposers \subseteq Correct
  /\ FaultyProposers \subseteq Faulty /\ FaultyVoters \subseteq Faulty
  /\ MaxBlocks \in Nat
  /\ nmajority > 1    \* a replica's own vote is no certificate

Proposal == [proposer : Replica, blk : Block]
Vote     == [voter : Correct, to : Replica, blk : Block]

Exceptions == {"safety breached", "new block should be higher than vheight"}
None == "none"

Proposed == {p.blk : p \in props}

Running(r) == failed[r] = None

(* Who may have signed a vote for b, and whether a certificate for b can   *)
(* be put together: correct replicas sign the votes they send, a faulty    *)
(* one signs whatever it likes.                                            *)
Signers(b) == {v.voter : v \in {w \in votes : w.blk = b}} \cup Faulty
Certified(b) == b = genesis \/ IsQuorum(Signers(b))

(* Wrong on purpose: the certificate is not verified. *)
VerifyNothing(b) == TRUE

(* Block::verify: the certificate in b names enough voters, whose          *)
(* signatures check.                                                       *)
Verify(b) == Certified(QcRef(b))

(* Block::decision is set on the blocks from genesis to b_exec. *)
Decided(r, b) == Extends(exec[r], b)

(* Where update() goes on past a block that a certificate is for.  Of one  *)
(* that is fetched but not delivered, the height is still 0 and qc_ref     *)
(* null: it raises nothing and update() returns.                           *)
Live(r, b) == b \in delivered[r] /\ ~Decided(r, b)
------------------------------------------------------------------------------
(* update(n): QcRef(n) is blk2 of the three-step and blk1 of the two-step  *)
(* variant, Lockee the block that b_lock may move to and ToCommit the one   *)
(* to commit.                                                              *)
Lockee(n) == IF TwoStep THEN QcRef(n) ELSE QcRef(QcRef(n))
ToCommit(n) == QcRef(Lockee(n))

(* Wrong on purpose: update() does not call update_hqc. *)
HqcAfterNoUpdate(r, n) == hqc[r]

HqcAfter(r, n) ==
  IF Live(r, QcRef(n)) /\ Height(QcRef(n)) > Height(hqc[r])
  THEN QcRef(n) ELSE hqc[r]

(* update(n) gets to the lock. *)
Reaches(r, n) == Live(r, QcRef(n)) /\ Live(r, Lockee(n))

(* Wrong on purpose: with the height of a block that is only fetched. *)
LockAfterFetched(r, n) ==
  IF ~Decided(r, Lockee(n)) /\ Height(Lockee(n)) > Height(lock[r])
  THEN Lockee(n) ELSE lock[r]

LockAfter(r, n) ==
  IF Reaches(r, n) /\ Height(Lockee(n)) > Height(lock[r])
  THEN Lockee(n) ELSE lock[r]

(* Wrong on purpose: without the check of direct parents. *)
CommitsAnyAncestor(r, n) == Reaches(r, n) /\ ~Decided(r, ToCommit(n))

(* Commit requires direct parents. *)
Commits(r, n) ==
  /\ Reaches(r, n)
  /\ ~Decided(r, ToCommit(n))
  /\ ToCommit(n) = Parent(Lockee(n))
  /\ TwoStep \/ Lockee(n) = Parent(QcRef(n))

(* Walking down from the block to commit misses b_exec. *)
Breach(r, n) == Commits(r, n) /\ ~Extends(ToCommit(n), exec[r])

ExecAfter(r, n) == IF Commits(r, n) /\ ~Breach(r, n) THEN ToCommit(n) ELSE exec[r]

(* Wrong on purpose: the lock is not looked at, or never extended. *)
SafeNodeAlways(r, n, l) == TRUE
SafeNodeNoExtends(r, n, l) == QcRef(n) \in delivered[r] /\ Height(QcRef(n)) > Height(l)

(* The vote rule of on_receive_proposal, evaluated after update(n); again,  *)
(* the height of a block that is not delivered reads 0.                    *)
SafeNode(r, n, l) ==
  \/ QcRef(n) \in delivered[r] /\ Height(QcRef(n)) > Height(l)
  \/ Extends(n, l)

(* Wrong on purpose: a second vote at the same height. *)
OpinionSameHeight(r, n) == Height(n) >= vheight[r] /\ SafeNode(r, n, LockAfter(r, n))

Opinion(r, n) == Height(n) > vheight[r] /\ SafeNode(r, n, LockAfter(r, n))

(* reg_hqc_update: a highest tail that extends the new hqc h, or h itself. *)
(* Which of several is left to the pointer order of the tails.  The highest*)
(* delivered blocks above h are always tails.                              *)
HighTails(r, h) ==
  LET above == {b \in delivered[r] : Extends(b, h)}
  IN  {b \in above : \A c \in above : Height(c) <= Height(b)}

(* Wrong on purpose: reg_hqc_update leaves hqc_tail alone. *)
TailsAfterNoUpdate(r, h) == {tail[r]}

(* The values hqc_tail may have once hqc is h. *)
TailsAfter(r, h) == IF h = hqc[r] THEN {tail[r]} ELSE HighTails(r, h)

(* reg_receive_proposal, and with it reg_proposal. *)
TailOnProposal(t, h, b) == IF Extends(b, h) /\ Height(b) > Height(t) THEN b ELSE t

(* Block::voted *)
CountedFor(r, b) == {v \in counted[r] : v.blk = b}

(* Wrong on purpose: the certificate is taken one vote early. *)
CompletesEarly(r, b) == Cardinality(CountedFor(r, b)) + 2 = nmajority

(* One more vote makes the certificate. *)
Completes(r, b) == Cardinality(CountedFor(r, b)) + 1 = nmajority
------------------------------------------------------------------------------
Init == /\ props = {}
        /\ votes = {}
        /\ delivered = [r \in Correct |-> {genesis}]
        /\ vheight = [r \in Correct |-> 0]
        /\ lock = [r \in Correct |-> genesis]
        /\ exec = [r \in Correct |-> genesis]
        /\ hqc = [r \in Correct |-> genesis]
        /\ tail = [r \in Correct |-> genesis]
        /\ counted = [r \in Correct |-> {}]
        /\ failed = [r \in Correct |-> None]

(* Bounds of the model. *)
Room(b) == b \in Block /\ Cardinality(Proposed \cup {b}) <= MaxBlocks

(* on_propose with parent get_parents() and certificate hqc: deliver the   *)
(* new block, update, vote for it and broadcast it.  Its certificate is    *)
(* the proposer's hqc, so update() leaves hqc alone.                       *)
Propose(r, x) ==
  LET b == NewBlock(tail[r], x, hqc[r])
      error == IF Breach(r, b) THEN "safety breached"
               ELSE IF Height(b) <= vheight[r]
                    THEN "new block should be higher than vheight" ELSE None
      voting == error = None /\ Opinion(r, b)
  IN
  /\ Running(r)
  /\ Room(b)
  /\ delivered' = [delivered EXCEPT ![r] = @ \cup {b}]
  /\ lock' = [lock EXCEPT ![r] = LockAfter(r, b)]
  /\ exec' = [exec EXCEPT ![r] = ExecAfter(r, b)]
  /\ failed' = [failed EXCEPT ![r] = error]
  /\ props' = IF error = None THEN props \cup {[proposer |-> r, blk |-> b]} ELSE props
  /\ tail' = IF error = None THEN [tail EXCEPT ![r] = b] ELSE tail
  /\ IF voting
     THEN /\ vheight' = [vheight EXCEPT ![r] = Height(b)]
          /\ votes' = votes \cup {[voter |-> r, to |-> r, blk |-> b]}
          /\ counted' = [counted EXCEPT ![r] = @ \cup {[voter |-> r, blk |-> b]}]
     ELSE UNCHANGED << vheight, votes, counted >>
  /\ UNCHANGED hqc

(* A faulty replica proposes on any block p, naming a certificate for any  *)
(* block q, on whatever branch, whether there is such a certificate or not.*)
FaultyPropose(f, p, q, x) ==
  LET b == NewBlock(p, x, q) IN
  /\ Room(b)
  /\ props' = props \cup {[proposer |-> f, blk |-> b]}
  /\ UNCHANGED << votes, replicaVars >>

(* on_deliver_blk, for a block fetched from a message or a peer: its       *)
(* certificate was verified, its parent delivered and the block that the   *)
(* certificate is for fetched (async_deliver_blk).  A certified block can  *)
(* be fetched; it need not be delivered.                                   *)
Deliver(r, b) ==
  /\ Running(r)
  /\ b \notin delivered[r]
  /\ Parent(b) \in delivered[r]
  /\ Verify(b)
  /\ delivered' = [delivered EXCEPT ![r] = @ \cup {b}]
  /\ UNCHANGED << props, votes, vheight, lock, exec, hqc, tail, counted, failed >>

(* on_receive_proposal of another replica's proposal, and do_vote.  When   *)
(* update() throws, the pacemaker does not see the proposal.               *)
ReceiveProposal(r, p) ==
  LET b == p.blk
      h == HqcAfter(r, b)
      voting == ~Breach(r, b) /\ Opinion(r, b)
  IN
  /\ Running(r)
  /\ p.proposer # r
  /\ b \in delivered[r]
  /\ hqc' = [hqc EXCEPT ![r] = h]
  /\ lock' = [lock EXCEPT ![r] = LockAfter(r, b)]
  /\ exec' = [exec EXCEPT ![r] = ExecAfter(r, b)]
  /\ failed' = [failed EXCEPT ![r] = IF Breach(r, b) THEN "safety breached" ELSE None]
  /\ \E t \in TailsAfter(r, h) :
       tail' = [tail EXCEPT ![r] = IF Breach(r, b) THEN t ELSE TailOnProposal(t, h, b)]
  /\ IF voting
     THEN /\ vheight' = [vheight EXCEPT ![r] = Height(b)]
          /\ votes' = votes \cup {[voter |-> r, to |-> p.proposer, blk |-> b]}
     ELSE UNCHANGED << vheight, votes >>
  /\ UNCHANGED << props, delivered, counted >>

(* on_receive_vote: the vote that completes the certificate updates hqc;   *)
(* votes beyond it and repeated ones are dropped.                          *)
ReceiveVote(r, voter, b) ==
  LET v == [voter |-> voter, blk |-> b]
      h == IF Completes(r, b) /\ Height(b) > Height(hqc[r]) THEN b ELSE hqc[r]
  IN
  /\ Running(r)
  /\ b \in delivered[r]
  /\ Cardinality(CountedFor(r, b)) < nmajority
  /\ v \notin counted[r]
  /\ counted' = [counted EXCEPT ![r] = @ \cup {v}]
  /\ hqc' = [hqc EXCEPT ![r] = h]
  /\ \E t \in TailsAfter(r, h) : tail' = [tail EXCEPT ![r] = t]
  /\ UNCHANGED << props, votes, delivered, vheight, lock, exec, failed >>

ReceiveCorrectVote(r) ==
  \E v \in votes : v.to = r /\ ReceiveVote(r, v.voter, v.blk)

(* Bound: faulty votes go to those that propose. *)
ReceiveFaultyVote(r) ==
  /\ r \in Proposers
  /\ \E f \in FaultyVoters, b \in delivered[r] \ {genesis} : ReceiveVote(r, f, b)

Next == \/ \E r \in Proposers, x \in Payload : Propose(r, x)
        \/ \E f \in FaultyProposers, p, q \in Proposed \cup {genesis}, x \in Payload :
             FaultyPropose(f, p, q, x)
        \/ \E r \in Correct :
             \/ \E b \in Proposed : Deliver(r, b)
             \/ \E p \in props : ReceiveProposal(r, p)
             \/ ReceiveCorrectVote(r)
             \/ ReceiveFaultyVote(r)

Spec == Init /\ [][Next]_vars
------------------------------------------------------------------------------
(* Types of the state.  A replica locks, executes, extends and names as    *)
(* certified only blocks that it has delivered, never one that it has just *)
(* fetched and whose height it does not know yet.                          *)
TypeOK == /\ props \subseteq Proposal
          /\ votes \subseteq Vote
          /\ delivered \in [Correct -> SUBSET Block]
          /\ vheight \in [Correct -> Nat]
          /\ lock \in [Correct -> Block] /\ exec \in [Correct -> Block]
          /\ hqc \in [Correct -> Block] /\ tail \in [Correct -> Block]
          /\ \A r \in Correct :
               {lock[r], exec[r], hqc[r], tail[r]} \subseteq delivered[r]
          /\ counted \in [Correct -> SUBSET [voter : Replica, blk : Block]]
          /\ failed \in [Correct -> Exceptions \cup {None}]

(* What safety rests on: HOTSTUFF_TWO_STEP, or certificates for ancestors. *)
SafeBuild == TwoStep \/ OwnCerts

(* No two correct replicas execute conflicting chains.  Needs a SafeBuild. *)
Agreement == \A r, s \in Correct : Extends(exec[r], exec[s]) \/ Extends(exec[s], exec[r])

(* The exception "safety breached" of update() is never thrown.  Needs a   *)
(* SafeBuild.                                                              *)
NoSafetyBreach == \A r \in Correct : failed[r] # "safety breached"

(* get_parents() returns a block above hqc: the block on_propose builds is *)
(* above the block whose certificate it carries.                           *)
TailExtendsHqc == \A r \in Correct : Extends(tail[r], hqc[r])

(* The lock never leaves the executed chain, and whoever holds a lock      *)
(* knows a certificate at least as high: a proposer with the highest lock  *)
(* always proposes a block that its own lock lets it vote for.  Needs a    *)
(* SafeBuild.                                                              *)
LockBetweenExecAndHqc ==
  \A r \in Correct : /\ Extends(lock[r], exec[r])
                     /\ Height(lock[r]) <= Height(hqc[r])

(* A certificate that was formed from votes or taken from a block is real. *)
HqcCertified == \A r \in Correct : Certified(hqc[r])

(* A correct replica votes for each of its own proposals, so a proposal    *)
(* starts with one of the votes it needs.  Needs a SafeBuild.              *)
ProposersVote ==
  \A p \in props :
    p.proposer \in Correct =>
      [voter |-> p.proposer, to |-> p.proposer, blk |-> p.blk] \in votes

(* The assertion of on_propose: "new block should be higher than vheight". *)
NewBlockHigherThanVheight ==
  \A r \in Correct : failed[r] # "new block should be higher than vheight"

(* The blocks each replica has signed a vote for. *)
Voted == [r \in Correct |-> {v.blk : v \in {w \in votes : w.voter = r}}]
V == INSTANCE Voting WITH voted <- Voted

(* The votes, vote heights and locks that the handlers of HotStuffCore     *)
(* produce, whatever the order of messages, are those of the voting rule.  *)
(* The same as V!Spec: that most steps leave V!vars alone is tried first.  *)
VotingSpec == V!Init /\ [][UNCHANGED V!vars \/ V!Next]_(V!vars)

(* Whatever a replica executes was committed by a chain of certificates.   *)
ExecCommitted == \A r \in Correct : exec[r] = genesis \/ exec[r] \in V!CommittedBlocks
==============================================================================
