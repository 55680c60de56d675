------------------------ MODULE FixedProposer_proofs -------------------------
(***************************************************************************)
(* For every configuration, batch size and set of commands: the pacemaker  *)
(* of a fixed proposer forgets no beat, proposes only on a certificate and *)
(* loses no command, and each command is answered once.                    *)
(***************************************************************************)
EXTENDS FixedProposer, FiniteSetTheorems, TLAPS

(* Any set of voters is finite, one more voter adds at most one to their   *)
(* number, and all replicas together are enough voters.                    *)
LEMMA VotersFinite ==
  ASSUME NEW v \in SUBSET Replica
  PROVE  /\ Cardinality(v) \in Nat
         /\ Cardinality({proposer}) = 1
         /\ nmajority \in Nat
         /\ Cardinality(Replica) >= nmajority
  <1>1. IsFiniteSet(Replica) /\ IsFiniteSet(v)
    BY ReplicaAssumption, FS_Subset
  <1>2. /\ Cardinality(Replica) \in Nat /\ Cardinality(v) \in Nat
        /\ Cardinality({proposer}) = 1
    BY <1>1, FS_CardinalityType, FS_Singleton
  <1>3. Cardinality(Replica) # 0
    BY <1>1, ReplicaAssumption, FS_EmptySet
  <1> QED BY <1>2, <1>3 DEF nmajority, nfaulty, nreplicas

(* The proposer's own vote is no certificate. *)
LEMMA OwnVoteIsNoQc == ~QcFinished({proposer})
  BY VotersFinite, QueueAssumption DEF QcFinished

(* The proposer is a replica. *)
LEMMA ProposerIsReplica == proposer \in Replica /\ proposer \in Correct
  BY QueueAssumption DEF Correct

(* The types and the waiting discipline together are inductive. *)
Inv == TypeOK /\ NoBeatForgotten

(* The initial state: nothing is pending, and genesis has every vote. *)
THEOREM InitInv == Init => Inv
  <1> SUFFICES ASSUME Init PROVE Inv
    OBVIOUS
  <1>1. BlkSize \in Nat /\ BlkSize > 0 BY QueueAssumption
  <1>2. TypeOK
    <2>1. /\ arrived \in [Correct -> [Cmd -> Nat]]
          /\ waiting \in [Correct -> SUBSET Cmd]
          /\ ran \in [Correct -> [Cmd -> Nat]]
          /\ seen \in [Replica -> Nat]
      BY DEF Init
    <2>2. buffer \in Seq(Cmd) /\ beats \in Seq(Batch) /\ chain \in Seq(Batch)
      BY DEF Init
    <2>3. Len(buffer) < BlkSize BY <1>1 DEF Init
    <2>4. slot \in Batch \cup {NoBatch} /\ locked \in BOOLEAN /\ voted \in SUBSET Replica
      BY DEF Init
    <2> QED BY <2>1, <2>2, <2>3, <2>4 DEF TypeOK
  <1>3. NoBeatForgotten BY DEF Init, NoBeatForgotten
  <1> QED BY <1>2, <1>3 DEF Inv
------------------------------------------------------------------------------
(* schedule_next on typed beats leaves typed beats, and a waiting beat     *)
(* exactly when the pacemaker is locked.                                   *)
LEMMA ScheduleNextProps ==
  ASSUME NEW bs \in Seq(Batch), ScheduleNext(bs)
  PROVE  /\ beats' \in Seq(Batch)
         /\ slot' \in Batch \cup {NoBatch}
         /\ locked' \in BOOLEAN
         /\ beats' # << >> => locked'
         /\ locked' <=> slot' # NoBatch
  <1>1. CASE bs = << >> BY <1>1 DEF ScheduleNext
  <1>2. CASE bs # << >>
    <2>1. Head(bs) \in Batch /\ Tail(bs) \in Seq(Batch) BY <1>2
    <2> QED BY <1>2, <2>1 DEF ScheduleNext, Batch
  <1> QED BY <1>1, <1>2

(* Deciding commands keeps the types of the queue of the replica r. *)
LEMMA DecideProps ==
  ASSUME NEW w \in SUBSET Cmd, NEW n \in [Cmd -> Nat], NEW cmds
  PROVE  /\ StillWaiting(w, cmds) \in SUBSET Cmd
         /\ RunDecided(n, w, cmds) \in [Cmd -> Nat]
  BY DEF StillWaiting, RunDecided

(* A proposal keeps the types and leaves every pending beat waiting. *)
LEMMA ProposeProps ==
  ASSUME TypeOK, NEW batch \in Batch, NEW bs \in Seq(Batch),
         NEW w \in SUBSET Cmd, NEW n \in [Cmd -> Nat],
         Propose(batch, bs, w, n)
  PROVE  /\ waiting' \in [Correct -> SUBSET Cmd]
         /\ ran' \in [Correct -> [Cmd -> Nat]]
         /\ beats' \in Seq(Batch)
         /\ slot' \in Batch \cup {NoBatch}
         /\ locked' \in BOOLEAN
         /\ chain' \in Seq(Batch)
         /\ voted' \in SUBSET Replica
         /\ seen' \in [Replica -> Nat]
         /\ NoBeatForgotten'
  <1> DEFINE cmds == DecidedBy(Len(chain) + 1, chain)
  <1>1. /\ chain' = Append(chain, batch)
        /\ voted' = {proposer}
        /\ seen' = [seen EXCEPT ![proposer] = Len(chain) + 1]
        /\ waiting' = [waiting EXCEPT ![proposer] = StillWaiting(w, cmds)]
        /\ ran' = [ran EXCEPT ![proposer] = RunDecided(n, w, cmds)]
        /\ ScheduleNext(bs)
    BY DEF Propose
  <1> HIDE DEF cmds
  <1>2. /\ beats' \in Seq(Batch) /\ slot' \in Batch \cup {NoBatch}
        /\ locked' \in BOOLEAN
        /\ beats' # << >> => locked'
        /\ locked' <=> slot' # NoBatch
    BY <1>1, ScheduleNextProps
  <1>3. ~QcFinished(voted)' BY <1>1, OwnVoteIsNoQc DEF QcFinished
  <1>4. NoBeatForgotten' BY <1>2, <1>3 DEF NoBeatForgotten
  <1>5. chain' \in Seq(Batch) /\ Len(chain) + 1 \in Nat
    <2>1. chain \in Seq(Batch) BY DEF TypeOK
    <2> QED BY <1>1, <2>1
  <1>6. voted' \in SUBSET Replica BY <1>1, ProposerIsReplica
  <1>7. seen' \in [Replica -> Nat]
    <2>1. seen \in [Replica -> Nat] BY DEF TypeOK
    <2> QED BY <1>1, <1>5, <2>1
  <1>8. waiting' \in [Correct -> SUBSET Cmd] BY <1>1, DecideProps DEF TypeOK
  <1>9. ran' \in [Correct -> [Cmd -> Nat]] BY <1>1, DecideProps DEF TypeOK
  <1> QED BY <1>2, <1>4, <1>5, <1>6, <1>7, <1>8, <1>9

(* So does beat(), whether it proposes, schedules or only queues. *)
LEMMA BeatProps ==
  ASSUME TypeOK, NoBeatForgotten, NEW batch \in Batch,
         NEW w \in SUBSET Cmd, NEW n \in [Cmd -> Nat],
         Beat(batch, w, n)
  PROVE  /\ waiting' \in [Correct -> SUBSET Cmd]
         /\ ran' \in [Correct -> [Cmd -> Nat]]
         /\ beats' \in Seq(Batch)
         /\ slot' \in Batch \cup {NoBatch}
         /\ locked' \in BOOLEAN
         /\ chain' \in Seq(Batch)
         /\ voted' \in SUBSET Replica
         /\ seen' \in [Replica -> Nat]
         /\ NoBeatForgotten'
  <1> DEFINE bs == Append(beats, batch)
  <1>1. /\ bs \in Seq(Batch) /\ bs # << >>
        /\ Head(bs) \in Batch /\ Tail(bs) \in Seq(Batch)
    <2>1. beats \in Seq(Batch) BY DEF TypeOK
    <2>2. bs \in Seq(Batch) /\ Len(bs) = Len(beats) + 1 BY <2>1
    <2>3. bs # << >> BY <2>1, <2>2
    <2> QED BY <2>2, <2>3
  <1>2. CASE ~locked /\ QcFinished(voted)
    <2>1. Propose(Head(bs), Tail(bs), w, n) BY <1>2 DEF Beat
    <2> HIDE DEF bs
    <2> QED BY <1>1, <2>1, ProposeProps
  <1>3. CASE ~(~locked /\ QcFinished(voted))
    <2>1. /\ IF locked THEN beats' = bs /\ UNCHANGED << slot, locked >>
             ELSE ScheduleNext(bs)
          /\ waiting' = [waiting EXCEPT ![proposer] = w]
          /\ ran' = [ran EXCEPT ![proposer] = n]
          /\ UNCHANGED << chain, voted, seen >>
      BY <1>3 DEF Beat
    <2> HIDE DEF bs
    <2>2. /\ beats' \in Seq(Batch) /\ slot' \in Batch \cup {NoBatch}
          /\ locked' \in BOOLEAN
          /\ beats' # << >> => locked'
          /\ locked' <=> slot' # NoBatch
      <3>1. CASE locked BY <1>1, <2>1, <3>1 DEF TypeOK, NoBeatForgotten
      <3>2. CASE ~locked BY <1>1, <2>1, <3>2, ScheduleNextProps
      <3> QED BY <3>1, <3>2
    <2>3. locked' => ~QcFinished(voted)'
      <3>1. locked => ~QcFinished(voted) BY DEF NoBeatForgotten
      <3> QED BY <1>3, <2>1, <3>1 DEF QcFinished
    <2>4. NoBeatForgotten' BY <2>2, <2>3 DEF NoBeatForgotten
    <2> QED BY <2>1, <2>2, <2>4 DEF TypeOK
  <1> QED BY <1>2, <1>3
------------------------------------------------------------------------------
(* One command taken off the queue of the replica r. *)
LEMMA ArriveInv ==
  ASSUME Inv, NEW r \in Receivers, NEW c \in Cmd, Arrive(r, c)
  PROVE  Inv'
  <1> DEFINE w == waiting[r] \cup {c}
             n == IF c \in waiting[r] THEN [ran[r] EXCEPT ![c] = @ + 1] ELSE ran[r]
             b == Append(buffer, c)
  <1>0. r \in Correct /\ BlkSize \in Nat \ {0} BY QueueAssumption
  <1>1. TypeOK /\ NoBeatForgotten BY DEF Inv
  <1>2. w \in SUBSET Cmd /\ n \in [Cmd -> Nat] BY <1>0, <1>1 DEF TypeOK
  <1>3. /\ buffer \in Seq(Cmd) /\ b \in Seq(Cmd)
        /\ Len(b) = Len(buffer) + 1 /\ Len(b) <= BlkSize
        /\ Len(b) \in Nat
    BY <1>0, <1>1 DEF TypeOK
  <1>4. arrived' \in [Correct -> [Cmd -> Nat]]
    <2>1. arrived' = [arrived EXCEPT ![r][c] = @ + 1] BY DEF Arrive
    <2> QED BY <1>0, <1>1, <2>1 DEF TypeOK
  <1>5. CASE r = proposer /\ Len(b) >= BlkSize
    <2>1. buffer' = Left(b) /\ Beat(Taken(b), w, n)
      BY <1>0, <1>3, <1>5 DEF Arrive
    <2>2. Len(b) = BlkSize BY <1>0, <1>3, <1>5
    <2>3. Left(b) \in Seq(Cmd) /\ Len(Left(b)) = 0
      <3>1. Left(b) = SubSeq(b, BlkSize + 1, BlkSize) BY <2>2 DEF Left
      <3> HIDE DEF b
      <3>2. SubSeq(b, BlkSize + 1, BlkSize) = << >> BY <1>0, <1>3
      <3>3. Left(b) = << >> BY <3>1, <3>2
      <3> QED BY <3>3
    <2>4. Taken(b) \in Batch
      <3>1. Taken(b) \in Seq(Cmd) /\ Len(Taken(b)) = BlkSize
        BY <1>0, <1>3, <2>2 DEF Taken
      <3> QED BY <1>0, <3>1 DEF Batch, NoBatch
    <2> HIDE DEF w, n, b
    <2>5. /\ waiting' \in [Correct -> SUBSET Cmd]
          /\ ran' \in [Correct -> [Cmd -> Nat]]
          /\ beats' \in Seq(Batch)
          /\ slot' \in Batch \cup {NoBatch}
          /\ locked' \in BOOLEAN
          /\ chain' \in Seq(Batch)
          /\ voted' \in SUBSET Replica
          /\ seen' \in [Replica -> Nat]
          /\ NoBeatForgotten'
      BY <1>1, <1>2, <2>1, <2>4, BeatProps
    <2>6. buffer' \in Seq(Cmd) /\ Len(buffer') < BlkSize BY <1>0, <2>1, <2>3
    <2> QED BY <1>4, <2>5, <2>6 DEF TypeOK, Inv
  <1>6. CASE r # proposer \/ Len(b) < BlkSize
    <2>1. /\ buffer' = IF r = proposer THEN b ELSE buffer
          /\ waiting' = [waiting EXCEPT ![r] = w]
          /\ ran' = [ran EXCEPT ![r] = n]
          /\ UNCHANGED << paceVars, chain, voted, seen >>
      BY <1>0, <1>3, <1>6 DEF Arrive
    <2> HIDE DEF w, n
    <2>2. buffer' \in Seq(Cmd) /\ Len(buffer') < BlkSize
      BY <1>1, <1>3, <1>6, <2>1 DEF TypeOK
    <2>3. NoBeatForgotten' BY <1>1, <2>1 DEF NoBeatForgotten, paceVars, QcFinished
    <2>4. TypeOK' BY <1>0, <1>1, <1>2, <1>4, <2>1, <2>2 DEF TypeOK, paceVars
    <2> QED BY <2>3, <2>4 DEF Inv
  <1> QED BY <1>0, <1>3, <1>5, <1>6

(* The next block at a following replica. *)
LEMMA ReceiveProposalInv ==
  ASSUME Inv, NEW r \in Replica, ReceiveProposal(r)
  PROVE  Inv'
  <1> DEFINE cmds == DecidedBy(seen[r] + 1, chain)
  <1>1. TypeOK /\ NoBeatForgotten BY DEF Inv
  <1>2. /\ seen' = [seen EXCEPT ![r] = seen[r] + 1]
        /\ UNCHANGED << arrived, buffer, paceVars, chain, voted >>
        /\ IF r \in Correct
           THEN /\ waiting' = [waiting EXCEPT ![r] = StillWaiting(@, cmds)]
                /\ ran' = [ran EXCEPT ![r] = RunDecided(@, waiting[r], cmds)]
           ELSE UNCHANGED << waiting, ran >>
    BY DEF ReceiveProposal
  <1> HIDE DEF cmds
  <1>3. NoBeatForgotten' BY <1>1, <1>2 DEF NoBeatForgotten, paceVars, QcFinished
  <1>4. seen' \in [Replica -> Nat] BY <1>1, <1>2 DEF TypeOK
  <1>5. waiting' \in [Correct -> SUBSET Cmd] /\ ran' \in [Correct -> [Cmd -> Nat]]
    <2>1. CASE r \in Correct
      <3>1. waiting[r] \in SUBSET Cmd /\ ran[r] \in [Cmd -> Nat]
        BY <1>1, <2>1 DEF TypeOK
      <3>2. /\ StillWaiting(waiting[r], cmds) \in SUBSET Cmd
            /\ RunDecided(ran[r], waiting[r], cmds) \in [Cmd -> Nat]
        BY <3>1, DecideProps
      <3> QED BY <1>1, <1>2, <2>1, <3>2 DEF TypeOK
    <2>2. CASE r \notin Correct BY <1>1, <1>2, <2>2 DEF TypeOK
    <2> QED BY <2>1, <2>2
  <1>6. TypeOK' BY <1>1, <1>2, <1>4, <1>5 DEF TypeOK, paceVars
  <1> QED BY <1>3, <1>6 DEF Inv

(* A vote at the proposer: the one that completes the certificate makes    *)
(* the waiting beat propose, so none is left waiting for it.               *)
LEMMA ReceiveVoteInv ==
  ASSUME Inv, NEW r \in Replica, ReceiveVote(r)
  PROVE  Inv'
  <1> DEFINE v == voted \cup {r}
  <1>1. TypeOK /\ NoBeatForgotten BY DEF Inv
  <1>2. arrived' = arrived /\ buffer' = buffer BY DEF ReceiveVote
  <1>3. CASE QcFinished(v) /\ slot # NoBatch
    <2>1. Propose(slot, beats, waiting[proposer], ran[proposer])
      BY <1>3 DEF ReceiveVote
    <2>2. /\ slot \in Batch /\ beats \in Seq(Batch)
          /\ waiting[proposer] \in SUBSET Cmd /\ ran[proposer] \in [Cmd -> Nat]
      BY <1>1, <1>3, ProposerIsReplica DEF TypeOK
    <2> QED BY <1>1, <1>2, <2>1, <2>2, ProposeProps DEF TypeOK, Inv
  <1>4. CASE ~(QcFinished(v) /\ slot # NoBatch)
    <2>1. voted' = v /\ UNCHANGED << waiting, ran, paceVars, chain, seen >>
      BY <1>4 DEF ReceiveVote
    <2>2. TypeOK' BY <1>1, <1>2, <2>1 DEF TypeOK, paceVars
    <2>3. NoBeatForgotten'
      BY <1>1, <1>4, <2>1 DEF NoBeatForgotten, paceVars, QcFinished
    <2> QED BY <2>2, <2>3 DEF Inv
  <1> QED BY <1>3, <1>4

(* Every step keeps the invariant. *)
THEOREM NextInv == Inv /\ [Next]_vars => Inv'
  <1> SUFFICES ASSUME Inv, [Next]_vars PROVE Inv'
    OBVIOUS
  <1>1. CASE UNCHANGED vars
    BY <1>1 DEF vars, Inv, TypeOK, NoBeatForgotten, QcFinished
  <1>2. CASE \E r \in Receivers, c \in Cmd : Arrive(r, c)
    BY <1>2, ArriveInv
  <1>3. CASE \E r \in Replica : ReceiveProposal(r)
    BY <1>3, ReceiveProposalInv
  <1>4. CASE \E r \in Replica : ReceiveVote(r)
    BY <1>4, ReceiveVoteInv
  <1> QED BY <1>1, <1>2, <1>3, <1>4 DEF Next

(* The invariant holds in every reachable state. *)
THEOREM InvHolds == Spec => []Inv
  BY InitInv, NextInv, PTL DEF Spec

(* Types of the queues and of the pacemaker. *)
THEOREM TypeCorrect == Spec => []TypeOK
  BY InvHolds, PTL DEF Inv

(* schedule_next wakes up exactly one beat for every certificate: a beat   *)
(* waits only while a certificate is still to come.                        *)
THEOREM BeatsWakeUp == Spec => []NoBeatForgotten
  BY InvHolds, PTL DEF Inv
------------------------------------------------------------------------------
(* A set of voters that is enough stays so with a voter more that is in it.*)
LEMMA QcFinishedAlready ==
  ASSUME NEW v \in SUBSET Replica, QcFinished(v)
  PROVE  \E r \in Replica : QcFinished(v \cup {r})
  <1>1. PICK r \in v : TRUE
    <2>1. Cardinality(v) > 0
      BY VotersFinite, QueueAssumption DEF QcFinished
    <2>2. v # {} BY <2>1, FS_EmptySet
    <2> QED BY <2>2
  <1>2. v \cup {r} = v BY <1>1
  <1> QED BY <1>1, <1>2

(* A block is proposed only with the certificate of the last one there, or *)
(* by the vote that completes it.                                          *)
THEOREM ProposesOnQc == Spec => BeatAfterQc
  <1> DEFINE Certified == \E r \in Replica : QcFinished(voted \cup {r})
  <1>1. ASSUME Inv, [Next]_vars, chain' # chain PROVE Certified
    <2>0. voted \in SUBSET Replica BY <1>1 DEF Inv, TypeOK
    <2>1. CASE UNCHANGED vars BY <1>1, <2>1 DEF vars
    <2>2. ASSUME NEW r \in Receivers, NEW c \in Cmd, Arrive(r, c) PROVE Certified
      <3>1. QcFinished(voted) BY <1>1, <2>2 DEF Arrive, Beat
      <3> QED BY <2>0, <3>1, QcFinishedAlready
    <2>3. ASSUME NEW r \in Replica, ReceiveProposal(r) PROVE Certified
      BY <1>1, <2>3 DEF ReceiveProposal
    <2>4. ASSUME NEW r \in Replica, ReceiveVote(r) PROVE Certified
      BY <1>1, <2>4 DEF ReceiveVote
    <2> QED BY <1>1, <2>1, <2>2, <2>3, <2>4 DEF Next
  <1>2. Inv /\ [Next]_vars => [chain' # chain => Certified]_vars
    BY <1>1
  <1> QED BY <1>2, InvHolds, PTL DEF Spec, BeatAfterQc
------------------------------------------------------------------------------
(* The answers to the command c that a queue with the waiting commands w   *)
(* and the callbacks n run stands for: given, and still owed.              *)
Owed(w, c) == IF c \in w THEN 1 ELSE 0
Account(w, n, c) == n[c] + Owed(w, c)

(* Deciding commands settles what is owed and leaves the account as it is. *)
LEMMA DecideAccount ==
  ASSUME NEW w \in SUBSET Cmd, NEW n \in [Cmd -> Nat], NEW cmds, NEW c \in Cmd
  PROVE  Account(StillWaiting(w, cmds), RunDecided(n, w, cmds), c) = Account(w, n, c)
  <1>1. CASE c \in w \cap cmds
    BY <1>1 DEF Account, Owed, StillWaiting, RunDecided
  <1>2. CASE c \notin w \cap cmds
    BY <1>2 DEF Account, Owed, StillWaiting, RunDecided
  <1> QED BY <1>1, <1>2

(* The proposer's account after a step that starts from w and n is that of *)
(* w and n; the accounts of the others do not change.                      *)
Settled(w, n) ==
  /\ \A c \in Cmd : Account(waiting'[proposer], ran'[proposer], c) = Account(w, n, c)
  /\ \A r \in Correct \ {proposer} : waiting'[r] = waiting[r] /\ ran'[r] = ran[r]

(* A proposal decides commands, and so leaves the accounts as they are. *)
LEMMA ProposeAccount ==
  ASSUME TypeOK, NEW batch, NEW bs, NEW w \in SUBSET Cmd, NEW n \in [Cmd -> Nat],
         Propose(batch, bs, w, n)
  PROVE  Settled(w, n)
  <1> DEFINE cmds == DecidedBy(Len(chain) + 1, chain)
  <1>1. /\ waiting' = [waiting EXCEPT ![proposer] = StillWaiting(w, cmds)]
        /\ ran' = [ran EXCEPT ![proposer] = RunDecided(n, w, cmds)]
    BY DEF Propose
  <1> HIDE DEF cmds
  <1>2. /\ waiting'[proposer] = StillWaiting(w, cmds)
        /\ ran'[proposer] = RunDecided(n, w, cmds)
        /\ \A r \in Correct \ {proposer} : waiting'[r] = waiting[r] /\ ran'[r] = ran[r]
    BY <1>1, ProposerIsReplica DEF TypeOK
  <1> QED BY <1>2, DecideAccount DEF Settled

(* So does beat(), whether it proposes or not. *)
LEMMA BeatAccount ==
  ASSUME TypeOK, NEW batch, NEW w \in SUBSET Cmd, NEW n \in [Cmd -> Nat],
         Beat(batch, w, n)
  PROVE  Settled(w, n)
  <1>1. CASE ~locked /\ QcFinished(voted)
    <2> DEFINE bs == Append(beats, batch)
    <2>1. Propose(Head(bs), Tail(bs), w, n)  BY <1>1 DEF Beat
    <2> QED BY <2>1, ProposeAccount
  <1>2. CASE ~(~locked /\ QcFinished(voted))
    <2>1. /\ waiting' = [waiting EXCEPT ![proposer] = w]
          /\ ran' = [ran EXCEPT ![proposer] = n]
      BY <1>2 DEF Beat
    <2> QED BY <2>1, ProposerIsReplica DEF TypeOK, Settled
  <1> QED BY <1>1, <1>2

(* A command taken off the queue adds one to its own account only: it is   *)
(* owed an answer, or gets one at once when one is owed already.           *)
LEMMA ArriveAnswered ==
  ASSUME TypeOK, AnsweredOnce, NEW r \in Receivers, NEW c \in Cmd, Arrive(r, c)
  PROVE  AnsweredOnce'
  <1> DEFINE w == waiting[r] \cup {c}
             n == IF c \in waiting[r] THEN [ran[r] EXCEPT ![c] = @ + 1] ELSE ran[r]
             b == Append(buffer, c)
  <1>1. r \in Correct /\ proposer \in Correct  BY QueueAssumption
  <1>2. /\ waiting[r] \in SUBSET Cmd /\ ran[r] \in [Cmd -> Nat]
        /\ w \in SUBSET Cmd /\ n \in [Cmd -> Nat]
        /\ arrived \in [Correct -> [Cmd -> Nat]]
    BY <1>1, SMTT(30) DEF TypeOK
  <1>3. \A d \in Cmd : arrived'[r][d] = Account(w, n, d)
    <2> TAKE d \in Cmd
    <2>1. arrived[r][d] = Account(waiting[r], ran[r], d)
      BY <1>1 DEF AnsweredOnce, Account, Owed
    <2>2. arrived'[r][d] = IF d = c THEN arrived[r][d] + 1 ELSE arrived[r][d]
      BY <1>1, <1>2 DEF Arrive
    <2>3. Account(w, n, d) = IF d = c THEN Account(waiting[r], ran[r], d) + 1
                                      ELSE Account(waiting[r], ran[r], d)
      BY <1>2 DEF Account, Owed
    <2> QED BY <2>1, <2>2, <2>3
  <1>4. \A q \in Correct \ {r} : arrived'[q] = arrived[q]
    BY <1>2 DEF Arrive
  <1>5. /\ \A d \in Cmd : Account(waiting'[r], ran'[r], d) = Account(w, n, d)
        /\ \A q \in Correct \ {r} : waiting'[q] = waiting[q] /\ ran'[q] = ran[q]
    <2>1. CASE r = proposer /\ Beat(Taken(b), w, n)
      <3> HIDE DEF w, n
      <3> QED BY <1>2, <2>1, BeatAccount DEF Settled
    <2>2. CASE waiting' = [waiting EXCEPT ![r] = w] /\ ran' = [ran EXCEPT ![r] = n]
      <3> HIDE DEF w, n
      <3> QED BY <1>1, <2>2 DEF TypeOK
    <2> QED BY <2>1, <2>2 DEF Arrive
  <1> HIDE DEF w, n
  <1> QED BY <1>3, <1>4, <1>5 DEF AnsweredOnce, Account, Owed

(* The next block at a following replica only decides commands. *)
LEMMA ReceiveProposalAnswered ==
  ASSUME TypeOK, AnsweredOnce, NEW r \in Replica, ReceiveProposal(r)
  PROVE  AnsweredOnce'
  <1> DEFINE cmds == DecidedBy(seen[r] + 1, chain)
  <1>1. CASE r \in Correct
    <2>1. /\ arrived' = arrived
          /\ waiting' = [waiting EXCEPT ![r] = StillWaiting(waiting[r], cmds)]
          /\ ran' = [ran EXCEPT ![r] = RunDecided(ran[r], waiting[r], cmds)]
      BY <1>1 DEF ReceiveProposal
    <2> HIDE DEF cmds
    <2>2. waiting[r] \in SUBSET Cmd /\ ran[r] \in [Cmd -> Nat]
      BY <1>1 DEF TypeOK
    <2>3. \A c \in Cmd : Account(waiting'[r], ran'[r], c) = Account(waiting[r], ran[r], c)
      BY <1>1, <2>1, <2>2, DecideAccount, ZenonT(60) DEF TypeOK
    <2>4. \A q \in Correct \ {r} : waiting'[q] = waiting[q] /\ ran'[q] = ran[q]
      BY <2>1 DEF TypeOK
    <2> QED BY <2>1, <2>3, <2>4 DEF AnsweredOnce, Account, Owed
  <1>2. CASE r \notin Correct
    BY <1>2 DEF ReceiveProposal, AnsweredOnce
  <1> QED BY <1>1, <1>2

(* A vote decides commands only when it lets the proposer propose. *)
LEMMA ReceiveVoteAnswered ==
  ASSUME TypeOK, AnsweredOnce, NEW r \in Replica, ReceiveVote(r)
  PROVE  AnsweredOnce'
  <1>1. arrived' = arrived  BY DEF ReceiveVote
  <1>2. CASE Propose(slot, beats, waiting[proposer], ran[proposer])
    <2>1. waiting[proposer] \in SUBSET Cmd /\ ran[proposer] \in [Cmd -> Nat]
      BY ProposerIsReplica DEF TypeOK
    <2>2. Settled(waiting[proposer], ran[proposer])
      BY <1>2, <2>1, ProposeAccount
    <2> QED BY <1>1, <2>2 DEF Settled, AnsweredOnce, Account, Owed
  <1>3. CASE UNCHANGED << waiting, ran >>
    BY <1>1, <1>3 DEF AnsweredOnce
  <1> QED BY <1>2, <1>3 DEF ReceiveVote

(* Every copy of a command that reaches a correct replica is waiting or    *)
(* was answered by do_decide or by the handler of cmd_pending, never both  *)
(* and never neither.                                                      *)
THEOREM EachAnsweredOnce == Spec => []AnsweredOnce
  <1>1. Init => AnsweredOnce
    BY DEF Init, AnsweredOnce
  <1>2. Inv /\ AnsweredOnce /\ [Next]_vars => AnsweredOnce'
    <2> SUFFICES ASSUME Inv, AnsweredOnce, [Next]_vars PROVE AnsweredOnce'
      OBVIOUS
    <2>1. TypeOK  BY DEF Inv
    <2>2. CASE UNCHANGED vars
      BY <2>2 DEF vars, AnsweredOnce
    <2>3. CASE Next
      BY <2>1, <2>3, ArriveAnswered, ReceiveProposalAnswered, ReceiveVoteAnswered DEF Next
    <2> QED BY <2>2, <2>3
  <1> QED BY <1>1, <1>2, InvHolds, PTL DEF Spec
------------------------------------------------------------------------------
(* The block that decided the command c at the replica r is handled there. *)
Decided(r, c) == \E i \in 1 .. seen[r] - CommitLag : c \in ToSet(chain[i])

(* No replica is ahead of the chain, the proposer is never behind it, and  *)
(* callbacks have run for decided commands only.                           *)
ExecInv ==
  /\ seen[proposer] = Len(chain)
  /\ \A r \in Replica : seen[r] <= Len(chain)
  /\ \A r \in Correct, c \in Cmd : arrived[r][c] <= Submissions
  /\ \A r \in Correct, c \in Cmd : ran[r][c] > 0 => Decided(r, c)

(* CommitLag is two or three. *)
LEMMA CommitLagNat == CommitLag \in Nat \ {0}
  BY DEF CommitLag

(* The chain only grows, so what is decided stays so where no less is seen.*)
LEMMA StaysDecided ==
  ASSUME TypeOK, ExecInv, NEW r \in Replica, NEW c \in Cmd, Decided(r, c),
         seen'[r] \in Nat, seen'[r] >= seen[r],
         \A i \in 1 .. Len(chain) : chain'[i] = chain[i]
  PROVE  Decided(r, c)'
  <1>1. PICK i \in 1 .. seen[r] - CommitLag : c \in ToSet(chain[i])
    BY DEF Decided
  <1>2. seen[r] \in Nat /\ seen[r] <= Len(chain) /\ Len(chain) \in Nat
    BY DEF TypeOK, ExecInv
  <1>3. i \in 1 .. Len(chain) /\ i \in 1 .. seen'[r] - CommitLag
    BY <1>1, <1>2, CommitLagNat
  <1>4. c \in ToSet(chain'[i])  BY <1>1, <1>3
  <1> QED BY <1>3, <1>4 DEF Decided

(* What the block of height h decides is decided once it is handled.       *)
LEMMA DecidesHandled ==
  ASSUME TypeOK, NEW r, NEW h \in Nat, h <= Len(chain) + 1,
         NEW c \in Cmd, c \in DecidedBy(h, chain),
         seen'[r] = h, \A i \in 1 .. Len(chain) : chain'[i] = chain[i]
  PROVE  Decided(r, c)'
  <1>1. Len(chain) \in Nat  BY DEF TypeOK
  <1>2. h > CommitLag /\ c \in ToSet(chain[h - CommitLag])
    BY DEF DecidedBy
  <1>3. h - CommitLag \in 1 .. Len(chain) /\ h - CommitLag \in 1 .. seen'[r] - CommitLag
    BY <1>1, <1>2, CommitLagNat
  <1>4. c \in ToSet(chain'[h - CommitLag])  BY <1>2, <1>3
  <1> QED BY <1>3, <1>4 DEF Decided

(* A proposal from the waiting commands w and the callbacks n.             *)
LEMMA ProposeExec ==
  ASSUME TypeOK, ExecInv, NEW batch, NEW bs,
         NEW w \in SUBSET Cmd, NEW n \in [Cmd -> Nat],
         \A c \in Cmd : n[c] > 0 => Decided(proposer, c),
         \A r \in Correct, c \in Cmd : arrived'[r][c] <= Submissions,
         Propose(batch, bs, w, n)
  PROVE  ExecInv'
  <1> DEFINE h == Len(chain) + 1
             cmds == DecidedBy(h, chain)
  <1>1. /\ chain' = Append(chain, batch)
        /\ seen' = [seen EXCEPT ![proposer] = h]
        /\ ran' = [ran EXCEPT ![proposer] = RunDecided(n, w, cmds)]
    BY DEF Propose
  <1>2. /\ Len(chain) \in Nat /\ Len(chain') = h
        /\ \A i \in 1 .. Len(chain) : chain'[i] = chain[i]
    BY <1>1 DEF TypeOK
  <1>3. /\ seen'[proposer] = h /\ seen[proposer] = Len(chain)
        /\ \A r \in Replica \ {proposer} : seen'[r] = seen[r]
        /\ seen \in [Replica -> Nat]
    BY <1>1, ProposerIsReplica DEF TypeOK, ExecInv
  <1>4. \A r \in Replica : seen'[r] \in Nat /\ seen'[r] >= seen[r] /\ seen'[r] <= Len(chain')
    <2> TAKE r \in Replica
    <2>1. CASE r = proposer  BY <2>1, <1>2, <1>3
    <2>2. CASE r # proposer  BY <2>2, <1>2, <1>3 DEF ExecInv
    <2> QED BY <2>1, <2>2
  <1>5. ASSUME NEW r \in Correct, NEW c \in Cmd, ran'[r][c] > 0
        PROVE  Decided(r, c)'
    <2>0. r \in Replica  BY DEF Correct
    <2>1. CASE r = proposer
      <3>1. ran'[r][c] = IF c \in w \cap cmds THEN n[c] + 1 ELSE n[c]
        BY <1>1, <2>1, ProposerIsReplica DEF TypeOK, RunDecided
      <3>2. CASE c \in cmds
        BY <1>2, <1>3, <2>1, <3>2, DecidesHandled
      <3>3. CASE c \notin cmds
        <4>1. Decided(r, c)  BY <1>5, <2>1, <3>1, <3>3
        <4> QED BY <1>2, <1>4, <2>0, <4>1, StaysDecided
      <3> QED BY <3>2, <3>3
    <2>2. CASE r # proposer
      <3>1. Decided(r, c)  BY <1>1, <1>5, <2>2 DEF TypeOK, ExecInv
      <3> QED BY <1>2, <1>4, <2>0, <3>1, StaysDecided
    <2> QED BY <2>1, <2>2
  <1> QED BY <1>2, <1>3, <1>4, <1>5 DEF ExecInv

(* A command that arrives for the first time runs no callback by itself.   *)
LEMMA ArriveExec ==
  ASSUME Submissions <= 1, TypeOK, AnsweredOnce, ExecInv,
         NEW r \in Receivers, NEW c \in Cmd, Arrive(r, c)
  PROVE  ExecInv'
  <1> DEFINE w == waiting[r] \cup {c}
             n == IF c \in waiting[r] THEN [ran[r] EXCEPT ![c] = @ + 1] ELSE ran[r]
             b == Append(buffer, c)
  <1>1. /\ r \in Correct /\ r \in Replica /\ proposer \in Correct
        /\ Submissions \in Nat
    BY QueueAssumption DEF Correct
  <1>2. /\ waiting[r] \in SUBSET Cmd /\ ran[r] \in [Cmd -> Nat]
        /\ arrived \in [Correct -> [Cmd -> Nat]]
    BY <1>1 DEF TypeOK
  <1>3. c \notin waiting[r]
    <2>1. arrived[r][c] = 0  BY <1>1, <1>2 DEF Arrive
    <2> QED BY <1>1, <1>2, <2>1 DEF AnsweredOnce
  <1>4. w \in SUBSET Cmd /\ n = ran[r]  BY <1>2, <1>3
  <1>5. \A q \in Correct, d \in Cmd : arrived'[q][d] <= Submissions
    <2> TAKE q \in Correct, d \in Cmd
    <2>1. /\ arrived' = [arrived EXCEPT ![r][c] = @ + 1]
          /\ arrived[r][c] < Submissions
      BY DEF Arrive
    <2>2. CASE q = r /\ d = c  BY <1>1, <1>2, <2>1, <2>2
    <2>3. CASE ~(q = r /\ d = c)  BY <1>1, <1>2, <2>1, <2>3 DEF ExecInv
    <2> QED BY <2>2, <2>3
  <1>6. CASE r = proposer /\ Beat(Taken(b), w, n)
    <2> HIDE DEF w, n, b
    <2>1. CASE ~locked /\ QcFinished(voted)
      <3> DEFINE bs == Append(beats, Taken(b))
      <3>1. Propose(Head(bs), Tail(bs), w, n)  BY <1>6, <2>1 DEF Beat
      <3> HIDE DEF bs
      <3>2. \A d \in Cmd : n[d] > 0 => Decided(proposer, d)
        BY <1>1, <1>4, <1>6 DEF ExecInv
      <3> QED BY <1>2, <1>4, <1>5, <3>1, <3>2, ProposeExec
    <2>2. CASE ~(~locked /\ QcFinished(voted))
      <3>1. /\ ran' = [ran EXCEPT ![proposer] = n]
            /\ UNCHANGED << chain, seen >>
        BY <1>6, <2>2 DEF Beat
      <3>2. ran' = ran  BY <1>1, <1>4, <1>6, <3>1 DEF TypeOK
      <3> QED BY <1>5, <3>1, <3>2 DEF ExecInv, Decided
    <2> QED BY <2>1, <2>2
  <1>7. CASE ran' = [ran EXCEPT ![r] = n] /\ UNCHANGED << chain, seen >>
    <2>1. ran' = ran  BY <1>1, <1>4, <1>7 DEF TypeOK
    <2> QED BY <1>5, <1>7, <2>1 DEF ExecInv, Decided
  <1> HIDE DEF w, n, b
  <1> QED BY <1>6, <1>7 DEF Arrive, w, n, b

(* The next block at a following replica. *)
LEMMA ReceiveProposalExec ==
  ASSUME TypeOK, ExecInv, NEW r \in Replica, ReceiveProposal(r)
  PROVE  ExecInv'
  <1> DEFINE h == seen[r] + 1
             cmds == DecidedBy(h, chain)
  <1>1. /\ r # proposer /\ h <= Len(chain)
        /\ seen' = [seen EXCEPT ![r] = h]
        /\ UNCHANGED << arrived, chain >>
    BY DEF ReceiveProposal
  <1>2. /\ h \in Nat /\ Len(chain) \in Nat
        /\ seen'[r] = h /\ \A q \in Replica \ {r} : seen'[q] = seen[q]
        /\ \A q \in Replica : seen'[q] \in Nat /\ seen'[q] >= seen[q]
    BY <1>1 DEF TypeOK
  <1>3. /\ seen'[proposer] = Len(chain') /\ \A q \in Replica : seen'[q] <= Len(chain')
    BY <1>1, <1>2, ProposerIsReplica DEF ExecInv
  <1>4. ASSUME NEW q \in Correct, NEW c \in Cmd, ran'[q][c] > 0
        PROVE  Decided(q, c)'
    <2>0. q \in Replica  BY DEF Correct
    <2>1. CASE q = r /\ c \in cmds
      BY <1>1, <1>2, <2>1, DecidesHandled
    <2>2. CASE ~(q = r /\ c \in cmds)
      <3>1. ran'[q][c] = ran[q][c]
        <4>1. CASE r \in Correct
          <5>1. ran' = [ran EXCEPT ![r] = RunDecided(ran[r], waiting[r], cmds)]
            BY <4>1 DEF ReceiveProposal
          <5> HIDE DEF cmds
          <5> QED BY <2>2, <4>1, <5>1 DEF TypeOK, RunDecided
        <4>2. CASE r \notin Correct  BY <4>2 DEF ReceiveProposal
        <4> QED BY <4>1, <4>2
      <3>2. Decided(q, c)  BY <1>4, <3>1 DEF ExecInv
      <3> QED BY <1>1, <1>2, <2>0, <3>2, StaysDecided
    <2> QED BY <2>1, <2>2
  <1> QED BY <1>1, <1>3, <1>4 DEF ExecInv

(* A vote, which may let the proposer propose. *)
LEMMA ReceiveVoteExec ==
  ASSUME TypeOK, ExecInv, NEW r \in Replica, ReceiveVote(r)
  PROVE  ExecInv'
  <1>1. arrived' = arrived  BY DEF ReceiveVote
  <1>2. CASE Propose(slot, beats, waiting[proposer], ran[proposer])
    <2>1. waiting[proposer] \in SUBSET Cmd /\ ran[proposer] \in [Cmd -> Nat]
      BY ProposerIsReplica DEF TypeOK
    <2>2. \A c \in Cmd : ran[proposer][c] > 0 => Decided(proposer, c)
      BY ProposerIsReplica DEF ExecInv
    <2>3. \A q \in Correct, c \in Cmd : arrived'[q][c] <= Submissions
      BY <1>1 DEF ExecInv
    <2> QED BY <1>2, <2>1, <2>2, <2>3, ProposeExec
  <1>3. CASE UNCHANGED << ran, chain, seen >>
    BY <1>1, <1>3 DEF ExecInv, Decided
  <1> QED BY <1>2, <1>3 DEF ReceiveVote, paceVars

(* A callback that ran did so for a block that decides the command, and it *)
(* ran once, when each client sends a command once.                        *)
LEMMA RanWasDecided ==
  ASSUME Submissions <= 1, TypeOK, AnsweredOnce, ExecInv
  PROVE  ExecutedAreDecided
  <1> SUFFICES ASSUME NEW r \in Correct, NEW c \in Cmd
               PROVE  ran[r][c] <= Cardinality({i \in 1 .. seen[r] - CommitLag : c \in ToSet(chain[i])})
    BY DEF ExecutedAreDecided
  <1> DEFINE S == {i \in 1 .. seen[r] - CommitLag : c \in ToSet(chain[i])}
  <1>1. IsFiniteSet(S) /\ Cardinality(S) \in Nat
    <2>1. seen[r] - CommitLag \in Int  BY CommitLagNat DEF TypeOK, Correct
    <2>2. IsFiniteSet(1 .. seen[r] - CommitLag)  BY <2>1, FS_Interval
    <2>3. S \subseteq 1 .. seen[r] - CommitLag  OBVIOUS
    <2> HIDE DEF S
    <2> QED BY <2>2, <2>3, FS_Subset, FS_CardinalityType
  <1>2. ran[r][c] \in Nat /\ ran[r][c] <= 1
    <2>1. /\ ran[r][c] \in Nat /\ arrived[r][c] \in Nat /\ Submissions \in Nat
          /\ arrived[r][c] <= Submissions
      BY QueueAssumption DEF TypeOK, ExecInv
    <2>2. arrived[r][c] = ran[r][c] + (IF c \in waiting[r] THEN 1 ELSE 0)
      BY DEF AnsweredOnce
    <2> QED BY <2>1, <2>2
  <1>3. CASE ran[r][c] = 0  BY <1>1, <1>3
  <1>4. CASE ran[r][c] > 0
    <2>1. S # {}  BY <1>4 DEF ExecInv, Decided
    <2> HIDE DEF S
    <2>2. Cardinality(S) # 0  BY <1>1, <2>1, FS_EmptySet
    <2> QED BY <1>1, <1>2, <2>2 DEF S
  <1> QED BY <1>2, <1>3, <1>4

(* With each command sent once to a replica, the replica executes only     *)
(* what is decided there, and not more often than it is decided.  A second *)
(* copy of a command that waits would run the callback at once.            *)
THEOREM ExecutesTheDecided ==
  ASSUME Submissions <= 1
  PROVE  Spec => []ExecutedAreDecided
  <1>1. Init => ExecInv
    <2> SUFFICES ASSUME Init PROVE ExecInv  OBVIOUS
    <2>1. seen[proposer] = 0 /\ Len(chain) = 0  BY ProposerIsReplica DEF Init
    <2> QED BY <2>1, QueueAssumption DEF Init, ExecInv
  <1>2. Inv /\ AnsweredOnce /\ ExecInv /\ [Next]_vars => ExecInv'
    <2> SUFFICES ASSUME Inv, AnsweredOnce, ExecInv, [Next]_vars PROVE ExecInv'
      OBVIOUS
    <2>1. TypeOK  BY DEF Inv
    <2>2. CASE UNCHANGED vars
      BY <2>2 DEF vars, ExecInv, Decided
    <2>3. CASE Next
      BY <2>1, <2>3, ArriveExec, ReceiveProposalExec, ReceiveVoteExec DEF Next
    <2> QED BY <2>2, <2>3
  <1>3. Inv /\ AnsweredOnce /\ ExecInv => ExecutedAreDecided
    BY RanWasDecided DEF Inv
  <1> QED BY <1>1, <1>2, <1>3, InvHolds, EachAnsweredOnce, PTL DEF Spec
------------------------------------------------------------------------------
(***************************************************************************)
(* Counting copies.  Batches only grows at its end, by exactly the batch   *)
(* that leaves the buffer: a beat moves along beats, slot and chain, which *)
(* together keep their order.                                              *)
(***************************************************************************)

(* One more command in a sequence is one more copy of that command. *)
LEMMA PositionsAppend ==
  ASSUME NEW s \in Seq(Cmd), NEW d \in Cmd, NEW c \in Cmd
  PROVE  /\ Cardinality(Positions(c, s)) \in Nat
         /\ Cardinality(Positions(c, Append(s, d)))
              = Cardinality(Positions(c, s)) + (IF d = c THEN 1 ELSE 0)
  <1>1. Len(s) \in Nat /\ DOMAIN s = 1 .. Len(s)  OBVIOUS
  <1>2. Positions(c, s) \subseteq 1 .. Len(s)  BY <1>1 DEF Positions
  <1>3. IsFiniteSet(Positions(c, s)) /\ Cardinality(Positions(c, s)) \in Nat
    <2>1. IsFiniteSet(1 .. Len(s))  BY <1>1, FS_Interval
    <2> QED BY <1>2, <2>1, FS_Subset, FS_CardinalityType
  <1>4. /\ DOMAIN Append(s, d) = 1 .. Len(s) + 1
        /\ Append(s, d)[Len(s) + 1] = d
        /\ \A k \in 1 .. Len(s) : Append(s, d)[k] = s[k]
    BY <1>1
  <1>5. CASE d = c
    <2>1. Positions(c, Append(s, d)) = Positions(c, s) \cup {Len(s) + 1}
      BY <1>1, <1>4, <1>5 DEF Positions
    <2>2. Len(s) + 1 \notin Positions(c, s)  BY <1>1, <1>2
    <2> QED BY <1>3, <1>5, <2>1, <2>2, FS_AddElement
  <1>6. CASE d # c
    <2>1. Positions(c, Append(s, d)) = Positions(c, s)
      BY <1>1, <1>4, <1>6 DEF Positions
    <2> QED BY <1>3, <1>6, <2>1
  <1> QED BY <1>5, <1>6

(* One more batch is as many more copies as are in the batch. *)
LEMMA InBatchesAppend ==
  ASSUME NEW s \in Seq(Batch), NEW b \in Batch, NEW c \in Cmd, IsFiniteSet(InBatches(c, s))
  PROVE  /\ IsFiniteSet(InBatches(c, Append(s, b)))
         /\ Cardinality(InBatches(c, Append(s, b)))
              = Cardinality(InBatches(c, s)) + Cardinality(Positions(c, b))
  <1> DEFINE n == Len(s) + 1
             P == Positions(c, b)
             new == {n} \X P
  <1>1. /\ DOMAIN s = 1 .. Len(s) /\ Len(s) \in Nat
        /\ DOMAIN Append(s, b) = 1 .. n
        /\ Append(s, b)[n] = b
        /\ \A k \in 1 .. Len(s) : Append(s, b)[k] = s[k]
    OBVIOUS
  <1>2. InBatches(c, Append(s, b)) = InBatches(c, s) \cup new
    <2>1. \A p : p \in InBatches(c, Append(s, b))
                <=> \E i \in 1 .. n : p \in {i} \X Positions(c, Append(s, b)[i])
      BY <1>1 DEF InBatches
    <2>2. \A p : p \in InBatches(c, s) <=> \E i \in 1 .. Len(s) : p \in {i} \X Positions(c, s[i])
      BY <1>1 DEF InBatches
    <2>3. \A i : i \in 1 .. n <=> i \in 1 .. Len(s) \/ i = n  BY <1>1
    <2>4. \A i \in 1 .. Len(s) : Positions(c, Append(s, b)[i]) = Positions(c, s[i])
      BY <1>1
    <2>5. Positions(c, Append(s, b)[n]) = P  BY <1>1
    <2> HIDE DEF n, P
    <2>6. \A p : p \in InBatches(c, Append(s, b)) <=> p \in InBatches(c, s) \/ p \in {n} \X P
      BY <2>1, <2>2, <2>3, <2>4, <2>5
    <2> QED BY <2>6
  <1>3. InBatches(c, s) \cap new = {}
    <2>1. \A p \in InBatches(c, s) : p[1] \in 1 .. Len(s)  BY <1>1 DEF InBatches
    <2>2. n \notin 1 .. Len(s)  BY <1>1
    <2> QED BY <2>1, <2>2
  <1>4. IsFiniteSet(P)
    <2>1. b \in Seq(Cmd)  BY DEF Batch
    <2>2. DOMAIN b = 1 .. Len(b) /\ Len(b) \in Nat  BY <2>1
    <2>3. P \subseteq 1 .. Len(b)  BY <2>2 DEF Positions
    <2>4. IsFiniteSet(1 .. Len(b))  BY <2>2, FS_Interval
    <2> QED BY <2>3, <2>4, FS_Subset
  <1>5. IsFiniteSet(new) /\ Cardinality(new) = Cardinality(P)
    <2> DEFINE f == [k \in P |-> << n, k >>]
    <2> HIDE DEF P, n
    <2>1. f \in Bijection(P, {n} \X P)
      <3>1. f \in [P -> {n} \X P]  OBVIOUS
      <3>2. \A j, k \in P : f[j] = f[k] => j = k  OBVIOUS
      <3>3. \A p \in {n} \X P : p[2] \in P /\ f[p[2]] = p  OBVIOUS
      <3> HIDE DEF f
      <3> QED BY <3>1, <3>2, <3>3 DEF Bijection, Injection, Surjection, IsInjective
    <2> HIDE DEF f
    <2> QED BY <1>4, <2>1, FS_Bijection DEF ExistsBijection
  <1> HIDE DEF new, P
  <1>6. /\ IsFiniteSet(InBatches(c, s) \cup new)
        /\ Cardinality(InBatches(c, s) \cup new)
             = Cardinality(InBatches(c, s)) + Cardinality(new) - Cardinality(InBatches(c, s) \cap new)
    BY <1>5, FS_Union
  <1>7. Cardinality(InBatches(c, s) \cap new) = 0  BY <1>3, FS_EmptySet
  <1>8. Cardinality(InBatches(c, s)) \in Nat /\ Cardinality(new) \in Nat
    BY <1>5, FS_CardinalityType
  <1> QED BY <1>2, <1>5, <1>6, <1>7, <1>8 DEF P

(* Batches is a sequence of batches. *)
LEMMA BatchesType == TypeOK => Batches \in Seq(Batch)
  BY DEF TypeOK, Batches

(* A proposed batch takes its place before the beats that wait. *)
LEMMA ProposeBatches ==
  ASSUME TypeOK, NEW batch \in Batch, NEW bs \in Seq(Batch), NEW w, NEW n,
         Propose(batch, bs, w, n)
  PROVE  Batches' = Append(chain, batch) \o bs
  <1>1. chain \in Seq(Batch) /\ Append(chain, batch) \in Seq(Batch)  BY DEF TypeOK
  <1>2. chain' = Append(chain, batch) /\ ScheduleNext(bs)  BY DEF Propose
  <1>3. CASE bs = << >>
    <2>1. slot' = NoBatch /\ beats' = bs  BY <1>2, <1>3 DEF ScheduleNext
    <2> QED BY <1>2, <2>1 DEF Batches
  <1>4. CASE bs # << >>
    <2>1. slot' = Head(bs) /\ beats' = Tail(bs)  BY <1>2, <1>4 DEF ScheduleNext
    <2>2. Head(bs) \in Batch /\ Head(bs) # NoBatch  BY <1>4 DEF Batch
    <2>3. Batches' = Append(Append(chain, batch), Head(bs)) \o Tail(bs)
      BY <1>2, <2>1, <2>2 DEF Batches
    <2>4. Append(Append(chain, batch), Head(bs)) \o Tail(bs) = Append(chain, batch) \o bs
      BY <1>1, <1>4, <2>2
    <2> QED BY <2>3, <2>4
  <1> QED BY <1>3, <1>4

(* beat() adds its batch behind all others. *)
LEMMA BeatBatches ==
  ASSUME Inv, NEW batch \in Batch, NEW w, NEW n, Beat(batch, w, n)
  PROVE  Batches' = Append(Batches, batch)
  <1> DEFINE bs == Append(beats, batch)
  <1>1. TypeOK /\ chain \in Seq(Batch) /\ beats \in Seq(Batch) /\ bs \in Seq(Batch)
    BY DEF Inv, TypeOK
  <1>2. ~locked => slot = NoBatch /\ beats = << >>
    BY DEF Inv, NoBeatForgotten
  <1>3. CASE ~locked
    <2>1. Batches = chain /\ bs = << batch >>
      BY <1>1, <1>2, <1>3 DEF Batches
    <2>2. CASE QcFinished(voted)
      <3>1. Head(bs) = batch /\ Tail(bs) = << >> /\ << >> \in Seq(Batch)  BY <2>1
      <3>2. Propose(batch, << >>, w, n)  BY <1>3, <2>2, <3>1 DEF Beat
      <3>3. Batches' = Append(chain, batch) \o << >>
        BY <1>1, <3>1, <3>2, ProposeBatches
      <3> QED BY <1>1, <2>1, <3>3
    <2>3. CASE ~QcFinished(voted)
      <3>1. ScheduleNext(bs) /\ chain' = chain  BY <1>3, <2>3 DEF Beat
      <3>2. slot' = batch /\ beats' = << >>
        BY <2>1, <3>1 DEF ScheduleNext
      <3>3. batch # NoBatch  BY DEF Batch
      <3> QED BY <1>1, <2>1, <3>1, <3>2, <3>3 DEF Batches
    <2> QED BY <2>2, <2>3
  <1>4. CASE locked
    <2>1. beats' = Append(beats, batch) /\ slot' = slot /\ chain' = chain
      BY <1>4 DEF Beat
    <2>2. CASE slot = NoBatch  BY <1>1, <2>1, <2>2 DEF Batches
    <2>3. CASE slot # NoBatch
      <3>1. slot \in Batch  BY <1>1, <2>3 DEF TypeOK
      <3>2. Append(chain, slot) \in Seq(Batch)  BY <1>1, <3>1
      <3> QED BY <1>1, <2>1, <2>3, <3>2 DEF Batches
    <2> QED BY <2>2, <2>3
  <1> QED BY <1>3, <1>4

(* What is to be kept of NoCommandLost: the copies are finitely many. *)
CopiesInv ==
  \A c \in Cmd : /\ IsFiniteSet(InBatches(c, Batches))
                 /\ Copies(c) = arrived[proposer][c]

(* A batch is taken when it is full, and then all of the buffer goes.      *)
LEMMA TakesAll ==
  ASSUME TypeOK, NEW c \in Cmd, Len(Append(buffer, c)) >= BlkSize
  PROVE  /\ Append(buffer, c) \in Batch
         /\ Taken(Append(buffer, c)) = Append(buffer, c)
         /\ Left(Append(buffer, c)) = << >>
  <1> DEFINE b == Append(buffer, c)
  <1>1. buffer \in Seq(Cmd) /\ Len(buffer) < BlkSize /\ BlkSize \in Nat
    BY QueueAssumption DEF TypeOK
  <1>2. b \in Seq(Cmd) /\ Len(b) = Len(buffer) + 1 /\ b # << >>
    BY <1>1
  <1>3. Len(b) = BlkSize  BY <1>1, <1>2
  <1> HIDE DEF b
  <1>4. SubSeq(b, 1, BlkSize) = b  BY <1>2, <1>3
  <1>5. SubSeq(b, BlkSize + 1, BlkSize) = << >>  BY <1>1, <1>2
  <1> QED BY <1>2, <1>3, <1>4, <1>5 DEF b, Taken, Left, Batch, NoBatch

(* Taking a command off cmd_pending adds one copy of it, and none of the   *)
(* others, whether it completes a batch or not.                            *)
LEMMA ArriveCopies ==
  ASSUME Inv, CopiesInv, NEW r \in Receivers, NEW c \in Cmd, Arrive(r, c)
  PROVE  CopiesInv'
  <1> DEFINE b == Append(buffer, c)
  <1>1. TypeOK /\ r \in Correct /\ proposer \in Correct
    BY QueueAssumption DEF Inv
  <1>2. buffer \in Seq(Cmd) /\ Batches \in Seq(Batch)
    BY <1>1, BatchesType DEF TypeOK
  <1>3. arrived' = [arrived EXCEPT ![r][c] = @ + 1]  BY DEF Arrive
  <1>4. \A d \in Cmd : arrived'[proposer][d]
          = arrived[proposer][d] + (IF r = proposer /\ d = c THEN 1 ELSE 0)
    BY <1>1, <1>3 DEF TypeOK
  <1>5. \A d \in Cmd : /\ arrived[proposer][d] \in Nat
                       /\ IsFiniteSet(InBatches(d, Batches))
                       /\ Cardinality(InBatches(d, Batches)) \in Nat
                       /\ Cardinality(InBatches(d, Batches)) + Cardinality(Positions(d, buffer))
                            = arrived[proposer][d]
    BY <1>1, FS_CardinalityType DEF CopiesInv, Copies, TypeOK
  <1>6. \A d \in Cmd : /\ Cardinality(Positions(d, buffer)) \in Nat
                       /\ Cardinality(Positions(d, b))
                            = Cardinality(Positions(d, buffer)) + (IF d = c THEN 1 ELSE 0)
    BY <1>2, PositionsAppend
  <1>7. CASE r = proposer /\ Len(b) >= BlkSize
    <2>1. b \in Batch /\ Taken(b) = b /\ Left(b) = << >>
      BY <1>1, <1>7, TakesAll
    <2>0. ~(r # proposer \/ Len(b) < BlkSize)
      <3>1. Len(b) \in Nat /\ BlkSize \in Nat  BY <1>2, QueueAssumption
      <3> QED BY <1>7, <3>1
    <2> DEFINE w == waiting[r] \cup {c}
               n == IF c \in waiting[r] THEN [ran[r] EXCEPT ![c] = @ + 1] ELSE ran[r]
    <2>2. Beat(Taken(b), w, n) /\ buffer' = Left(b)  BY <2>0 DEF Arrive
    <2>3. buffer' = Left(b)  BY <2>2
    <2> HIDE DEF w, n
    <2> HIDE DEF b
    <2>4. Batches' = Append(Batches, b)
      BY <2>1, <2>2, BeatBatches
    <2>5. \A d \in Cmd : Positions(d, << >>) = {}  BY DEF Positions
    <2>6. Cardinality({}) = 0  BY FS_EmptySet
    <2> SUFFICES ASSUME NEW d \in Cmd
                 PROVE  /\ IsFiniteSet(InBatches(d, Batches'))
                        /\ Cardinality(InBatches(d, Batches')) + Cardinality(Positions(d, buffer'))
                             = arrived'[proposer][d]
      BY DEF CopiesInv, Copies
    <2>7. /\ IsFiniteSet(InBatches(d, Append(Batches, b)))
          /\ Cardinality(InBatches(d, Append(Batches, b)))
               = Cardinality(InBatches(d, Batches)) + Cardinality(Positions(d, b))
      BY <1>2, <1>5, <2>1, InBatchesAppend
    <2>8. arrived'[proposer][d] = arrived[proposer][d] + (IF d = c THEN 1 ELSE 0)
      BY <1>4, <1>7
    <2>9. Cardinality(Positions(d, buffer')) = 0  BY <2>1, <2>3, <2>5, <2>6
    <2> QED BY <1>5, <1>6, <2>4, <2>7, <2>8, <2>9
  <1>8. CASE ~(r = proposer /\ Len(b) >= BlkSize)
    <2>1. /\ buffer' = IF r = proposer THEN b ELSE buffer
          /\ UNCHANGED << beats, slot, chain >>
      BY <1>8 DEF Arrive, paceVars
    <2>2. Batches' = Batches  BY <2>1 DEF Batches
    <2> HIDE DEF b
    <2> SUFFICES ASSUME NEW d \in Cmd
                 PROVE  /\ IsFiniteSet(InBatches(d, Batches'))
                        /\ Cardinality(InBatches(d, Batches')) + Cardinality(Positions(d, buffer'))
                             = arrived'[proposer][d]
      BY DEF CopiesInv, Copies
    <2>3. Cardinality(Positions(d, buffer'))
            = Cardinality(Positions(d, buffer)) + (IF r = proposer /\ d = c THEN 1 ELSE 0)
      BY <1>6, <2>1
    <2>4. arrived'[proposer][d]
            = arrived[proposer][d] + (IF r = proposer /\ d = c THEN 1 ELSE 0)
      BY <1>4
    <2> QED BY <1>5, <1>6, <2>2, <2>3, <2>4
  <1> QED BY <1>7, <1>8

(* A certificate moves the waiting batch into the chain, and no other      *)
(* handler touches the batches.                                            *)
LEMMA ReceiveVoteCopies ==
  ASSUME Inv, NEW r \in Replica, ReceiveVote(r)
  PROVE  Batches' = Batches /\ buffer' = buffer /\ arrived' = arrived
  <1>1. TypeOK /\ chain \in Seq(Batch) /\ beats \in Seq(Batch)
    BY DEF Inv, TypeOK
  <1>2. buffer' = buffer /\ arrived' = arrived  BY DEF ReceiveVote
  <1>3. CASE QcFinished(voted \cup {r}) /\ slot # NoBatch
    <2>1. Propose(slot, beats, waiting[proposer], ran[proposer])
      BY <1>3 DEF ReceiveVote
    <2>2. slot \in Batch  BY <1>1, <1>3 DEF TypeOK
    <2>3. Batches' = Append(chain, slot) \o beats
      BY <1>1, <2>1, <2>2, ProposeBatches
    <2> QED BY <1>2, <1>3, <2>3 DEF Batches
  <1>4. CASE ~(QcFinished(voted \cup {r}) /\ slot # NoBatch)
    <2>1. UNCHANGED << beats, slot, chain >>
      BY <1>4 DEF ReceiveVote, paceVars
    <2> QED BY <1>2, <2>1 DEF Batches
  <1> QED BY <1>3, <1>4

(* Every copy of a command the proposer took off cmd_pending is in exactly *)
(* one place: the buffer, a beat that waits, or a block.                   *)
THEOREM KeepsCommands == Spec => []NoCommandLost
  <1>1. Init => CopiesInv
    <2> SUFFICES ASSUME Init, NEW c \in Cmd
                 PROVE  /\ IsFiniteSet(InBatches(c, Batches))
                        /\ Copies(c) = arrived[proposer][c]
      BY DEF CopiesInv
    <2>1. Batches = << >> /\ buffer = << >>
      BY DEF Init, Batches
    <2>2. InBatches(c, << >>) = {} /\ Positions(c, << >>) = {}
      BY DEF InBatches, Positions
    <2>3. IsFiniteSet({}) /\ Cardinality({}) = 0  BY FS_EmptySet
    <2>4. arrived[proposer][c] = 0  BY QueueAssumption DEF Init
    <2>5. IsFiniteSet(InBatches(c, Batches))  BY <2>1, <2>2, <2>3
    <2>6. /\ Cardinality(InBatches(c, Batches)) = 0
          /\ Cardinality(Positions(c, buffer)) = 0
      BY <2>1, <2>2, <2>3
    <2>7. Copies(c) = 0  BY <2>6 DEF Copies
    <2> QED BY <2>4, <2>5, <2>7
  <1>2. Inv /\ CopiesInv /\ [Next]_vars => CopiesInv'
    <2> SUFFICES ASSUME Inv, CopiesInv, [Next]_vars PROVE CopiesInv'
      OBVIOUS
    <2>1. ASSUME NEW r \in Receivers, NEW c \in Cmd, Arrive(r, c) PROVE CopiesInv'
      BY <2>1, ArriveCopies
    <2>2. CASE Batches' = Batches /\ buffer' = buffer /\ arrived' = arrived
      BY <2>2 DEF CopiesInv, Copies
    <2>3. ASSUME NEW r \in Replica, ReceiveProposal(r)
          PROVE  Batches' = Batches /\ buffer' = buffer /\ arrived' = arrived
      BY <2>3 DEF ReceiveProposal, paceVars, Batches
    <2>4. CASE UNCHANGED vars
      <3>1. Batches' = Batches /\ buffer' = buffer /\ arrived' = arrived
        BY <2>4 DEF vars, Batches
      <3> QED BY <3>1, <2>2
    <2> QED BY <2>1, <2>2, <2>3, <2>4, ReceiveVoteCopies DEF Next
  <1>3. CopiesInv => NoCommandLost  BY DEF CopiesInv, NoCommandLost
  <1> QED BY <1>1, <1>2, <1>3, InvHolds, PTL DEF Spec
==============================================================================
