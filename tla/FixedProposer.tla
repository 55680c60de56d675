---------------------------- MODULE FixedProposer ----------------------------
(***************************************************************************)
(* The command queues of the replicas (hotstuff.cpp, hotstuff_app.cpp) and *)
(* the pacing of a fixed proposer, PMWaitQC in PaceMakerDummyFixed         *)
(* (liveness.h): commands of clients are batched, a batch waits for a beat,*)
(* a beat waits for the certificate of the last block, and decided commands*)
(* run the callbacks that execute them and answer the client.              *)
(*                                                                         *)
(* The proposer builds one chain, each block carrying its parent's         *)
(* certificate, so a block is decided CommitLag blocks later.  Proposals   *)
(* come over one connection, in order.  A faulty replica may be silent.    *)
(***************************************************************************)
EXTENDS ReplicaConfig, SequencesExt

CONSTANTS proposer,     \* PaceMakerDummyFixed::proposer
          Cmd,          \* commands, by their hash
          BlkSize,      \* HotStuffBase::blk_size
          TwoStep,      \* HOTSTUFF_TWO_STEP is defined
          Receivers,    \* bound: the replicas at which commands arrive
          Submissions   \* bound: how often a command is sent

VARIABLES arrived,      \* arrived[r][c]: copies of c taken off r's cmd_pending
          waiting,      \* waiting[r]: decision_waiting
          ran,          \* ran[r][c]: how often r ran the callback of c
          buffer,       \* cmd_pending_buffer
          beats,        \* the batches whose promises are in pending_beats
          slot,         \* the batch that waits for pm_qc_finish, if any
          locked,       \* PMWaitQC::locked
          chain,        \* the commands of the proposed blocks
          voted,        \* Block::voted of the last proposed block
          seen          \* seen[r]: height of the last proposal r has handled

queueVars == << arrived, waiting, ran >>
paceVars == << beats, slot, locked >>
vars == << arrived, waiting, ran, buffer, beats, slot, locked, chain, voted, seen >>

ASSUME QueueAssumption ==
  /\ proposer \in Correct
  /\ BlkSize \in Nat \ {0}
  /\ TwoStep \in BOOLEAN
  /\ Receivers \subseteq Correct
  /\ Submissions \in Nat
  /\ nmajority > 1    \* a replica's own vote is no certificate

CommitLag == IF TwoStep THEN 2 ELSE 3

NoBatch == << >>
Batches == IF slot = NoBatch THEN chain \o beats ELSE Append(chain, slot) \o beats

(* async_qc_finish: the block with the votes v has its certificate. *)
QcFinished(v) == Cardinality(v) >= nmajority

Init == /\ arrived = [r \in Correct |-> [c \in Cmd |-> 0]]
        /\ waiting = [r \in Correct |-> {}]
        /\ ran = [r \in Correct |-> [c \in Cmd |-> 0]]
        /\ buffer = << >>
        /\ beats = << >>
        /\ slot = NoBatch
        /\ locked = FALSE
        /\ chain = << >>
        /\ voted = Replica      \* add_replica lets everybody vote for genesis
        /\ seen = [r \in Replica |-> 0]
------------------------------------------------------------------------------
(* Wrong on purpose: the commands of the next block already. *)
DecidedByNext(h, blocks) ==
  IF h >= CommitLag THEN ToSet(blocks[h - CommitLag + 1]) ELSE {}

(* The commands that become decided with the proposal of height h. *)
DecidedBy(h, blocks) == IF h > CommitLag THEN ToSet(blocks[h - CommitLag]) ELSE {}

(* Wrong on purpose: the entry of decision_waiting is kept. *)
StillWaitingKept(w, cmds) == w

(* do_decide for every command in cmds: a waiting one is taken out and its *)
(* callback, which executes it and answers the client, is run.             *)
StillWaiting(w, cmds) == w \ cmds
RunDecided(n, w, cmds) == [c \in Cmd |-> IF c \in w \cap cmds THEN n[c] + 1 ELSE n[c]]

(* Wrong on purpose: a proposal does not schedule the next beat. *)
ScheduleNothing(bs) == beats' = bs /\ slot' = NoBatch /\ locked' = FALSE

(* schedule_next when the pacemaker is not locked and the last block has   *)
(* no certificate yet.                                                     *)
ScheduleNext(bs) ==
  IF bs = << >>
  THEN beats' = bs /\ slot' = NoBatch /\ locked' = FALSE
  ELSE beats' = Tail(bs) /\ slot' = Head(bs) /\ locked' = TRUE

(* on_propose of a batch while the beats bs are pending, at a proposer     *)
(* with w waiting and n run: update() decides a block, the proposer votes, *)
(* and update_last_proposed unlocks and schedules the next beat.           *)
Propose(batch, bs, w, n) ==
  LET h == Len(chain) + 1
      cmds == DecidedBy(h, chain)
  IN
  /\ chain' = Append(chain, batch)
  /\ voted' = {proposer}
  /\ seen' = [seen EXCEPT ![proposer] = h]
  /\ waiting' = [waiting EXCEPT ![proposer] = StillWaiting(w, cmds)]
  /\ ran' = [ran EXCEPT ![proposer] = RunDecided(n, w, cmds)]
  /\ ScheduleNext(bs)

(* Wrong on purpose: beat() waits for no certificate, or does not look at  *)
(* locked.                                                                 *)
BeatAtOnce(batch, w, n) == Propose(batch, beats, w, n)
BeatUnlocked(batch, w, n) ==
  IF QcFinished(voted) THEN Propose(batch, beats, w, n)
  ELSE /\ beats' = beats /\ slot' = batch /\ locked' = TRUE
       /\ waiting' = [waiting EXCEPT ![proposer] = w]
       /\ ran' = [ran EXCEPT ![proposer] = n]
       /\ UNCHANGED << chain, voted, seen >>

(* beat(), and the promise it returns being resolved at once when nothing  *)
(* is to be waited for.                                                    *)
Beat(batch, w, n) ==
  LET bs == Append(beats, batch) IN
  IF ~locked /\ QcFinished(voted)
  THEN Propose(Head(bs), Tail(bs), w, n)
  ELSE /\ IF locked THEN beats' = bs /\ UNCHANGED << slot, locked >>
          ELSE ScheduleNext(bs)
       /\ waiting' = [waiting EXCEPT ![proposer] = w]
       /\ ran' = [ran EXCEPT ![proposer] = n]
       /\ UNCHANGED << chain, voted, seen >>

(* Wrong on purpose: the batch is copied from the buffer. *)
LeftInBuffer(b) == b

(* The batch that the proposer takes from the buffer b, and what it leaves.*)
Taken(b) == SubSeq(b, 1, BlkSize)
Left(b) == SubSeq(b, BlkSize + 1, Len(b))

(* The handler of cmd_pending for one command: a command that is already   *)
(* waiting has its callback run at once (a Finality with decision 0), the  *)
(* proposer buffers it in either case.                                     *)
Arrive(r, c) ==
  LET w == waiting[r] \cup {c}
      n == IF c \in waiting[r] THEN [ran[r] EXCEPT ![c] = @ + 1] ELSE ran[r]
      b == Append(buffer, c)
  IN
  /\ arrived[r][c] < Submissions
  /\ arrived' = [arrived EXCEPT ![r][c] = @ + 1]
  /\ \/ /\ r = proposer
        /\ Len(b) >= BlkSize
        /\ buffer' = Left(b)
        /\ Beat(Taken(b), w, n)
     \/ /\ r # proposer \/ Len(b) < BlkSize
        /\ buffer' = IF r = proposer THEN b ELSE buffer
        /\ waiting' = [waiting EXCEPT ![r] = w]
        /\ ran' = [ran EXCEPT ![r] = n]
        /\ UNCHANGED << paceVars, chain, voted, seen >>

(* on_receive_proposal of the next block at another replica, which votes. *)
ReceiveProposal(r) ==
  LET h == seen[r] + 1
      cmds == DecidedBy(h, chain)
  IN
  /\ r # proposer
  /\ h <= Len(chain)
  /\ seen' = [seen EXCEPT ![r] = h]
  /\ IF r \in Correct
     THEN /\ waiting' = [waiting EXCEPT ![r] = StillWaiting(@, cmds)]
          /\ ran' = [ran EXCEPT ![r] = RunDecided(@, waiting[r], cmds)]
     ELSE UNCHANGED << waiting, ran >>
  /\ UNCHANGED << arrived, buffer, paceVars, chain, voted >>

(* on_receive_vote at the proposer for its last block.  The vote that      *)
(* completes the certificate resolves pm_qc_finish, and with it the beat.  *)
ReceiveVote(r) ==
  LET v == voted \cup {r} IN
  /\ r \notin voted
  /\ seen[r] = Len(chain)
  /\ ~QcFinished(voted)
  /\ UNCHANGED << arrived, buffer >>
  /\ IF QcFinished(v) /\ slot # NoBatch
     THEN Propose(slot, beats, waiting[proposer], ran[proposer])
     ELSE /\ voted' = v
          /\ UNCHANGED << waiting, ran, paceVars, chain, seen >>

Next == \/ \E r \in Receivers, c \in Cmd : Arrive(r, c)
        \/ \E r \in Replica : ReceiveProposal(r) \/ ReceiveVote(r)

(* Correct replicas get each other's messages and handle them. *)
Fairness == \A r \in Correct : WF_vars(ReceiveProposal(r)) /\ WF_vars(ReceiveVote(r))

Spec == Init /\ [][Next]_vars /\ Fairness
------------------------------------------------------------------------------
Batch == Seq(Cmd) \ {NoBatch}

(* Types of the state. *)
TypeOK == /\ arrived \in [Correct -> [Cmd -> Nat]]
          /\ waiting \in [Correct -> SUBSET Cmd]
          /\ ran \in [Correct -> [Cmd -> Nat]]
          /\ buffer \in Seq(Cmd) /\ Len(buffer) < BlkSize
          /\ beats \in Seq(Batch)
          /\ slot \in Batch \cup {NoBatch}
          /\ locked \in BOOLEAN
          /\ chain \in Seq(Batch)
          /\ voted \in SUBSET Replica
          /\ seen \in [Replica -> Nat]

(* No beat is forgotten: pending beats wait behind one that waits for a    *)
(* certificate, and that certificate is still to come.                     *)
NoBeatForgotten ==
  /\ beats # << >> => locked
  /\ locked <=> slot # NoBatch
  /\ locked => ~QcFinished(voted)

(* Every copy of a command that the proposer took off its queue is in      *)
(* exactly one place: the buffer, a beat, or a block.                      *)
Positions(c, s) == {k \in DOMAIN s : s[k] = c}
InBatches(c, s) == UNION {{i} \X Positions(c, s[i]) : i \in DOMAIN s}
Copies(c) == Cardinality(InBatches(c, Batches)) + Cardinality(Positions(c, buffer))
NoCommandLost == \A c \in Cmd : Copies(c) = arrived[proposer][c]

(* The comment on PMWaitQC: it beats only when the last block it proposed  *)
(* gets its certificate.                                                   *)
BeatAfterQc ==
  [][chain' # chain => \E r \in Replica : QcFinished(voted \cup {r})]_vars

(* Each replica executes a transaction only once it is decided, and not    *)
(* more often than blocks it has decided contain it.                       *)
ExecutedAreDecided ==
  \A r \in Correct, c \in Cmd :
    ran[r][c] <= Cardinality({i \in 1 .. seen[r] - CommitLag : c \in ToSet(chain[i])})

(* A command sent once is waiting or was executed, never both or neither.  *)
AnsweredOnce ==
  \A r \in Correct, c \in Cmd :
    arrived[r][c] = ran[r][c] + (IF c \in waiting[r] THEN 1 ELSE 0)

(* A waiting command is executed by every correct replica once CommitLag   *)
(* more batches have followed it.                                          *)
Followed(c, r) ==
  /\ c \in waiting[r]
  /\ \E i \in 1 .. Len(Batches) - CommitLag :
       i > seen[r] - CommitLag /\ c \in ToSet(Batches[i])
EventuallyExecuted ==
  \A r \in Correct, c \in Cmd : Followed(c, r) ~> ran[r][c] > 0
==============================================================================
