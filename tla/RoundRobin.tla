----------------------------- MODULE RoundRobin ------------------------------
(***************************************************************************)
(* PMRoundRobinProposer in PaceMakerRR (liveness.h) at one replica, with   *)
(* the parts of the replica that call it and that it calls: commands, own  *)
(* proposals, proposals of others, certificates, and decided blocks.       *)
(*                                                                         *)
(* The other replicas are the environment: any of them may propose at any  *)
(* time, own blocks may get their certificates at any time or never, and   *)
(* a timer may fire as soon as it is set.  All blocks are on one chain.  A *)
(* command stands for a whole batch of commands.                           *)
(*                                                                         *)
(* Handlers call each other, so their effects are operators from a state   *)
(* of the replica to the next one, applied in the order of the calls.      *)
(***************************************************************************)
EXTENDS Naturals, SequencesExt

CONSTANTS nreplicas,    \* ReplicaConfig::nreplicas
          Me,           \* the replica that is modelled
          Cmd,          \* batches of commands
          TwoStep,      \* HOTSTUFF_TWO_STEP is defined
          Others,       \* bound: the other replicas that propose
          OtherCmds,    \* bound: the sets of commands that they put into a block
          MaxHeight,    \* bound: height of the chain
          MaxTurns      \* bound: number of rotations

VARIABLES st,           \* the state of the replica, a record
          arrived,      \* the commands that clients have sent to it
          turns         \* how often rotate() ran

vars == << st, arrived, turns >>

Replica == 0 .. nreplicas - 1

ASSUME RoundRobinAssumption ==
  /\ nreplicas \in Nat \ {0}
  /\ Me \in Replica
  /\ TwoStep \in BOOLEAN
  /\ Others \subseteq Replica \ {Me}
  /\ OtherCmds \subseteq SUBSET Cmd
  /\ MaxHeight \in Nat /\ MaxTurns \in Nat

NoBlock == 0            \* prop_blk without a block; also the height of genesis
NoPromise == 0          \* a promise that is not pending, which reject() leaves alone
LastRound == IF TwoStep THEN 2 ELSE 3

(* The callbacks on certificates: the beat of a command, or the next round *)
(* of do_new_consensus.                                                    *)
BeatOf(c) == [kind |-> "beat", cmd |-> c]
Round(x) == [kind |-> "round", x |-> x]
Callback == {BeatOf(c) : c \in Cmd} \cup {Round(x) : x \in 0 .. LastRound}

QcOf(s, h) == IF h = 0 THEN 0 ELSE s.chain[h].qc
------------------------------------------------------------------------------
(* The next block of the chain, on whose certificate nothing waits yet. *)
AddBlock(s, blk) == [s EXCEPT !.chain = Append(@, blk), !.onQc = Append(@, << >>)]

(* async_qc_finish(h).then(cb) *)
Await(s, h, cb) == [s EXCEPT !.onQc[h] = Append(@, cb)]

(* reject() of the promise for the certificate of block h, which the beat  *)
(* and the round that wait for this block share.                           *)
Reject(s, h) ==
  [s EXCEPT !.onQc = [i \in DOMAIN s.onQc |-> IF i = h THEN << >> ELSE s.onQc[i]]]

(* The promises pm_qc_finish and pm_qc_manual are both rejected. *)
RejectBoth(s) ==
  [Reject(Reject(s, s.qcFinish), s.qcManual)
     EXCEPT !.qcFinish = NoPromise, !.qcManual = NoPromise]

(* proposer_schedule_next while the last block has no certificate. *)
ScheduleNext(s) ==
  IF s.beats = << >> \/ s.locked THEN s
  ELSE Await([Reject(s, s.qcFinish) EXCEPT !.beats = Tail(s.beats),
                                           !.qcFinish = s.lastProposed,
                                           !.locked = TRUE],
             s.lastProposed, BeatOf(Head(s.beats)))

(* Wrong on purpose: the new leader does not watch its proposals. *)
StopRotateDeaf(s) ==
  [RejectBoth(s) EXCEPT !.timer = "none",
                        !.rotating = FALSE,
                        !.locked = FALSE,
                        !.lastProposed = 0,
                        !.calls = IF s.proposer = Me THEN @ + 1 ELSE @]

(* stop_rotate() *)
StopRotate(s) ==
  [RejectBoth(s) EXCEPT !.timer = "none",
                        !.rotating = FALSE,
                        !.locked = FALSE,
                        !.lastProposed = 0,
                        !.watching = TRUE,
                        !.calls = IF s.proposer = Me THEN @ + 1 ELSE @]

(* on_consensus for the decided blocks, of which one may be the first of   *)
(* the new leader.                                                         *)
OnConsensus(s, decided) ==
  LET t == [s EXCEPT !.timer = "none"]
  IN  IF t.propBlk[t.proposer] \in decided THEN StopRotate(t) ELSE t

(* The commands of some blocks. *)
CmdsOf(s, blks) == UNION {s.chain[h].cmds : h \in blks}

(* Wrong on purpose: decision_waiting keeps the entry. *)
DecideKept(s, decided) ==
  LET done == s.waiting \cap CmdsOf(s, decided)
  IN  [s EXCEPT !.ran = [c \in Cmd |-> IF c \in done THEN s.ran[c] + 1 ELSE s.ran[c]]]

(* do_decide for the commands of the decided blocks: an entry of           *)
(* decision_waiting goes with the first block that holds its command.      *)
Decide(s, decided) ==
  LET done == s.waiting \cap CmdsOf(s, decided)
  IN  [s EXCEPT !.waiting = @ \ done,
                !.ran = [c \in Cmd |-> IF c \in done THEN s.ran[c] + 1 ELSE s.ran[c]]]

(* update() for the last block: the highest certificate, and the blocks    *)
(* that become decided, for each of which on_consensus and do_decide run   *)
(* in turn; neither touches what the other one does.                       *)
Update(s) ==
  LET qc == QcOf(s, Len(s.chain))
      lockee == IF TwoStep THEN qc ELSE QcOf(s, qc)
      blk == QcOf(s, lockee)
      commits == /\ blk > s.exec
                 /\ blk + 1 = lockee
                 /\ TwoStep \/ lockee + 1 = qc
      t == [s EXCEPT !.hqc = IF qc > s.exec /\ qc > @ THEN qc ELSE @]
      decided == s.exec + 1 .. blk
  IN  IF commits THEN [Decide(OnConsensus(t, decided), decided) EXCEPT !.exec = blk] ELSE t

(* reg_receive_proposal: the first block of each proposer since rotate().  *)
(* A registration left over from a finished rotation can only note blocks  *)
(* of replicas that are not the proposer, for which nobody looks.          *)
NoteProposal(s, p, h) ==
  IF s.rotating /\ s.propBlk[p] = NoBlock THEN [s EXCEPT !.propBlk[p] = h] ELSE s

(* proposer_update_last_proposed: its callback on an own proposal. *)
OnProposal(s) ==
  IF s.watching
  THEN ScheduleNext([s EXCEPT !.lastProposed = Len(s.chain), !.locked = FALSE])
  ELSE s

(* on_propose *)
Propose(s, cmds) ==
  LET blk == [by |-> Me, cmds |-> cmds, qc |-> s.hqc]
      t == Update(AddBlock(s, blk))
  IN  OnProposal(NoteProposal(t, Me, Len(t.chain)))

(* do_new_consensus(x, cmds) *)
NewConsensus(s, x, cmds) ==
  LET t == Propose(s, cmds)
      h == Len(t.chain)
      u == Reject(t, t.qcManual)
  IN  Await([u EXCEPT !.qcManual = h], h, Round(x))

(* A callback on a certificate.  The beat is resolved with the proposer of *)
(* now, and the handler of cmd_pending proposes only if that is itself.    *)
RunCallback(s, cb) ==
  IF cb.kind = "beat"
  THEN IF s.proposer = Me THEN Propose(s, {cb.cmd}) ELSE s
  ELSE IF cb.x >= LastRound THEN s ELSE NewConsensus(s, cb.x + 1, {})

(* Callbacks in the order of their registration. *)
RunAll(s, cbs) ==
  LET run[i \in 0 .. Len(cbs)] == IF i = 0 THEN s ELSE RunCallback(run[i - 1], cbs[i])
  IN  run[Len(cbs)]

(* on_qc_finish for the block of height h; nothing waits for genesis. *)
QcFinish(s, h) ==
  IF h = 0 THEN s
  ELSE RunAll([Reject(s, h) EXCEPT !.qcFinish = IF @ = h THEN NoPromise ELSE @,
                                   !.qcManual = IF @ = h THEN NoPromise ELSE @],
              s.onQc[h])

(* beat() and the callback on it.  While it rotates, or with a certified   *)
(* last block, the promise is resolved at once.                            *)
Beat(s, c) ==
  LET bs == Append(s.beats, c) IN
  IF s.rotating THEN Propose(s, {c})
  ELSE IF ~s.locked /\ s.lastProposed \in s.certified
       THEN Propose([Reject(s, s.qcFinish) EXCEPT !.beats = Tail(bs), !.qcFinish = NoPromise],
                    {Head(bs)})
       ELSE ScheduleNext([s EXCEPT !.beats = bs])

(* Wrong on purpose: no modulo, or old proposals still count. *)
RotateNoWrap(s) ==
  [RejectBoth(s) EXCEPT !.propBlk = [p \in Replica |-> NoBlock],
                        !.rotating = TRUE,
                        !.proposer = @ + 1,
                        !.watching = FALSE,
                        !.timer = "exp",
                        !.since = Len(s.chain)]
RotateKeepsBlocks(s) ==
  [RejectBoth(s) EXCEPT !.rotating = TRUE,
                        !.proposer = (@ + 1) % nreplicas,
                        !.watching = FALSE,
                        !.timer = "exp",
                        !.since = Len(s.chain)]

(* rotate() *)
Rotate(s) ==
  [RejectBoth(s) EXCEPT !.propBlk = [p \in Replica |-> NoBlock],
                        !.rotating = TRUE,
                        !.proposer = (@ + 1) % nreplicas,
                        !.watching = FALSE,
                        !.timer = "exp",
                        !.since = Len(s.chain)]
------------------------------------------------------------------------------
(* PMRoundRobinProposer::init calls stop_rotate with replica 0 as proposer.*)
Init ==
  /\ st = [chain |-> << >>,       \* all blocks, by height
           hqc |-> 0,             \* hqc
           exec |-> 0,            \* b_exec
           certified |-> {0},     \* own blocks with a quorum in Block::voted
           waiting |-> {},        \* decision_waiting
           ran |-> [c \in Cmd |-> 0],   \* how often the callback of c ran
           beats |-> << >>,       \* the commands of pending_beats
           lastProposed |-> 0, locked |-> FALSE,
           watching |-> TRUE,     \* pm_wait_propose is pending
           onQc |-> << >>,        \* qc_waiting: the callbacks on each block's certificate
           qcFinish |-> NoPromise, qcManual |-> NoPromise,    \* their blocks
           proposer |-> 0, rotating |-> FALSE,
           timer |-> "none",      \* waits for on_exp_timeout or rotate, or not
           propBlk |-> [p \in Replica |-> NoBlock],
           calls |-> IF Me = 0 THEN 1 ELSE 0,   \* queued calls of stop_rotate
           since |-> 0]           \* history: the height at the last rotate()
  /\ arrived = {}
  /\ turns = 0

(* The bound on the chain. *)
Room(s) == Len(s.chain) <= MaxHeight

(* The handler of cmd_pending for one batch. *)
Arrive(c) ==
  LET s == [st EXCEPT !.waiting = @ \cup {c}] IN
  /\ c \notin arrived
  /\ arrived' = arrived \cup {c}
  /\ st' = IF s.proposer = Me THEN Beat(s, c) ELSE s
  /\ Room(st')
  /\ UNCHANGED turns

(* on_receive_vote: the last vote for the certificate of an own block. *)
CompleteQc(h) ==
  /\ h \notin st.certified
  /\ st.chain[h].by = Me
  /\ st' = QcFinish([st EXCEPT !.certified = @ \cup {h},
                               !.hqc = IF h > @ THEN h ELSE @], h)
  /\ Room(st')
  /\ UNCHANGED << arrived, turns >>

(* The certificates that another replica may propose with: the highest one *)
(* on the chain, or one of its own blocks above it.                        *)
Known(q) ==
  LET high == {h \in 0 .. Len(st.chain) : \A i \in 1 .. Len(st.chain) : st.chain[i].qc <= h}
  IN  {h \in high : \/ \E i \in 0 .. Len(st.chain) : QcOf(st, i) = h
                    \/ h > 0 /\ st.chain[h].by = q}

(* on_receive_proposal for a block of q on top of the chain. *)
ReceiveProposal(q, cmds, qc) ==
  LET s == Update(AddBlock(st, [by |-> q, cmds |-> cmds, qc |-> qc])) IN
  /\ st' = NoteProposal(QcFinish(s, qc), q, Len(s.chain))
  /\ Room(st')
  /\ UNCHANGED << arrived, turns >>

(* The timer of the pacemaker: on_exp_timeout, then rotate. *)
ExpTimeout ==
  /\ st.timer = "exp"
  /\ st' = [(IF st.proposer = Me THEN NewConsensus(st, 0, {}) ELSE st)
              EXCEPT !.timer = "delay"]
  /\ Room(st')
  /\ UNCHANGED << arrived, turns >>

TurnTimeout ==
  /\ st.timer = "delay"
  /\ turns < MaxTurns
  /\ st' = Rotate(st)
  /\ turns' = turns + 1
  /\ UNCHANGED arrived

(* The impeachment timer of the application, which does nothing while the  *)
(* pacemaker rotates already.                                              *)
Impeach ==
  /\ st.waiting # {}
  /\ ~st.rotating
  /\ turns < MaxTurns
  /\ st' = Rotate(st)
  /\ turns' = turns + 1
  /\ UNCHANGED arrived

(* The call that stop_rotate() queued: re-propose what is waiting. *)
Repropose ==
  LET s == [st EXCEPT !.calls = @ - 1] IN
  /\ st.calls > 0
  /\ st' = IF s.waiting = {} THEN s ELSE NewConsensus(s, 0, s.waiting)
  /\ Room(st')
  /\ UNCHANGED << arrived, turns >>

Next == \/ \E c \in Cmd : Arrive(c)
        \/ \E h \in 1 .. Len(st.chain) : CompleteQc(h)
        \/ \E q \in Others : \E qc \in Known(q), cmds \in OtherCmds :
             ReceiveProposal(q, cmds, qc)
        \/ ExpTimeout
        \/ TurnTimeout
        \/ Impeach
        \/ Repropose

Spec == Init /\ [][Next]_vars
------------------------------------------------------------------------------
Height == 0 .. Len(st.chain)
BlockOf == [by : Replica, cmds : SUBSET Cmd, qc : Nat]

(* Types of the state. *)
TypeOK ==
  /\ st.chain \in Seq(BlockOf)
  /\ {st.hqc, st.exec, st.lastProposed, st.qcFinish, st.qcManual, st.since} \subseteq Height
  /\ st.certified \subseteq Height
  /\ st.waiting \subseteq Cmd
  /\ st.ran \in [Cmd -> Nat]
  /\ st.beats \in Seq(Cmd)
  /\ st.onQc \in Seq(Seq(Callback)) /\ Len(st.onQc) = Len(st.chain)
  /\ {st.locked, st.watching, st.rotating} \subseteq BOOLEAN
  /\ st.proposer \in Replica
  /\ st.timer \in {"none", "exp", "delay"}
  /\ st.propBlk \in [Replica -> Height]
  /\ st.calls \in Nat
  /\ arrived \subseteq Cmd
  /\ turns \in Nat

(* A command that is proposed by several leaders, or again by the same one *)
(* after an election, is executed once: it is waiting or was executed.     *)
AnsweredOnce ==
  \A c \in arrived : st.ran[c] = (IF c \in st.waiting THEN 0 ELSE 1)

(* This replica reigns: it is the proposer and has been elected. *)
Reigns == st.proposer = Me /\ ~st.rotating

(* While this replica reigns its beats never get stuck.  If it is locked,  *)
(* a beat waits for the certificate of the last own block, which is still  *)
(* to come.  If it is not, beats that are left from an earlier reign have  *)
(* the queued call to re-propose to wake them, or were executed meanwhile. *)
PacingAlive ==
  Reigns =>
    /\ st.locked => /\ st.lastProposed \notin st.certified
                    /\ \E cb \in ToSet(st.onQc[st.lastProposed]) : cb.kind = "beat"
    /\ ~st.locked => st.calls > 0 \/ ToSet(st.beats) \cap st.waiting = {}

(* A rotation ends only when a block is decided that its new leader        *)
(* proposed since the rotation began, so that one who is only catching up  *)
(* is not elected by its old blocks.                                       *)
ElectedByNewBlock ==
  [][st.rotating /\ ~st'.rotating =>
       \E h \in st.exec + 1 .. st'.exec :
         st'.chain[h].by = st'.proposer /\ h > st.since]_vars

(* README.rst, on fault tolerance: new commands get through once the new   *)
(* leader becomes stable.  While this replica reigns and has nothing to    *)
(* re-propose, it has put every waiting command into a block or will.      *)
InBeat(c) == \/ c \in ToSet(st.beats)
             \/ \E h \in DOMAIN st.onQc : BeatOf(c) \in ToSet(st.onQc[h])
InBlock(c) == \E h \in DOMAIN st.chain : c \in st.chain[h].cmds
NoCommandForgotten ==
  Reigns /\ st.calls = 0 => \A c \in st.waiting : InBeat(c) \/ InBlock(c)

(* README.rst, on fault tolerance: leader rotation will be scheduled.  A   *)
(* replica that rotates has a timer to go on to the next leader.           *)
RotationTimed == st.rotating => st.timer # "none"
==============================================================================
