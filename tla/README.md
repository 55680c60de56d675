# A TLA+ verification of libhotstuff

This directory specifies the consensus library `libhotstuff` of this repository
(the protocol core, the pacemakers and the replica around them) and the scripts
that deploy it and report on a run in TLA+, checks the specifications on small
instances with TLC, and proves with TLAPS, for every configuration, the safety
invariants that the runs check: agreement of the voting rule and of the core
that implements it, the pacing of both pacemakers, the delivery of blocks, and
what the scripts write.

Agreement has a condition. Nothing in the code checks that the certificate in a
block is for an ancestor of the block. The two-step build (`HOTSTUFF_TWO_STEP`)
is safe all the same; the default, three-step build is safe when every block
carries a certificate for its own ancestor, as those of correct proposers do,
and not otherwise: one faulty replica of four brings `update()` to its exception
(run `core_offchain`, section 4).

## 1. The system

| component | state | operations | interacts with |
|---|---|---|---|
| Block tree and certificates (`entity.h`, `crypto.cpp`) | block cache; per block: parent, `qc_ref`, height, delivered, decision, votes | `add_blk`, `verify`, `QuorumCert::verify` | everything |
| `HotStuffCore` (`consensus.cpp`) | `hqc`, `b_lock`, `b_exec`, `vheight`, `tails`, the promises that announce events | `on_propose`, `on_deliver_blk`, `on_receive_proposal`, `on_receive_vote`, `update` | pacemaker through promises and `on_consensus`; the replica through `do_vote`, `do_broadcast_proposal`, `do_decide` |
| `PMHighTail` (`liveness.h`) | `hqc_tail` | callbacks on hqc updates and proposals; `get_parents` | `HotStuffCore` |
| `PMWaitQC`, `PaceMakerDummyFixed` (`liveness.h`) | `pending_beats`, `locked`, `last_proposed` | `beat`, `schedule_next` | command queue, `async_qc_finish` |
| `PMRoundRobinProposer`, `PaceMakerRR` (`liveness.h`) | the same, with `proposer`, `rotating`, the timers, `prop_blk` | `impeach`, `rotate`, `stop_rotate`, `on_exp_timeout`, `on_consensus`, `do_new_consensus` | the same; the application's impeachment timer |
| Block fetch and delivery (`hotstuff.cpp`) | `blk_fetch_waiting`, `blk_delivery_waiting` | `async_fetch_blk`, `async_deliver_blk`, the propose, vote, request and response handlers | `VeriPool`, network, `HotStuffCore` |
| Command queue (`hotstuff.cpp`, `hotstuff_app.cpp`) | `cmd_pending`, `cmd_pending_buffer`, `decision_waiting` | `exec_command`, the queue handler, `do_decide` | clients, pacemaker, SmallBank |
| Promises (`promise.hpp`), `VeriPool` (`task.h`) | callbacks; task queues of the worker threads | resolve, reject, `verify` | everything asynchronous |
| SmallBank, client (`examples/`) | balances; requests waiting for f + 1 answers | transactions; `try_send`, the response handler | command queue |
| Deployment scripts (`scripts/deploy`, `scripts/gen_conf.py`) | lists of machines, `nodes.ini`, `hotstuff.gen*.conf`; the processes of each run | `gen_all.sh` (inventory, then configuration), `run.sh`, `run_cli.sh` with the Ansible modules | key generators, replicas, clients; the operator |
| Commit histogram (`scripts/thr_hist.py`) | lists of timestamps and latencies, the current bucket | read, sort, count, report | the clients' logs |
| Benchmark pipeline (`benchmark/`) | run directories, marker files, the result table | run, parse, reconcile, retry | file system, remote hosts |

A replica runs its handlers on one event loop, so a handler is atomic; what
interleaves is the handlers of different replicas, and within a replica the
handlers of messages, timers and verification results, which arrive in any
order.  Hard are: leaders that change while votes for earlier blocks are still
under way; locks, votes and certificates that reach replicas in different
orders; promises that are rejected while something depends on them; timers
deleted by late events; deliveries that wait for a peer that never answers.
The deployment scripts are sequential programs whose difficulty is what they
find: files of earlier generations, generators that failed half way, runs that
were not stopped.

`PROJECT.json` lists these under "hazards", each at its line with the
properties that would catch it.

## 2. The modules and the code

| module | models | state ↔ code | actions ↔ code |
|---|---|---|---|
| `BlockTree` | blocks and walks over parents (`entity.h`) | a block is its chain of entries `[payload, qc]`; `qc` is the block its certificate is for, an ancestor or not | `NewBlock` = the `Block` built in `on_propose`; `Extends` = `check_ancestry` |
| `ReplicaConfig` | `ReplicaConfig`, quorum sizes | `nfaulty`, `nmajority` as `start()` and `on_init` compute them | – |
| `Voting` | what votes and locks promise (abstract) | `vheight`, `lock` = `b_lock`, `voted` = every vote signed | `CastVote`, `RaiseLock` = `on_receive_proposal` with and without a vote |
| `HotStuffCore` | `consensus.cpp` at every replica, `PMHighTail`, the network | one function per member variable of `HotStuffCore`; `tail` = `hqc_tail`; `failed` = an exception that left the event loop | `Propose`, `Deliver`, `ReceiveProposal`, `ReceiveVote`; `FaultyPropose` and faulty votes |
| `FixedProposer` | `PMWaitQC` in `PaceMakerDummyFixed`, the queue handler of `HotStuffBase::start`, `do_decide`, the application's callback | `beats`, `slot`, `locked` = `pending_beats`, the promise in `pm_qc_finish`, `locked`; `buffer` = `cmd_pending_buffer`; `waiting` = `decision_waiting` | `Arrive`, `ReceiveProposal`, `ReceiveVote` |
| `RoundRobin` | `PMRoundRobinProposer` in `PaceMakerRR` at one replica, with the handlers that call it | a record `st` with one field per member variable; `onQc` = the callbacks in `qc_waiting`, a list for each block of `chain`; `calls` = calls queued with `async_call` | `Arrive`, `CompleteQc`, `ReceiveProposal`, `ExpTimeout`, `TurnTimeout`, `Impeach`, `Repropose` |
| `BlockFetch` | fetching and delivery of blocks at every replica (`hotstuff.cpp:83-260`) | a record `st[r]`: `fetched`, `delivered` = `EntityStorage`; `fetching`, `ask` = `blk_fetch_waiting` and the replicas of its contexts; `delivering`, `peer` = `blk_delivery_waiting`; `body`, `verdict`, `qcWait` = what the promise of `async_deliver_blk` waits for | `Propose`, `ReceiveProposal`, `ReceiveRequest`, `ReceiveResponse`, `Verified`, `Timeout` = the handlers; `Lose`, `Crash` = the environment |
| `Deployment` | `gen_inventory.py`, `gen_conf.py` in the steps of `gen_all.sh`; `hotstuff_app.py`, `hotstuff_cli.py` as `run.yml` and `run_cli.yml` call them; the start of a process | `lists`, `inventory`, `main`, `sec` = the files; `step`, `keys` = where `gen_conf.py` is and what it has read; `todo`, `procs` = a run | `GenInventory`, `OpenConf`, `Keygen`, `WriteConf`; `NewRun`, `LaunchReplica`, `LaunchClient`, `Boot`, `Stop`; `EditLists` |
| `ThrHist` | `thr_hist.py` | its variables, under their names; `nread`, `nth` = the places of the two loops | a round of a loop each: `ReadLine`, `StartBuckets`, `NextBucket`, `CountCommit`; `SortTimestamps`, `PrintValues`, `PrintLatency` |

`Voting` EXTENDS `BlockTree` and `ReplicaConfig`, and `HotStuffCore` EXTENDS
them and instantiates `Voting` with the mapping votes sent → `voted`,
`b_lock` → `lock`, `vheight` → `vheight`: the property `VotingSpec`.
`HotStuffCore`'s action `Deliver` takes a whole delivery as one step; its
preconditions are what `BlockFetch` establishes (`DeliveredComplete`): the
parent is delivered, the certificate verified, and the block that the
certificate is for fetched, which need not be delivered.
`MCVoting`, `MCHotStuffCore`, `MCFixedProposer`, `MCRoundRobin`, `MCBlockFetch`
and `MCScripts` hold the instances that TLC checks; `Voting_proofs`,
`HotStuffCore_proofs`, `FixedProposer_proofs`, `RoundRobin_proofs`,
`BlockFetch_proofs`, `Deployment_proofs` and `ThrHist_proofs` the theorems. An
operator commented "Wrong on purpose" is no part of the
specification: it is a slip that the named property is known to notice.

What all modules take for granted:

* **A handler is one action.** The code has one event loop per replica; only
  signature checking runs elsewhere, and its results come back as events.
* **Messages** stay available once sent: they may be lost (never handled),
  late, repeated and reordered. Hashes do not collide and signatures are not
  forged; a faulty replica signs anything and proposes well-formed blocks.
* **Restarts** count as faults: nothing is persisted (`consensus.cpp:33-45`).
* **Certificates** may be for any block, of the own chain or of another branch,
  in every module of the core. A block is therefore a sequence of entries that
  hold blocks. `OwnCerts` says that a set of blocks has none of other branches;
  `SafeBuild == TwoStep \/ OwnCerts` is the condition of the safety properties.
  Correct proposers fulfil `OwnCerts` (`TailExtendsHqc`: the parent that
  `on_propose` takes extends the block whose certificate it puts in).
* A replica's own vote is no certificate (`nmajority > 1`).
* `prune()` and `set_vote_disabled()` are called nowhere and are left out.

What single modules abstract:

* `HotStuffCore`: fetching is the action `Deliver`, possible once the parent
  is delivered and the certificate verifies (`on_deliver_blk`,
  `Block::verify`). The certificate's block is fetched by then; that it can be
  is part of its being certified, since a correct replica has voted for it.
  While it is not delivered its height reads 0 and its `qc_ref` null, so that
  `update()` returns and the vote rule's liveness condition is false (`Live`,
  `SafeNode`). Commands are the payload of a block.
* `Voting`: a `CastVote` need not raise the lock to what the block's certificate
  tells when that certificate is for another branch (`OnChain`), which covers a
  block that is fetched and not delivered.
* `FixedProposer`: one chain, each block with its parent's certificate, and
  proposals arrive in order (one connection from one proposer). The handler
  takes one command per action. `impeach()` does nothing for this pacemaker.
* `RoundRobin`: one replica and its environment. Others propose whenever
  they like, with a certificate they can know; own certificates come whenever
  or never. All blocks are on one chain, and a command stands for a batch.
  Timers may fire as soon as they are set, so `exp_timeout` and its doubling
  are not modelled. Promises follow the code's sharing: the beat and the round
  that wait for one block wait on the same promise, and rejecting one rejects
  both. `reg_proposal` is part of `reg_receive_proposal`, since own
  proposals pass through both, and a registration left from an earlier
  rotation can only note blocks that nobody looks up.
* `BlockFetch`: promises are resolved within the handler that completes them,
  so a chain of continuations is part of that handler's action; it is written
  in closed form (`Started`, `Deliverable`) instead of step by step. Parent,
  certificate and proposer of each block are constants of the instance. A
  replica that proposes has the parent, except the faulty ones, whose
  certificates may also not verify. Handshakes and `vote_handler` are left out;
  the latter makes the same request for a delivery.
* `Deployment`: addresses are model values, a key is the generation and the
  number of its line, experiment parameters are left out. Rows of the lists are
  well-formed, and the operator does not regenerate while a run is being
  started. `gen_all.sh` may end before or in any of `gen_conf.py`'s steps, also
  between its two programs (`CutShort`); the output of `gen_inventory.py`, less
  than a buffer, is written in one piece. `minirun`, which connects to the machines, is a submodule that is
  not in the repository: that a process' directory is that of its run and its
  `host_idx` is what `run.yml` says of `testbed` and `nid`.
* `ThrHist`: lines are commits with a time and a latency, lines that do not
  match, and a last line that was cut before its latency. Arithmetic is exact;
  in the code it is floating-point, so a quartile that falls on a bound of the
  outlier range may go either way there.

## 3. The runs

| run | question | instance and bounds |
|---|---|---|
| `voting` | are certificates unique, and do certified blocks, locks and commits stay on the chain of a committed block? | 4 replicas, 1 faulty, three-step, certificates for own ancestors; two branches of 3 and 4 blocks, all ways for certificates to lag on the second |
| `core_pair` | do proposers always vote for their own blocks, is only what certificates commit executed? | 2 correct proposers, three-step, 6 blocks up to height 5 |
| `core_leaders` | are only real certificates taken over, is what is locked or named as certified delivered, is the lock between `b_exec` and `hqc`, does the parent chosen extend the certified block, does the core implement `Voting`? | 3 correct replicas, a correct proposer, a faulty one that also votes, two-step; any 3 blocks, each on any other with a certificate for any other, except that one of height 3 carries its parent's |
| `core_fork_agreement` | can two replicas execute different blocks, or `update()` throw? | a faulty leader sends branches of 2 and 5 blocks, two-step; the third block of the longer one carries the certificate of the shorter one's top |
| `core_offchain` | the same in the three-step build. **Yes** | branches of 3 and 7 blocks, the fourth of the longer one carrying the certificate of the shorter one's top |
| `core_vheight` | is the exception of `on_propose` unreachable? **No** | 4 correct replicas, 2 proposers |
| `queue_safety` | is every command in one place, does every beat wait for a certificate and wake up, is each command executed once and only when decided, and in the end if enough batches follow it? | 4 replicas, 1 silent, 6 commands at 2 replicas, batches of 2, two-step |
| `rr_safety` | does pacing survive being voted out and elected again, is a command executed once however often it is proposed, is a leader elected by a new block? | 2 replicas, 3 commands, 2 rotations, 5 blocks, two-step; blocks of the other replica hold all commands or none |
| `rr_forgotten` | does every command that waits at a stable leader get proposed? **No** | a new leader of 2, 4 commands, 6 blocks |
| `rr_timer` | does a rotating replica have a timer? **No** | the third of 4 replicas, 2 commands, 5 blocks |
| `fetch` | are only blocks with a delivered parent and a fetched certificate's block delivered, does each delivery that waits wait for something, and is what was heard delivered in the end? | 3 replicas, 3 blocks: two on one branch, and beside them a block whose certificate is for the upper of the two and may be bad; one message lost, one crash |
| `scripts` | do replicas run where they are named, with their own keys, ports and logs; is the report right? | 2 machines, 3 addresses, 4 pairs of lists, 2 generations, 2 runs, ports with no room to spare; inputs of 2 of 6 logs, intervals of one and a half seconds |

**Why the bounds suffice.** A commit takes two blocks above the committed one
in the two-step variant and three in the three-step one; a conflict takes a
second branch that is one block longer than what a lock may lag behind. The
branches of `voting` and `core_fork_agreement` have just those heights, and
each property is known to fail there when the rule it depends on is damaged.
Three blocks are the least with which a certificate can be for another branch
than the block that carries it and be followed by a block: enough for a lock to
meet such a certificate, delivered or only fetched, and too few to commit in
more than one branch, which `core_fork_agreement` is for.
Two branches are enough because a conflict is between two blocks. In
`rr_safety` the height lets a replica put a first command into a block, be
voted out with a beat pending, return, and be elected by the three blocks of
`do_new_consensus`, and it lets another replica's block elect it instead, with
beats of its first reign still pending while it is not locked.

In `fetch` two branches and a certificate across them (`ForkQc`: block 3, on
genesis, carries one for block 2, on block 1) are the least in which a
block waits for its own bytes, its certificate, another block's bytes and its
parent at once, and can get them in every order; a second loss adds nothing but
another retry. In `scripts` two generations are needed for files of an earlier
one to remain, two runs for one to be in the other's way, and the four lists
are the cases of the counters: shared machine, two machines, two addresses of
one, none. A behaviour of `scripts` is either one of the deployment or one of
the report, which share nothing.

**Reductions.** Replicas with the same part and payloads are interchangeable
(SYMMETRY in the runs that check safety only). In `queue_safety` commands reach
the proposer in one order (`InOrder`): nothing looks at what a command is, and
other than symmetry this is sound for liveness too. In `core_fork_agreement` the
action constraint `ProposeFirst` sends the proposals first: they are never
withdrawn and nobody else proposes, so every state of the voters that is
reachable at all is reachable that way. `VoterView` leaves out `hqc` and `tail`,
which no action of that instance reads. `core_leaders` has two bounds of this
kind that are not reductions: a replica that does not propose delivers as soon
as it can (`Prompt`), so that only the proposer meets blocks that it has fetched
and not delivered, and no block is proposed by two replicas (`OwnProposals`);
the theorems have no such bound. `core_offchain` looks for one behaviour and
uses `ProposeFirst`, then `Prompt`.

**Deadlock** is not checked: all instances stop when their bound is used up,
and a system with no commands and no messages under way is at rest.

**Fairness.** `queue_safety` assumes weak fairness of `ReceiveProposal` and
`ReceiveVote` at correct replicas. Connections are TCP with reconnection, the
event loop serves every ready handler, and both actions stay enabled until
taken. Nothing is assumed of clients or of faulty replicas, so a batch that
does not fill up, or is not followed by others, is promised nothing — as in the
code. `fetch` assumes that a message that is not lost is handled by a replica
that is up (`Handled`, which is weak fairness of the two handlers with their
enabling condition written out), that timers fire and that the worker threads
return their results; proposals need not arrive, and losses are finite. In
`scripts` the report is a program that runs on until it ends.

## 4. What the runs found

* `core_offchain` — "safety breached" in the default build, with one faulty
  replica of four. x1, x2 and x3 are certified, each carrying its parent's
  certificate. The faulty r4 proposes y1..y7 on genesis; y4 carries the
  certificate of x3, which is real, and y5..y7 their parents'. No step compares
  a certificate with the chain of its block (`consensus.cpp:70-76`,
  `hotstuff.cpp:189-219`, `entity.cpp:65-69`). On y4, r1 and r2 lock x2, commit
  x1, and vote, since 3, the height of x3, is above that of x2
  (`consensus.cpp:196-199`). y5 moves the lock to x3 and y6 to y4
  (`consensus.cpp:104-106`), and on y7, with y4, y5 and y6 certified, `update()`
  throws at r1. A replica that handles y7 without having executed x1 executes
  y1..y4 instead. In the two-step build the lock is x3 already when y4 is voted
  on, and there is nothing above it to let y4 pass: that is `SafeNode` in
  `Voting`, and why `SafeBuild` suffices. README.rst:52 says "the safety is
  always intact".
* `core_vheight` — `on_propose` throws "new block should be higher than
  vheight" in a run of correct replicas: a certificate for an older branch takes
  `hqc_tail` below the height the proposer has voted at
  (`consensus.cpp:174-175`, `liveness.h:74-82`).
* `rr_forgotten` — a new leader re-proposes c1 in a block; c2 waits for its
  certificate, c3 and c4 for c2. The certificate first resolves the round of
  `do_new_consensus`, whose empty block lets c3 wait for it; then c2 is
  proposed, and its block lets c4 take the slot `pm_qc_finish` from c3
  (`liveness.h:271-284`). c3 waits in `decision_waiting` only; another election
  would re-propose it, this leader does not.
* `rr_timer` — a block of the old leader that is decided during the rotation
  deletes the rotation's timer (`liveness.h:365`). `impeach()` does nothing
  during a rotation, so the replica waits for the new leader for ever.

Remarks that have no run of their own:

* `gen_all.sh` has no `set -e`: if `gen_conf.py` fails before it opens
  `hotstuff.gen.conf` (`gen_conf.py:40`), or the script is interrupted there, a
  new `nodes.ini` meets the configuration of the generation before, and replicas
  may be started on other machines than their lines name. `NamedWhereRun` excepts
  the machines of such runs (`cut`), and holds of the keys even then.
* A command that already waits has its callback run at once, and the callback
  executes the transaction (`hotstuff.cpp:455`, `hotstuff_app.cpp:387-401`):
  with `Submissions = 2` in `queue_safety.cfg` TLC shows `ExecutedAreDecided`
  violated in three steps.
* A block is asked only from the replicas whose proposals or votes started its
  delivery (`hotstuff.cpp:174-176`). If the first of them crashes before it
  answers, later proposals on the same chain do not add theirs, and a proposal
  of a replica that is up and has all blocks may wait for ever.
  `HeardAreDelivered` therefore excepts blocks that nobody who is up and has
  them is asked for.
* Client ports are taken on all addresses of a machine (`hotstuff_app.cpp:295`)
  but counted by inter-replica address (`gen_conf.py:45-47`): two replicas on a
  machine that is listed under two addresses want the same client port.
  `OwnPorts` excepts such machines.
* `gen_inventory.py:34-35` counts clients under the machine of the last
  replica. `OwnLogs` holds all the same, since all clients share that counter.

## 5. What is proved

`Voting_proofs`, for every set of replicas, every fault set that `nfaulty`
allows and every set of blocks that is closed under parents, with certificates
for any of them, from `ReplicaAssumption`, `BlockAssumption` and
`BuildAssumption` alone: `TypeOK` and `OneCertPerHeight` in both builds;
`CertifiedExtendCommitted`, `LocksExtendCommitted` and `Agreement` under
`SafeBuild`, that is, in the two-step build, or in either build when no block
carries a certificate for another branch. Without `SafeBuild` they are false
(`core_offchain`).

None of the last four is inductive: a state may satisfy them while a vote that
breaks them is already allowed. The inductive invariant `Inv` is

* `TypeOK`;
* `VotesOk`: locks are certified, and a replica's votes are at most at
  `vheight`, for blocks with real certificates that its lock has caught up with
  (if they are for its own chain);
* `OneVotePerHeight`;
* `VoteSafe`: each vote was allowed by a certified lock no lower than what
  any earlier vote of that replica had made it lock;
* `SafeBuild => CommitLocked`: if a block p that commits b *may still be*
  certified (`MayBeCertified`: a quorum whose correct members voted for it or
  still can), every higher certified block extends b.

The point is `MayBeCertified`: with "is certified" the formula is not
preserved, because p may get its last vote after a conflicting block got its
certificate. In the step that casts a vote for n, a quorum for n meets the
quorum for p in a correct replica (`QuorumIntersection`, from n > 3f); it voted
for p, was locked at b or above, and voted for n by `SafeNode`. Either n extends
the lock, or n's own certificate is above it and is itself covered by the
induction hypothesis: the block of that certificate extends b, and so does n
*if that block is an ancestor of n*. This is the one place that needs
`SafeBuild`; the two-step rule has no such case.

`HotStuffCore_proofs`, for every configuration, payload set and bound, with
proposals of faulty replicas that carry any certificate, from
`ReplicaAssumption`, `BlockAssumption` and `CoreAssumption`: in both builds
`TypeOK`, `HqcCertified`, `TailExtendsHqc`, `ExecCommitted` and `VotingSpec` (the
core implements `Voting`); under `SafeBuild` `Agreement`, `NoSafetyBreach`,
`LockBetweenExecAndHqc` and `ProposersVote`. `Agreement` of what replicas
*execute* is not inductive, and not even implied by the state of one replica.
The inductive invariant `Inv` joins what a replica knows with the invariant of
the abstract rule:

* `VP!Inv`, the invariant of `Voting_proofs` under the refinement mapping;
* `TypeOK` and `DeliveredClosed`: what a replica locks, executes, extends or
  names as certified is delivered, with its ancestors. Certificates are for
  blocks that need not be, and then move nothing;
* `HqcCertified`, `DeliveredVerified` and `CountedSigned`: certificates that a
  replica holds, and votes that it counted, are those of votes that were sent;
* `TailExtendsHqc` and `ExecUnderLock` (`b_exec` is no higher than `b_lock`);
* `ExecIsCommitted`: what is executed is genesis or the end of a two- or
  three-chain of certificates;
* `SafeBuild => LockUnderHqc /\ NoSafetyBreach /\ ProposersVote`: `b_lock` is no
  higher than `hqc`, so the proposer's own vote is not refused. An off-chain
  certificate can break that in the three-step build.

`update()` is the heart: the block that it commits is committed in the sense of
`Voting`, and `CertifiedExtendCommitted` puts it on the chain of `b_exec`. A vote
is a `CastVote` of the rule, since `b_lock` was raised by the same handler
*before* the vote was decided (`ReceiveProposal`), and a `RaiseLock` when there
is none. `ImplementsVoting` follows step by step.

`FixedProposer_proofs`, for every configuration, batch size, set of commands
and number of submissions: `TypeOK`, `NoBeatForgotten` and `BeatAfterQc`, with
`Inv = TypeOK /\ NoBeatForgotten`. `NoBeatForgotten` needs the types (a buffer
shorter than a batch, batches that are not empty) and that the proposer's own
vote is no certificate; `BeatAfterQc` follows from `Inv` step by step.
`NoCommandLost` counts places: an arrival adds one to the buffer, a full buffer
becomes a beat with the same places, a proposal moves the first beat to the
chain.
`AnsweredOnce` is inductive over the types, as an account per command and
replica: an arrival opens one more item, a decision moves items from owed to
answered (`DecideAccount`). `ExecutedAreDecided` is proved for `Submissions <= 1`,
the assumption under which it holds (section 4); `ExecInv` adds that no replica
is ahead of the chain and that every callback that ran belongs to a handled
block that decides its command, and `AnsweredOnce` says that it ran once.

`RoundRobin_proofs`, for every number of replicas, set of commands, choice of
`Others` and `OtherCmds`, bound and both variants, from `RoundRobinAssumption`:
`TypeOK`, `AnsweredOnce`, `PacingAlive` and `ElectedByNewBlock`. Handlers call
each other there too, several levels deep (a certificate runs callbacks, which
propose, which decides blocks, which may end the rotation, which rejects
callbacks), so `MidInv` holds at every point of a handler and every operator of
the module has a lemma that it keeps it. Its parts:

* `Bounded`: no height points beyond the chain, and certificates are for lower
  blocks;
* `Slots`: every beat that waits for a certificate waits for that of
  `pm_qc_finish`, every round for that of `pm_qc_manual`, and there is at most
  one of each. A certificate therefore runs at most two callbacks, and a
  rotation, which rejects both promises, leaves none behind;
* `Noted`: what `prop_blk` holds was proposed by its replica since `rotate()`;
* `Account`: `ran` is 1 for what has arrived and does not wait, else 0.

`PacingAlive` does *not* hold at every point: between a certificate and the
callbacks on it a pacemaker is locked for nothing (`PacedBut`). The argument is
that the callback of a beat restores it from any state, since it proposes, and
an own proposal either locks for the next beat or finds none (`OnProposalInv`,
`ProposeInv`); the round that runs beside it must not reject that beat's new
promise, which is why `ProposeInv` says that `pm_qc_manual` is for an older
block. `ElectedByNewBlock` follows from `Goes`, what each part of a handler may
do to the chain, `b_exec` and the rotation, which composes (`GoesOn`).
TLC found an earlier form of `PacingAlive` wrong: a replica that is elected by
another's proposal has old beats pending and is not locked; what wakes them is
the call that `stop_rotate` queued.

`BlockFetch_proofs`, for every tree of blocks, set of replicas, set of bad
certificates and bound, from `FetchAssumption`: `TypeOK`, `DeliveredComplete`
and `WaitsHaveCause`. Handlers call each other (a delivery resolves the
promises of its children, which deliver in turn), so `MidInv` states what holds
at *every point* of a handler: `Stored` (what is delivered has its parent delivered and its certificate's
block fetched),
`Waiting` (each delivery under way waits for a fetch, a check or a parent,
except for those of a set E that the handler is just dealing with) and `Asking`
(only what is being fetched is asked for, and a delivery without its body has
its peer asked). `Settled` holds
between handlers only: `on_deliver_blk` has gone up the whole chain of
descendants that became complete. `WaitsHaveCause` needs it, since a block
whose parent is delivered and whose check is done would wait for nothing. That
chain is the least set closed under the parent (`ChainClosed`,
`ChainLeast`), which needs no recursion.

`Deployment_proofs`, for every set of machines, lists and bounds, from
`DeployAssumption`: `DeployTypeOK`, `NamedWhereRun`, `OwnLogs` and `OwnPorts`.
`NamedWhereRun` speaks of running processes only; its invariant has `KeysAgree`
(line i and file i belong together) at every moment, and `HostsAgree` (line i and
row i do) at every moment but those after the inventory and before the emptying
of the configuration: while `gen_all.sh` is there nothing is started, and when it
ended there (`cut`) processes are, which is the exception of the property.
`OwnLogs` needs that rows of a machine have different
indices (`InventoryDistinct`, by counting) and that the processes of a run that
is being started come from the inventory as it is (`Started`). `OwnPorts` rests
on `Ported` (lines with one address have different ports, again by counting,
and the two ranges of ports do not meet, by `DeployAssumption`) and on
`SameFiles`: the processes of a run were started with one configuration.

`ThrHist_proofs`, for every input and every positive interval: `HistTypeOK`,
`BucketsExact`, `HistogramOfLog` and `KeptSome`. The loop invariant adds that
the timestamps are sorted, that those counted lie before the end of the current
bucket, and that the next one does not lie before its beginning.
`HistogramOfLog` compares the printed values with the *input*: `SameTimes` says
that the timestamps and the commits read so far are the same multiset, as a
count for every set of times, which reading extends by one (`HistogramRead`) and
sorting, a bijection of places, keeps (`HistogramSort`); the bucket of a time is
then a count over an interval (`BucketOf`). `KeptSome` shows that the lower
quartile is never above the upper one: ranks exist (`BoundExists`, with the
least-number principle `LeastNat`) and grow with the place (`RankedMonotone`),
and the four remainders of the interpolation are four cases (`QuartileAt`); a
value of the list at or between two quartiles is then left (`SomeKept`).

Only model-checked: liveness (`EventuallyExecuted`, `HeardAreDelivered`,
`HistEnds`), which is out of the proof system's reach, as are `ENABLED` and
induction over what a recursive definition computes. `RoundRobin` runs the
callbacks on a certificate with a recursive function; its proof needs no
induction because `Slots` bounds their number by two. The four properties that
runs refute are false, not unproved (`NoSafetyBreach` in the three-step build).

## 6. Not modelled, and the plan

* Networking, TLS, key generation and serialisation: I/O over a library
  (salticidae) that is a submodule and not in the repository.
* Promises are a vendored library, modelled by their resolve-once,
  reject-silences rule where callbacks matter.
* `VeriPool` (`task.h`): its worker threads share nothing but two concurrent
  queues of the missing library; `BlockFetch` models what it promises, a result
  that arrives at any later time.
* SmallBank and the client: the replicated application is sequential
  arithmetic on balances, applied in the order that the core decides; the
  client counts answers (`hotstuff_client.cpp:117`).
* The benchmark pipeline and its analysis (`benchmark/`): file-system and
  remote-shell orchestration around the binaries, and statistics of recorded
  text; `thr_hist.py`, the report that the deployment guide uses, is modelled.

What would come next: the client together with SmallBank on top of the order
that `HotStuffCore` decides; the benchmark pipeline's marker files with crashes
between two file operations; an abstract pacemaker that both `FixedProposer`
and `RoundRobin` refine, with what they promise in common (a beat waits only
for a certificate that is still to come); that the certificate on which
`ScheduleNext` waits was never rejected before, for all states of `RoundRobin`.
