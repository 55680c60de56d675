-------------------------- MODULE RoundRobin_proofs ---------------------------
(***************************************************************************)
(* For every number of replicas, set of commands and bound: the round-     *)
(* robin pacemaker answers each command once, lets no beat wait for        *)
(* nothing, and ends a rotation only with a new block of the new leader.   *)
(***************************************************************************)
EXTENDS RoundRobin, TLAPS

Timer == {"none", "exp", "delay"}

(* The types of the state at every point of a handler. *)
RState == [chain : Seq(BlockOf), hqc : Nat, exec : Nat, certified : SUBSET Nat,
           waiting : SUBSET Cmd, ran : [Cmd -> Nat], beats : Seq(Cmd),
           lastProposed : Nat, locked : BOOLEAN, watching : BOOLEAN,
           onQc : Seq(Seq(Callback)), qcFinish : Nat, qcManual : Nat,
           proposer : Replica, rotating : BOOLEAN, timer : Timer,
           propBlk : [Replica -> Nat], calls : Nat, since : Nat]

(* Heights are those of blocks, and certificates are for lower blocks. *)
Bounded(s) ==
  LET n == Len(s.chain) IN
  /\ s.hqc <= n /\ s.exec <= n /\ s.lastProposed <= n
  /\ s.qcFinish <= n /\ s.qcManual <= n /\ s.since <= n
  /\ \A h \in s.certified : h <= n
  /\ \A p \in Replica : s.propBlk[p] <= n
  /\ \A i \in 1 .. n : s.chain[i].qc < i
  /\ Len(s.onQc) = n

(* At most one beat and one round wait for a certificate, for that of      *)
(* pm_qc_finish and that of pm_qc_manual.                                  *)
Slots(s) ==
  \A h \in DOMAIN s.onQc :
    /\ \A i \in DOMAIN s.onQc[h] :
         IF s.onQc[h][i].kind = "beat" THEN h = s.qcFinish ELSE h = s.qcManual
    /\ \A i, j \in DOMAIN s.onQc[h] :
         s.onQc[h][i].kind = s.onQc[h][j].kind => i = j

(* prop_blk holds blocks of their proposers that are new in this rotation. *)
Noted(s) ==
  \A p \in Replica : s.propBlk[p] # NoBlock =>
    s.chain[s.propBlk[p]].by = p /\ s.propBlk[p] > s.since

(* Of the commands in A each is waiting or was executed, and no other. *)
Account(s, A) ==
  /\ s.waiting \subseteq A
  /\ \A i \in DOMAIN s.beats : s.beats[i] \in A
  /\ \A c \in Cmd : s.ran[c] = IF c \in A \ s.waiting THEN 1 ELSE 0

(* What holds at every point of a handler, A being what has arrived. *)
MidInv(s, A) ==
  /\ s \in RState
  /\ Bounded(s)
  /\ Slots(s)
  /\ Noted(s)
  /\ Account(s, A)
  /\ s.watching = ~s.rotating
  /\ 0 \in s.certified

(* PacingAlive of any state. *)
BeatAt(s, h) == \E i \in DOMAIN s.onQc[h] : s.onQc[h][i].kind = "beat"
BeatsDone(s) == \A i \in DOMAIN s.beats : s.beats[i] \notin s.waiting
Paced(s) ==
  s.proposer = Me /\ ~s.rotating =>
    /\ s.locked => /\ s.lastProposed \in DOMAIN s.onQc
                   /\ s.lastProposed \notin s.certified
                   /\ BeatAt(s, s.lastProposed)
    /\ ~s.locked => s.calls > 0 \/ BeatsDone(s)

(* The inductive invariant. *)
Inv ==
  /\ MidInv(st, arrived)
  /\ Paced(st)
  /\ arrived \subseteq Cmd
  /\ turns \in Nat
------------------------------------------------------------------------------
(* Constants and lengths. *)
LEMMA Numbers ==
  /\ nreplicas \in Nat \ {0} /\ Me \in Replica /\ LastRound \in Nat
  /\ Replica \subseteq Nat
  BY RoundRobinAssumption DEF Replica, LastRound

(* The fields of a state one by one. *)
LEMMA Fields ==
  ASSUME NEW s \in RState
  PROVE  /\ s.chain \in Seq(BlockOf) /\ Len(s.chain) \in Nat
         /\ DOMAIN s.chain = 1 .. Len(s.chain)
         /\ \A h \in 1 .. Len(s.chain) : s.chain[h] \in BlockOf
         /\ s.hqc \in Nat /\ s.exec \in Nat /\ s.certified \subseteq Nat
         /\ s.waiting \subseteq Cmd /\ s.ran \in [Cmd -> Nat]
         /\ s.beats \in Seq(Cmd)
         /\ s.lastProposed \in Nat /\ s.locked \in BOOLEAN /\ s.watching \in BOOLEAN
         /\ s.onQc \in Seq(Seq(Callback)) /\ Len(s.onQc) \in Nat
         /\ DOMAIN s.onQc = 1 .. Len(s.onQc)
         /\ \A h \in 1 .. Len(s.onQc) : s.onQc[h] \in Seq(Callback)
         /\ s.qcFinish \in Nat /\ s.qcManual \in Nat
         /\ s.proposer \in Replica /\ s.rotating \in BOOLEAN /\ s.timer \in Timer
         /\ s.propBlk \in [Replica -> Nat] /\ s.calls \in Nat /\ s.since \in Nat
  <1>1. /\ s.chain \in Seq(BlockOf)
        /\ s.hqc \in Nat /\ s.exec \in Nat /\ s.certified \subseteq Nat
        /\ s.waiting \subseteq Cmd /\ s.ran \in [Cmd -> Nat]
        /\ s.beats \in Seq(Cmd)
        /\ s.lastProposed \in Nat /\ s.locked \in BOOLEAN /\ s.watching \in BOOLEAN
        /\ s.onQc \in Seq(Seq(Callback))
        /\ s.qcFinish \in Nat /\ s.qcManual \in Nat
        /\ s.proposer \in Replica /\ s.rotating \in BOOLEAN /\ s.timer \in Timer
        /\ s.propBlk \in [Replica -> Nat] /\ s.calls \in Nat /\ s.since \in Nat
    BY DEF RState
  <1> QED BY <1>1, SMTT(30)

(* What a handler may do to the state while it does not rotate: the chain  *)
(* and b_exec grow, and an election is one by a new block.                 *)
Elected(s, u) ==
  \E h \in s.exec + 1 .. u.exec : u.chain[h].by = u.proposer /\ h > s.since
Goes(s, u) ==
  /\ u.proposer = s.proposer /\ u.since = s.since /\ s.exec <= u.exec
  /\ Len(s.chain) <= Len(u.chain)
  /\ \A h \in 1 .. Len(s.chain) : u.chain[h] = s.chain[h]
  /\ s.rotating /\ ~u.rotating => Elected(s, u)

LEMMA GoesOn ==
  ASSUME NEW s \in RState, NEW t \in RState, NEW u \in RState, Bounded(t), Bounded(u),
         Goes(s, t), Goes(t, u)
  PROVE  Goes(s, u)
  <1>1. /\ s.exec \in Nat /\ t.exec \in Nat /\ u.exec \in Nat /\ s.since \in Nat
        /\ Len(s.chain) \in Nat /\ Len(t.chain) \in Nat /\ Len(u.chain) \in Nat
        /\ t.exec <= Len(t.chain)
        /\ t.rotating \in BOOLEAN
    BY Fields DEF Bounded
  <1>2. /\ u.proposer = s.proposer /\ u.since = s.since /\ s.exec <= u.exec
        /\ Len(s.chain) <= Len(u.chain)
        /\ \A h \in 1 .. Len(s.chain) : u.chain[h] = s.chain[h]
    <2>1. \A h \in 1 .. Len(s.chain) : h \in 1 .. Len(t.chain)  BY <1>1 DEF Goes
    <2> QED BY <1>1, <2>1 DEF Goes
  <1>3. ASSUME s.rotating, ~u.rotating PROVE Elected(s, u)
    <2>1. CASE t.rotating
      <3>1. PICK h \in t.exec + 1 .. u.exec : u.chain[h].by = u.proposer /\ h > t.since
        BY <1>3, <2>1 DEF Goes, Elected
      <3>2. h \in s.exec + 1 .. u.exec /\ h > s.since  BY <1>1, <3>1 DEF Goes
      <3> QED BY <3>1, <3>2 DEF Elected
    <2>2. CASE ~t.rotating
      <3>1. PICK h \in s.exec + 1 .. t.exec : t.chain[h].by = t.proposer /\ h > s.since
        BY <1>3, <2>2 DEF Goes, Elected
      <3>2. h \in s.exec + 1 .. u.exec /\ h \in 1 .. Len(t.chain)  BY <1>1 DEF Goes
      <3>3. u.chain[h] = t.chain[h] /\ u.proposer = t.proposer  BY <3>2 DEF Goes
      <3> QED BY <3>1, <3>2, <3>3 DEF Elected
    <2> QED BY <2>1, <2>2
  <1> QED BY <1>2, <1>3 DEF Goes

(* A block with a certificate for a block of the chain. *)
LEMMA AddBlockInv ==
  ASSUME NEW s, NEW A, MidInv(s, A), NEW blk \in BlockOf, blk.qc <= Len(s.chain)
  PROVE  LET u == AddBlock(s, blk) IN
         /\ MidInv(u, A) /\ Goes(s, u)
         /\ Len(u.chain) = Len(s.chain) + 1 /\ u.chain[Len(u.chain)] = blk
         /\ Paced(s) => Paced(u)
  <1> DEFINE u == AddBlock(s, blk)
             n == Len(s.chain)
  <1>1. s \in RState /\ Bounded(s) /\ Slots(s) /\ Noted(s) /\ Account(s, A)
    BY DEF MidInv
  <1>2. /\ Append(s.chain, blk) \in Seq(BlockOf)
        /\ Append(s.onQc, << >>) \in Seq(Seq(Callback))
    BY <1>1, Fields
  <1>3. u \in RState
    BY <1>1, <1>2 DEF RState, AddBlock
  <1>4. /\ u.chain = Append(s.chain, blk) /\ u.onQc = Append(s.onQc, << >>)
        /\ u.hqc = s.hqc /\ u.exec = s.exec /\ u.certified = s.certified
        /\ u.waiting = s.waiting /\ u.ran = s.ran /\ u.beats = s.beats
        /\ u.lastProposed = s.lastProposed /\ u.locked = s.locked
        /\ u.watching = s.watching /\ u.qcFinish = s.qcFinish /\ u.qcManual = s.qcManual
        /\ u.proposer = s.proposer /\ u.rotating = s.rotating /\ u.timer = s.timer
        /\ u.propBlk = s.propBlk /\ u.calls = s.calls /\ u.since = s.since
    BY <1>1 DEF RState, AddBlock
  <1> HIDE DEF u
  <1>5. /\ n \in Nat /\ Len(u.chain) = n + 1 /\ u.chain[n + 1] = blk
        /\ \A h \in 1 .. n : u.chain[h] = s.chain[h]
        /\ Len(s.onQc) = n /\ Len(u.onQc) = n + 1 /\ u.onQc[n + 1] = << >>
        /\ \A h \in 1 .. n : u.onQc[h] = s.onQc[h]
        /\ DOMAIN s.onQc = 1 .. n /\ DOMAIN u.onQc = 1 .. n + 1
    <2>1. s.chain \in Seq(BlockOf) /\ s.onQc \in Seq(Seq(Callback)) /\ Len(s.onQc) = n
      BY <1>1, Fields DEF Bounded
    <2> QED BY <1>4, <2>1
  <1>6. Bounded(u)
    <2>1. \A i \in 1 .. n + 1 : u.chain[i].qc < i
      <3>1. blk.qc \in Nat /\ \A i \in 1 .. n : s.chain[i].qc < i
        BY <1>1 DEF BlockOf, Bounded
      <3> QED BY <1>5, <3>1, SMTT(30)
    <2>2. /\ s.hqc \in Nat /\ s.exec \in Nat /\ s.certified \subseteq Nat
          /\ s.lastProposed \in Nat /\ s.qcFinish \in Nat /\ s.qcManual \in Nat
          /\ s.since \in Nat /\ s.propBlk \in [Replica -> Nat]
      BY <1>1, Fields
    <2>3. /\ s.hqc <= n /\ s.exec <= n /\ s.lastProposed <= n
          /\ s.qcFinish <= n /\ s.qcManual <= n /\ s.since <= n
          /\ \A h \in s.certified : h <= n
          /\ \A p \in Replica : s.propBlk[p] <= n
      BY <1>1 DEF Bounded
    <2> HIDE DEF n
    <2>4. /\ \A h \in u.certified : h <= n + 1
          /\ \A p \in Replica : u.propBlk[p] <= n + 1
      BY <1>4, <1>5, <2>2, <2>3
    <2> QED BY <1>4, <1>5, <2>1, <2>2, <2>3, <2>4, SMTT(30) DEF Bounded
  <1>7. Slots(u)
    BY <1>1, <1>4, <1>5 DEF Slots
  <1>8. Noted(u)
    BY <1>1, <1>4, <1>5, Fields DEF Noted, Bounded, NoBlock
  <1>9. Account(u, A)
    BY <1>1, <1>4 DEF Account
  <1>10. MidInv(u, A)
    BY <1>3, <1>4, <1>6, <1>7, <1>8, <1>9 DEF MidInv
  <1>11. Goes(s, u)
    BY <1>1, <1>4, <1>5, Fields, SMTT(30) DEF Goes
  <1>12. Paced(s) => Paced(u)
    BY <1>4, <1>5 DEF Paced, BeatAt, BeatsDone
  <1> QED BY <1>5, <1>10, <1>11, <1>12 DEF u

(* The parts of a state that promises, timers and rotations leave alone. *)
SameCore(s, u) ==
  /\ u.chain = s.chain /\ u.hqc = s.hqc /\ u.exec = s.exec /\ u.certified = s.certified
  /\ u.waiting = s.waiting /\ u.ran = s.ran /\ u.beats = s.beats
SamePace(s, u) ==
  /\ u.lastProposed = s.lastProposed /\ u.locked = s.locked /\ u.watching = s.watching
  /\ u.proposer = s.proposer /\ u.rotating = s.rotating /\ u.timer = s.timer
  /\ u.propBlk = s.propBlk /\ u.calls = s.calls /\ u.since = s.since

(* A rejected promise has no callbacks left; the others are as they were. *)
LEMMA RejectIs ==
  ASSUME NEW s, NEW A, MidInv(s, A), NEW h \in Nat
  PROVE  LET u == Reject(s, h) IN
         /\ MidInv(u, A) /\ SameCore(s, u) /\ SamePace(s, u)
         /\ u.qcFinish = s.qcFinish /\ u.qcManual = s.qcManual
         /\ DOMAIN u.onQc = DOMAIN s.onQc
         /\ \A i \in DOMAIN s.onQc : u.onQc[i] = IF i = h THEN << >> ELSE s.onQc[i]
  <1> DEFINE u == Reject(s, h)
             q == [i \in DOMAIN s.onQc |-> IF i = h THEN << >> ELSE s.onQc[i]]
  <1>1. s \in RState /\ Bounded(s) /\ Slots(s) /\ Noted(s) /\ Account(s, A)
    BY DEF MidInv
  <1>2. /\ q \in Seq(Seq(Callback)) /\ Len(q) = Len(s.onQc)
        /\ DOMAIN q = DOMAIN s.onQc
        /\ \A i \in DOMAIN s.onQc : q[i] = IF i = h THEN << >> ELSE s.onQc[i]
    <2>1. /\ Len(s.onQc) \in Nat /\ DOMAIN s.onQc = 1 .. Len(s.onQc)
          /\ \A i \in 1 .. Len(s.onQc) : s.onQc[i] \in Seq(Callback)
      BY <1>1, Fields
    <2> QED BY <2>1
  <1>3. u = [s EXCEPT !.onQc = q]  BY DEF Reject
  <1> HIDE DEF q
  <1>4. u \in RState /\ u.onQc = q
        /\ SameCore(s, u) /\ SamePace(s, u)
        /\ u.qcFinish = s.qcFinish /\ u.qcManual = s.qcManual
    BY <1>1, <1>2, <1>3, ZenonT(60) DEF RState, SameCore, SamePace
  <1> HIDE DEF u
  <1>5. Bounded(u)  BY <1>1, <1>2, <1>4 DEF Bounded, SameCore, SamePace
  <1>6. Slots(u)  BY <1>1, <1>2, <1>4 DEF Slots
  <1>7. Noted(u)  BY <1>1, <1>4 DEF Noted, SameCore, SamePace
  <1>8. Account(u, A)  BY <1>1, <1>4 DEF Account, SameCore
  <1>9. MidInv(u, A)
    BY <1>4, <1>5, <1>6, <1>7, <1>8 DEF MidInv, SameCore, SamePace
  <1> QED BY <1>2, <1>4, <1>9 DEF u

(* rotate() and stop_rotate() reject both promises, and with them all       *)
(* callbacks there are.                                                    *)
LEMMA RejectBothIs ==
  ASSUME NEW s, NEW A, MidInv(s, A)
  PROVE  LET u == RejectBoth(s) IN
         /\ MidInv(u, A) /\ SameCore(s, u) /\ SamePace(s, u)
         /\ u.qcFinish = 0 /\ u.qcManual = 0
         /\ DOMAIN u.onQc = DOMAIN s.onQc
         /\ \A i \in DOMAIN s.onQc : u.onQc[i] = << >>
  <1> DEFINE t == Reject(s, s.qcFinish)
             v == Reject(t, s.qcManual)
             u == RejectBoth(s)
  <1>1. s \in RState /\ Slots(s) /\ s.qcFinish \in Nat /\ s.qcManual \in Nat
    BY Fields DEF MidInv
  <1>2. /\ MidInv(t, A) /\ SameCore(s, t) /\ SamePace(s, t)
        /\ DOMAIN t.onQc = DOMAIN s.onQc
        /\ \A i \in DOMAIN s.onQc : t.onQc[i] = IF i = s.qcFinish THEN << >> ELSE s.onQc[i]
    BY <1>1, RejectIs
  <1> HIDE DEF t
  <1>3. /\ MidInv(v, A) /\ SameCore(t, v) /\ SamePace(t, v)
        /\ DOMAIN v.onQc = DOMAIN t.onQc
        /\ \A i \in DOMAIN t.onQc : v.onQc[i] = IF i = s.qcManual THEN << >> ELSE t.onQc[i]
    BY <1>1, <1>2, RejectIs
  <1>4. u = [v EXCEPT !.qcFinish = 0, !.qcManual = 0]
    BY DEF RejectBoth, t, NoPromise
  <1> HIDE DEF v
  <1>5. v \in RState /\ Bounded(v) /\ Noted(v) /\ Account(v, A) /\ DOMAIN v.onQc = DOMAIN s.onQc
    BY <1>2, <1>3 DEF MidInv
  <1>6. \A i \in DOMAIN s.onQc : v.onQc[i] = << >>
    <2> SUFFICES ASSUME NEW i \in DOMAIN s.onQc, i # s.qcFinish, i # s.qcManual
                 PROVE  s.onQc[i] = << >>
      BY <1>2, <1>3
    <2>1. s.onQc[i] \in Seq(Callback)  BY <1>1, Fields
    <2>2. DOMAIN s.onQc[i] = {}  BY <1>1 DEF Slots
    <2>3. Len(s.onQc[i]) \in Nat /\ DOMAIN s.onQc[i] = 1 .. Len(s.onQc[i])  BY <2>1
    <2>4. Len(s.onQc[i]) = 0
      <3> DEFINE k == Len(s.onQc[i])
      <3>1. k \in Nat /\ 1 .. k = {}  BY <2>2, <2>3
      <3> HIDE DEF k
      <3>2. k = 0  BY <3>1
      <3> QED BY <3>2 DEF k
    <2> QED BY <2>1, <2>4
  <1>7. /\ u \in RState /\ u.onQc = v.onQc /\ u.qcFinish = 0 /\ u.qcManual = 0
        /\ SameCore(v, u) /\ SamePace(v, u)
    <2>1. v \in RState /\ 0 \in Nat  BY <1>5
    <2>2. u \in RState  BY <1>4, <2>1, ZenonT(60) DEF RState
    <2>3. u.onQc = v.onQc /\ u.qcFinish = 0 /\ u.qcManual = 0
      BY <1>4, <2>1 DEF RState
    <2>4. SameCore(v, u) /\ SamePace(v, u)
      BY <1>4, <2>1 DEF RState, SameCore, SamePace
    <2> QED BY <2>2, <2>3, <2>4
  <1> HIDE DEF u
  <1>8. Bounded(u)
    <2>1. Len(v.chain) \in Nat  BY <1>5, Fields
    <2> QED BY <1>5, <1>7, <2>1 DEF Bounded, SameCore, SamePace
  <1>9. Slots(u)  BY <1>5, <1>6, <1>7 DEF Slots
  <1>10. Noted(u)  BY <1>5, <1>7 DEF Noted, SameCore, SamePace
  <1>11. Account(u, A)  BY <1>5, <1>7 DEF Account, SameCore
  <1>12. MidInv(u, A)
    BY <1>3, <1>7, <1>8, <1>9, <1>10, <1>11 DEF MidInv, SameCore, SamePace
  <1>13. SameCore(s, u) /\ SamePace(s, u)
    BY <1>2, <1>3, <1>7 DEF SameCore, SamePace
  <1> QED BY <1>5, <1>6, <1>7, <1>12, <1>13 DEF u

(* rotate() *)
LEMMA RotateInv ==
  ASSUME NEW s, NEW A, MidInv(s, A)
  PROVE  LET u == Rotate(s) IN
         MidInv(u, A) /\ u.rotating /\ u.exec = s.exec
  <1> DEFINE t == RejectBoth(s)
             u == Rotate(s)
             p == (t.proposer + 1) % nreplicas
             pb == [r \in Replica |-> NoBlock]
  <1>1. /\ MidInv(t, A) /\ SameCore(s, t)
        /\ t.qcFinish = 0 /\ t.qcManual = 0
        /\ \A i \in DOMAIN t.onQc : t.onQc[i] = << >>
    BY RejectBothIs
  <1>2. u = [t EXCEPT !.propBlk = pb, !.rotating = TRUE, !.proposer = p, !.watching = FALSE,
                      !.timer = "exp", !.since = Len(s.chain)]
    BY DEF Rotate
  <1>3. t \in RState /\ Bounded(t) /\ Account(t, A) /\ 0 \in t.certified /\ Slots(t)
    BY <1>1 DEF MidInv
  <1> HIDE DEF t
  <1>4. /\ p \in Replica /\ pb \in [Replica -> Nat] /\ \A r \in Replica : pb[r] = 0
        /\ Len(s.chain) \in Nat /\ Len(t.chain) = Len(s.chain)
    <2>1. t.proposer \in Nat /\ nreplicas \in Nat \ {0}
      BY <1>3, Fields, Numbers DEF Replica
    <2>2. p \in 0 .. nreplicas - 1  BY <2>1
    <2>3. Len(t.chain) \in Nat /\ t.chain = s.chain  BY <1>1, <1>3, Fields DEF SameCore
    <2> QED BY <2>2, <2>3 DEF Replica, NoBlock
  <1> HIDE DEF p, pb
  <1>5. /\ u \in RState /\ SameCore(t, u) /\ u.onQc = t.onQc
        /\ u.qcFinish = 0 /\ u.qcManual = 0 /\ u.lastProposed = t.lastProposed
        /\ u.propBlk = pb /\ u.rotating = TRUE /\ u.watching = FALSE
        /\ u.since = Len(s.chain)
    BY <1>1, <1>2, <1>3, <1>4, ZenonT(60) DEF RState, SameCore, Timer
  <1> HIDE DEF u
  <1>6. Bounded(u)
    BY <1>3, <1>4, <1>5 DEF Bounded, SameCore
  <1>7. Slots(u)  BY <1>1, <1>5 DEF Slots
  <1>8. Noted(u)  BY <1>4, <1>5 DEF Noted, NoBlock
  <1>9. Account(u, A)  BY <1>3, <1>5 DEF Account, SameCore
  <1>10. MidInv(u, A)
    BY <1>3, <1>5, <1>6, <1>7, <1>8, <1>9 DEF MidInv, SameCore
  <1> QED BY <1>1, <1>5, <1>10 DEF u, SameCore

(* stop_rotate() *)
LEMMA StopRotateInv ==
  ASSUME NEW s, NEW A, MidInv(s, A)
  PROVE  LET u == StopRotate(s) IN
         /\ MidInv(u, A) /\ SameCore(s, u)
         /\ u.propBlk = s.propBlk /\ u.since = s.since /\ u.proposer = s.proposer
         /\ ~u.rotating /\ ~u.locked /\ u.qcManual = 0
         /\ u.proposer = Me => u.calls > 0
  <1> DEFINE t == RejectBoth(s)
             u == StopRotate(s)
             k == IF s.proposer = Me THEN t.calls + 1 ELSE t.calls
  <1>1. /\ MidInv(t, A) /\ SameCore(s, t) /\ SamePace(s, t)
        /\ t.qcFinish = 0 /\ t.qcManual = 0
        /\ \A i \in DOMAIN t.onQc : t.onQc[i] = << >>
    BY RejectBothIs
  <1>2. u = [t EXCEPT !.timer = "none", !.rotating = FALSE, !.locked = FALSE,
                      !.lastProposed = 0, !.watching = TRUE, !.calls = k]
    BY DEF StopRotate
  <1>3. /\ t \in RState /\ Bounded(t) /\ Account(t, A) /\ 0 \in t.certified /\ Slots(t)
        /\ Noted(t)
    BY <1>1 DEF MidInv
  <1> HIDE DEF t
  <1>4. k \in Nat /\ (s.proposer = Me => k > 0) /\ Len(t.chain) \in Nat
    BY <1>3, Fields
  <1> HIDE DEF k
  <1>5. /\ u \in RState /\ SameCore(t, u) /\ u.onQc = t.onQc
        /\ u.qcFinish = 0 /\ u.qcManual = 0 /\ u.lastProposed = 0
        /\ u.propBlk = t.propBlk /\ u.rotating = FALSE /\ u.watching = TRUE
        /\ u.locked = FALSE /\ u.calls = k /\ u.since = t.since /\ u.proposer = t.proposer
    BY <1>1, <1>2, <1>3, <1>4, ZenonT(60) DEF RState, SameCore, Timer
  <1> HIDE DEF u
  <1>6. Bounded(u)
    BY <1>3, <1>4, <1>5 DEF Bounded, SameCore
  <1>7. Slots(u)  BY <1>1, <1>5 DEF Slots
  <1>8. Noted(u)  BY <1>3, <1>5 DEF Noted, SameCore
  <1>9. Account(u, A)  BY <1>3, <1>5 DEF Account, SameCore
  <1>10. MidInv(u, A)
    BY <1>3, <1>5, <1>6, <1>7, <1>8, <1>9 DEF MidInv, SameCore
  <1> QED BY <1>1, <1>4, <1>5, <1>10 DEF u, SameCore, SamePace

(* do_decide answers the commands that wait. *)
LEMMA DecideInv ==
  ASSUME NEW s, NEW A, MidInv(s, A), NEW blks \in SUBSET (1 .. Len(s.chain))
  PROVE  LET u == Decide(s, blks) IN
         /\ MidInv(u, A) /\ SamePace(s, u)
         /\ u.chain = s.chain /\ u.hqc = s.hqc /\ u.exec = s.exec
         /\ u.certified = s.certified /\ u.beats = s.beats /\ u.waiting \subseteq s.waiting
         /\ u.onQc = s.onQc /\ u.qcFinish = s.qcFinish /\ u.qcManual = s.qcManual
  <1> DEFINE u == Decide(s, blks)
             done == s.waiting \cap CmdsOf(s, blks)
             ran == [c \in Cmd |-> IF c \in done THEN s.ran[c] + 1 ELSE s.ran[c]]
  <1>1. /\ s \in RState /\ Bounded(s) /\ Slots(s) /\ Noted(s) /\ Account(s, A)
        /\ s.waiting \subseteq Cmd /\ s.ran \in [Cmd -> Nat] /\ Len(s.chain) \in Nat
    BY Fields DEF MidInv
  <1>2. u = [s EXCEPT !.waiting = s.waiting \ done, !.ran = ran]
    BY DEF Decide
  <1> HIDE DEF done
  <1>3. /\ ran \in [Cmd -> Nat]
        /\ \A c \in Cmd : ran[c] = IF c \in done THEN s.ran[c] + 1 ELSE s.ran[c]
    BY <1>1
  <1>4. done \subseteq s.waiting  BY DEF done
  <1> HIDE DEF ran
  <1>5. /\ u \in RState /\ u.waiting = s.waiting \ done /\ u.ran = ran
        /\ SamePace(s, u)
        /\ u.chain = s.chain /\ u.hqc = s.hqc /\ u.exec = s.exec
        /\ u.certified = s.certified /\ u.beats = s.beats
        /\ u.onQc = s.onQc /\ u.qcFinish = s.qcFinish /\ u.qcManual = s.qcManual
    <2>1. s \in RState /\ s.waiting \ done \in SUBSET Cmd /\ ran \in [Cmd -> Nat]
      BY <1>1, <1>3
    <2> QED BY <1>2, <2>1, ZenonT(60) DEF RState, SamePace
  <1> HIDE DEF u
  <1>6. Bounded(u)  BY <1>1, <1>5 DEF Bounded, SamePace
  <1>7. Slots(u)  BY <1>1, <1>5 DEF Slots
  <1>8. Noted(u)  BY <1>1, <1>5 DEF Noted, SamePace
  <1>9. Account(u, A)
    <2>1. \A c \in Cmd : u.ran[c] = IF c \in A \ u.waiting THEN 1 ELSE 0
      BY <1>1, <1>3, <1>4, <1>5 DEF Account
    <2> QED BY <1>1, <1>5, <2>1 DEF Account
  <1>10. MidInv(u, A)
    BY <1>5, <1>6, <1>7, <1>8, <1>9 DEF MidInv, SamePace
  <1> QED BY <1>5, <1>10 DEF u

(* Beats are no worse off when commands are executed. *)
LEMMA PacedKept ==
  ASSUME NEW s, NEW u, Paced(s),
         u.onQc = s.onQc, u.lastProposed = s.lastProposed, u.locked = s.locked,
         u.certified = s.certified, u.proposer = s.proposer, u.rotating = s.rotating,
         u.beats = s.beats, u.calls = s.calls, u.waiting \subseteq s.waiting
  PROVE  Paced(u)
  BY DEF Paced, BeatAt, BeatsDone

(* Certificates are for lower blocks. *)
LEMMA QcLower ==
  ASSUME NEW s, s \in RState, Bounded(s), NEW h \in 0 .. Len(s.chain)
  PROVE  /\ QcOf(s, h) \in 0 .. Len(s.chain)
         /\ h # 0 => QcOf(s, h) < h
  <1>1. CASE h = 0  BY <1>1, Fields DEF QcOf
  <1>2. CASE h # 0
    <2>1. /\ h \in 1 .. Len(s.chain) /\ s.chain[h] \in BlockOf /\ Len(s.chain) \in Nat
      BY <1>2, Fields
    <2>2. s.chain[h].qc \in Nat /\ s.chain[h].qc < h
      BY <2>1 DEF BlockOf, Bounded
    <2> QED BY <1>2, <2>1, <2>2 DEF QcOf
  <1> QED BY <1>1, <1>2

(* update(): whatever is decided was not executed before. *)
LEMMA UpdateInv ==
  ASSUME NEW s, NEW A, MidInv(s, A), s.chain # << >>
  PROVE  LET u == Update(s) IN
         /\ MidInv(u, A) /\ Goes(s, u)
         /\ u.chain = s.chain /\ u.certified = s.certified
         /\ u.qcManual \in {s.qcManual, 0}
         /\ Paced(s) => Paced(u)
  <1> DEFINE u == Update(s)
             n == Len(s.chain)
             qc == QcOf(s, n)
             lockee == IF TwoStep THEN qc ELSE QcOf(s, qc)
             blk == QcOf(s, lockee)
             commits == /\ blk > s.exec
                        /\ blk + 1 = lockee
                        /\ TwoStep \/ lockee + 1 = qc
             hq == IF qc > s.exec /\ qc > s.hqc THEN qc ELSE s.hqc
             t == [s EXCEPT !.hqc = hq]
             decided == s.exec + 1 .. blk
             w == OnConsensus(t, decided)
             d == Decide(w, decided)
  <1>1. /\ s \in RState /\ Bounded(s) /\ Slots(s) /\ Noted(s) /\ Account(s, A)
        /\ n \in Nat \ {0} /\ s.exec \in Nat /\ s.hqc \in Nat /\ s.hqc <= n /\ s.exec <= n
    <2>1. s \in RState /\ s.chain \in Seq(BlockOf) /\ n \in Nat  BY Fields DEF MidInv
    <2>2. n # 0  BY <2>1
    <2> QED BY <2>1, <2>2, Fields DEF MidInv, Bounded
  <1>2. u = IF commits THEN [d EXCEPT !.exec = blk] ELSE t
    BY DEF Update
  <1>3. /\ qc \in 0 .. n /\ lockee \in 0 .. n /\ blk \in 0 .. n
    <2>1. s \in RState /\ Bounded(s) /\ n \in 0 .. n /\ 0 \in 0 .. n  BY <1>1
    <2>2. qc \in 0 .. n  BY <2>1, QcLower
    <2> HIDE DEF qc
    <2>3. lockee \in 0 .. n  BY <2>1, <2>2, QcLower
    <2> HIDE DEF lockee
    <2>4. blk \in 0 .. n  BY <2>1, <2>3, QcLower
    <2> QED BY <2>2, <2>3, <2>4
  <1> HIDE DEF qc
  <1> HIDE DEF lockee
  <1> HIDE DEF blk
  <1>4. hq \in Nat /\ hq <= n  BY <1>1, <1>3
  <1> HIDE DEF hq
  <1>5. /\ t \in RState /\ t.hqc = hq /\ SamePace(s, t)
        /\ t.chain = s.chain /\ t.exec = s.exec /\ t.certified = s.certified
        /\ t.waiting = s.waiting /\ t.ran = s.ran /\ t.beats = s.beats
        /\ t.onQc = s.onQc /\ t.qcFinish = s.qcFinish /\ t.qcManual = s.qcManual
    BY <1>1, <1>4 DEF RState, SamePace
  <1> HIDE DEF t
  <1>6. MidInv(t, A)
    <2>1. Bounded(t)  BY <1>1, <1>4, <1>5 DEF Bounded, SamePace
    <2>2. Slots(t)  BY <1>1, <1>5 DEF Slots
    <2>3. Noted(t)  BY <1>1, <1>5 DEF Noted, SamePace
    <2>4. Account(t, A)  BY <1>1, <1>5 DEF Account
    <2> QED BY <1>5, <2>1, <2>2, <2>3, <2>4 DEF MidInv, SamePace
  <1>7. Paced(s) => Paced(t)
    BY <1>5, PacedKept DEF SamePace
  <1>8. CASE ~commits
    <2>1. u = t  BY <1>2, <1>8
    <2>2. Goes(s, t)  BY <1>1, <1>5, Fields DEF Goes, SamePace
    <2> HIDE DEF u
    <2> QED BY <1>5, <1>6, <1>7, <2>1, <2>2 DEF u
  <1>9. CASE commits
    <2> DEFINE v == [t EXCEPT !.timer = "none"]
    <2>1. /\ v \in RState /\ SameCore(t, v) /\ v.onQc = t.onQc
          /\ v.qcFinish = t.qcFinish /\ v.qcManual = t.qcManual
          /\ v.lastProposed = t.lastProposed /\ v.locked = t.locked
          /\ v.watching = t.watching /\ v.proposer = t.proposer /\ v.rotating = t.rotating
          /\ v.propBlk = t.propBlk /\ v.calls = t.calls /\ v.since = t.since
      BY <1>5 DEF RState, SameCore, Timer
    <2>2. w = IF v.propBlk[v.proposer] \in decided THEN StopRotate(v) ELSE v
      BY DEF OnConsensus
    <2> HIDE DEF v
    <2>3. MidInv(v, A) /\ (Paced(s) => Paced(v))
      <3>1. Bounded(v)  BY <1>6, <2>1 DEF MidInv, Bounded, SameCore
      <3>2. Slots(v)  BY <1>6, <2>1 DEF MidInv, Slots
      <3>3. Noted(v)  BY <1>6, <2>1 DEF MidInv, Noted, SameCore
      <3>4. Account(v, A)  BY <1>6, <2>1 DEF MidInv, Account, SameCore
      <3>5. MidInv(v, A)
        BY <1>6, <2>1, <3>1, <3>2, <3>3, <3>4 DEF MidInv, SameCore
      <3>6. Paced(t) => Paced(v)  BY <2>1, PacedKept DEF SameCore
      <3> QED BY <1>7, <3>5, <3>6
    <2>4. /\ MidInv(w, A) /\ (Paced(s) => Paced(w)) /\ SameCore(v, w)
          /\ w.proposer = v.proposer /\ w.since = v.since
          /\ v.rotating /\ ~w.rotating => v.propBlk[v.proposer] \in decided
          /\ w.qcManual \in {v.qcManual, 0}
      <3>1. CASE v.propBlk[v.proposer] \in decided
        <4>1. w = StopRotate(v)  BY <2>2, <3>1
        <4>2. /\ MidInv(w, A) /\ SameCore(v, w)
              /\ w.proposer = v.proposer /\ w.since = v.since
              /\ ~w.rotating /\ ~w.locked /\ w.qcManual = 0
              /\ w.proposer = Me => w.calls > 0
          BY <2>3, <4>1, StopRotateInv
        <4>3. Paced(w)  BY <4>2 DEF Paced
        <4> QED BY <3>1, <4>2, <4>3
      <3>2. CASE ~(v.propBlk[v.proposer] \in decided)
        <4>1. w = v  BY <2>2, <3>2
        <4> QED BY <2>3, <4>1 DEF SameCore
      <3> QED BY <3>1, <3>2
    <2> HIDE DEF w
    <2>5. decided \in SUBSET (1 .. Len(w.chain)) /\ w.chain = s.chain /\ w.exec = s.exec
      <3>1. w.chain = s.chain /\ w.exec = s.exec  BY <1>5, <2>1, <2>4 DEF SameCore
      <3>2. decided \subseteq 1 .. n  BY <1>1, <1>3
      <3> QED BY <3>1, <3>2
    <2> HIDE DEF decided
    <2>6. /\ MidInv(d, A) /\ SamePace(w, d)
          /\ d.chain = w.chain /\ d.hqc = w.hqc /\ d.exec = w.exec
          /\ d.certified = w.certified /\ d.beats = w.beats /\ d.waiting \subseteq w.waiting
          /\ d.onQc = w.onQc /\ d.qcFinish = w.qcFinish /\ d.qcManual = w.qcManual
      BY <2>4, <2>5, DecideInv
    <2> HIDE DEF d
    <2>7. /\ d \in RState /\ Bounded(d) /\ Slots(d) /\ Noted(d) /\ Account(d, A)
      BY <2>6 DEF MidInv
    <2>8. /\ u \in RState /\ u.exec = blk /\ SamePace(d, u)
          /\ u.chain = d.chain /\ u.hqc = d.hqc /\ u.certified = d.certified
          /\ u.waiting = d.waiting /\ u.ran = d.ran /\ u.beats = d.beats
          /\ u.onQc = d.onQc /\ u.qcFinish = d.qcFinish /\ u.qcManual = d.qcManual
      <3>1. u = [d EXCEPT !.exec = blk] /\ blk \in Nat  BY <1>2, <1>3, <1>9
      <3> HIDE DEF u
      <3> QED BY <2>7, <3>1 DEF RState, SamePace
    <2> HIDE DEF u
    <2>9. MidInv(u, A)
      <3>1. Bounded(u)
        <4>1. blk <= n /\ n = Len(u.chain)  BY <1>1, <1>3, <2>5, <2>6, <2>8
        <4> QED BY <2>7, <2>8, <4>1 DEF Bounded, SamePace
      <3>2. Slots(u)  BY <2>7, <2>8 DEF Slots
      <3>3. Noted(u)  BY <2>7, <2>8 DEF Noted, SamePace
      <3>4. Account(u, A)  BY <2>7, <2>8 DEF Account
      <3> QED BY <2>6, <2>8, <3>1, <3>2, <3>3, <3>4 DEF MidInv, SamePace
    <2>10. /\ u.chain = s.chain /\ u.certified = s.certified
           /\ u.qcManual \in {s.qcManual, 0}
      BY <1>5, <2>1, <2>4, <2>6, <2>8 DEF SameCore
    <2>11. Paced(s) => Paced(u)
      <3>1. Paced(w) => Paced(d)  BY <2>6, PacedKept DEF SamePace
      <3>2. Paced(d) => Paced(u)  BY <2>8, PacedKept DEF SamePace
      <3> QED BY <2>4, <3>1, <3>2
    <2>12. Goes(s, u)
      <3>1. /\ u.proposer = s.proposer /\ u.since = s.since /\ s.exec <= u.exec
            /\ s.rotating = v.rotating /\ u.rotating = w.rotating
            /\ v.proposer = s.proposer /\ v.propBlk = s.propBlk
        BY <1>1, <1>3, <1>5, <1>9, <2>1, <2>4, <2>6, <2>8 DEF SamePace
      <3>2. ASSUME s.rotating, ~u.rotating PROVE Elected(s, u)
        <4>1. s.propBlk[s.proposer] \in decided  BY <2>4, <3>1, <3>2
        <4>2. s.proposer \in Replica  BY <1>1, Fields
        <4>3. s.propBlk[s.proposer] \in s.exec + 1 .. u.exec  BY <2>8, <4>1 DEF decided
        <4>4. s.propBlk[s.proposer] # NoBlock  BY <1>1, <4>3 DEF NoBlock
        <4>5. /\ s.chain[s.propBlk[s.proposer]].by = s.proposer
              /\ s.propBlk[s.proposer] > s.since
          BY <1>1, <4>2, <4>4 DEF Noted
        <4> QED BY <2>10, <3>1, <4>3, <4>5 DEF Elected
      <3> QED BY <1>1, <2>10, <3>1, <3>2 DEF Goes
    <2> QED BY <2>9, <2>10, <2>11, <2>12 DEF u
  <1> QED BY <1>8, <1>9

(* async_wait_receive_proposal: the first new block of each proposer. *)
LEMMA NoteInv ==
  ASSUME NEW s, NEW A, MidInv(s, A), NEW p \in Replica, NEW h \in 1 .. Len(s.chain),
         s.chain[h].by = p, h > s.since
  PROVE  LET u == NoteProposal(s, p, h) IN
         /\ MidInv(u, A) /\ Goes(s, u) /\ SameCore(s, u)
         /\ u.lastProposed = s.lastProposed /\ u.watching = s.watching
         /\ u.qcManual = s.qcManual
         /\ Paced(s) => Paced(u)
  <1> DEFINE u == NoteProposal(s, p, h)
             pb == [s.propBlk EXCEPT ![p] = h]
  <1>1. /\ s \in RState /\ Bounded(s) /\ Slots(s) /\ Noted(s) /\ Account(s, A)
        /\ h \in Nat /\ h <= Len(s.chain) /\ s.propBlk \in [Replica -> Nat]
        /\ s.exec \in Nat /\ Len(s.chain) \in Nat
    BY Fields DEF MidInv
  <1>2. CASE s.rotating /\ s.propBlk[p] = NoBlock
    <2>1. u = [s EXCEPT !.propBlk = pb]
      BY <1>2 DEF NoteProposal
    <2>2. /\ pb \in [Replica -> Nat]
          /\ \A r \in Replica : pb[r] = IF r = p THEN h ELSE s.propBlk[r]
      BY <1>1
    <2> HIDE DEF pb
    <2>3. /\ u \in RState /\ u.propBlk = pb /\ SameCore(s, u)
          /\ u.onQc = s.onQc /\ u.qcFinish = s.qcFinish /\ u.qcManual = s.qcManual
          /\ u.lastProposed = s.lastProposed /\ u.locked = s.locked
          /\ u.watching = s.watching /\ u.proposer = s.proposer /\ u.rotating = s.rotating
          /\ u.calls = s.calls /\ u.since = s.since
      BY <1>1, <2>1, <2>2, ZenonT(60) DEF RState, SameCore
    <2> HIDE DEF u
    <2>4. Bounded(u)
      <3>1. \A r \in Replica : u.propBlk[r] <= Len(u.chain)
        BY <1>1, <2>2, <2>3 DEF Bounded, SameCore
      <3> QED BY <1>1, <2>3, <3>1 DEF Bounded, SameCore
    <2>5. Slots(u)  BY <1>1, <2>3 DEF Slots
    <2>6. Noted(u)
      <3> SUFFICES ASSUME NEW r \in Replica, u.propBlk[r] # NoBlock
                   PROVE  u.chain[u.propBlk[r]].by = r /\ u.propBlk[r] > u.since
        BY DEF Noted
      <3>1. CASE r = p  BY <2>2, <2>3, <3>1 DEF SameCore
      <3>2. CASE r # p  BY <1>1, <2>2, <2>3, <3>2 DEF Noted, SameCore
      <3> QED BY <3>1, <3>2
    <2>7. Account(u, A)  BY <1>1, <2>3 DEF Account, SameCore
    <2>8. MidInv(u, A)
      BY <2>3, <2>4, <2>5, <2>6, <2>7 DEF MidInv, SameCore
    <2>9. Goes(s, u)  BY <1>1, <2>3 DEF Goes, SameCore
    <2>10. Paced(s) => Paced(u)  BY <2>3, PacedKept DEF SameCore
    <2> QED BY <2>3, <2>8, <2>9, <2>10 DEF u
  <1>3. CASE ~(s.rotating /\ s.propBlk[p] = NoBlock)
    <2>1. u = s  BY <1>3 DEF NoteProposal
    <2>2. Goes(s, s)  BY <1>1 DEF Goes
    <2> QED BY <2>1, <2>2 DEF SameCore
  <1> QED BY <1>2, <1>3

(* No callback of a kind waits, anywhere. *)
NoneOf(s, kind) ==
  \A g \in DOMAIN s.onQc : \A i \in DOMAIN s.onQc[g] : s.onQc[g][i].kind # kind

(* Callbacks are beats or rounds. *)
LEMMA Kinds ==
  ASSUME NEW cb \in Callback
  PROVE  cb.kind \in {"beat", "round"} /\ "beat" # "round"
  BY DEF Callback, BeatOf, Round

(* reject() of pm_qc_finish frees the slot of the beats, that of           *)
(* pm_qc_manual the one of the rounds.                                     *)
LEMMA RejectFrees ==
  ASSUME NEW s, NEW A, MidInv(s, A)
  PROVE  /\ NoneOf(Reject(s, s.qcFinish), "beat")
         /\ NoneOf(Reject(s, s.qcManual), "round")
  <1>1. /\ s \in RState /\ Slots(s) /\ s.qcFinish \in Nat /\ s.qcManual \in Nat
    BY Fields DEF MidInv
  <1>2. \A g \in DOMAIN s.onQc : \A i \in DOMAIN s.onQc[g] : s.onQc[g][i] \in Callback
    <2>1. \A g \in DOMAIN s.onQc : s.onQc[g] \in Seq(Callback)  BY <1>1, Fields
    <2> QED BY <2>1
  <1>3. ASSUME NEW h \in Nat, NEW kind,
               \A g \in DOMAIN s.onQc : \A i \in DOMAIN s.onQc[g] :
                 s.onQc[g][i].kind = kind => g = h
        PROVE  NoneOf(Reject(s, h), kind)
    <2> DEFINE u == Reject(s, h)
    <2>1. /\ DOMAIN u.onQc = DOMAIN s.onQc
          /\ \A i \in DOMAIN s.onQc : u.onQc[i] = IF i = h THEN << >> ELSE s.onQc[i]
      BY RejectIs
    <2> HIDE DEF u
    <2>2. NoneOf(u, kind)
      <3> SUFFICES ASSUME NEW g \in DOMAIN u.onQc, NEW i \in DOMAIN u.onQc[g],
                          u.onQc[g][i].kind = kind
                   PROVE  FALSE
        BY DEF NoneOf
      <3>1. g # h
        <4>1. g = h => u.onQc[g] = << >>  BY <2>1
        <4>2. DOMAIN << >> = {}  OBVIOUS
        <4> QED BY <4>1, <4>2
      <3> QED BY <1>3, <2>1, <3>1
    <2> QED BY <2>2 DEF u
  <1>4. \A g \in DOMAIN s.onQc : \A i \in DOMAIN s.onQc[g] :
          /\ s.onQc[g][i].kind = "beat" => g = s.qcFinish
          /\ s.onQc[g][i].kind = "round" => g = s.qcManual
    BY <1>1, <1>2, Kinds DEF Slots
  <1> QED BY <1>1, <1>3, <1>4

(* async_qc_finish(h).then(cb), when no callback of its kind waits yet and *)
(* the promise for it is the one for block h.                              *)
LEMMA AwaitIs ==
  ASSUME NEW t, NEW A, MidInv(t, A), NEW h \in DOMAIN t.onQc, NEW cb \in Callback,
         NoneOf(t, cb.kind),
         IF cb.kind = "beat" THEN t.qcFinish = h ELSE t.qcManual = h
  PROVE  LET u == Await(t, h, cb) IN
         /\ MidInv(u, A) /\ SameCore(t, u) /\ SamePace(t, u)
         /\ u.qcFinish = t.qcFinish /\ u.qcManual = t.qcManual
         /\ DOMAIN u.onQc = DOMAIN t.onQc
         /\ cb.kind = "beat" => BeatAt(u, h)
         /\ \A g \in DOMAIN t.onQc : BeatAt(t, g) => BeatAt(u, g)
  <1> DEFINE u == Await(t, h, cb)
             q == [t.onQc EXCEPT ![h] = Append(t.onQc[h], cb)]
             n == Len(t.onQc[h])
  <1>1. /\ t \in RState /\ Bounded(t) /\ Slots(t) /\ Noted(t) /\ Account(t, A)
    BY DEF MidInv
  <1>2. /\ t.onQc \in Seq(Seq(Callback)) /\ t.onQc[h] \in Seq(Callback) /\ n \in Nat
    BY <1>1, Fields
  <1>3. /\ q \in Seq(Seq(Callback)) /\ Len(q) = Len(t.onQc) /\ DOMAIN q = DOMAIN t.onQc
        /\ q[h] = Append(t.onQc[h], cb)
        /\ \A g \in DOMAIN t.onQc : g # h => q[g] = t.onQc[g]
    BY <1>2
  <1>4. /\ DOMAIN q[h] = 1 .. n + 1 /\ DOMAIN t.onQc[h] = 1 .. n
        /\ q[h][n + 1] = cb
        /\ \A i \in 1 .. n : q[h][i] = t.onQc[h][i]
    BY <1>2, <1>3
  <1>5. cb.kind \in {"beat", "round"} /\ "beat" # "round"  BY Kinds
  <1>6. u = [t EXCEPT !.onQc = q]  BY DEF Await
  <1> HIDE DEF n, q
  <1>7. u \in RState /\ u.onQc = q /\ SameCore(t, u) /\ SamePace(t, u)
        /\ u.qcFinish = t.qcFinish /\ u.qcManual = t.qcManual
    BY <1>1, <1>3, <1>6, ZenonT(60) DEF RState, SameCore, SamePace
  <1> HIDE DEF u
  <1>8. Slots(u)
    <2> SUFFICES ASSUME NEW g \in DOMAIN t.onQc
                 PROVE  /\ \A i \in DOMAIN q[g] :
                             IF q[g][i].kind = "beat" THEN g = t.qcFinish ELSE g = t.qcManual
                        /\ \A i, j \in DOMAIN q[g] : q[g][i].kind = q[g][j].kind => i = j
      BY <1>3, <1>7 DEF Slots
    <2>1. \A i \in DOMAIN t.onQc[g] :
            IF t.onQc[g][i].kind = "beat" THEN g = t.qcFinish ELSE g = t.qcManual
      BY <1>1 DEF Slots
    <2>2. \A i, j \in DOMAIN t.onQc[g] : t.onQc[g][i].kind = t.onQc[g][j].kind => i = j
      BY <1>1 DEF Slots
    <2>3. CASE g # h
      BY <1>3, <2>1, <2>2, <2>3
    <2>4. CASE g = h
      <3>1. \A i \in 1 .. n : t.onQc[h][i].kind # cb.kind  BY <1>4 DEF NoneOf
      <3>2. \A i \in 1 .. n + 1 : i \in 1 .. n \/ i = n + 1  BY <1>2, SMTT(30)
      <3>3. \A i \in 1 .. n + 1 : IF q[h][i].kind = "beat" THEN h = t.qcFinish
                                                           ELSE h = t.qcManual
        <4> SUFFICES ASSUME NEW i \in 1 .. n + 1
                     PROVE  IF q[h][i].kind = "beat" THEN h = t.qcFinish
                                                     ELSE h = t.qcManual
          OBVIOUS
        <4>1. CASE i \in 1 .. n  BY <1>4, <2>1, <2>4, <4>1
        <4>2. CASE i = n + 1  BY <1>4, <4>2
        <4> QED BY <3>2, <4>1, <4>2
      <3>4. \A i, j \in 1 .. n + 1 : q[h][i].kind = q[h][j].kind => i = j
        BY <1>4, <2>2, <2>4, <3>1, <3>2, ZenonT(60)
      <3> QED BY <1>4, <2>4, <3>3, <3>4
    <2> QED BY <2>3, <2>4
  <1>9. cb.kind = "beat" => BeatAt(u, h)
    <2>1. n + 1 \in DOMAIN q[h]  BY <1>2, <1>4
    <2> QED BY <1>4, <1>7, <2>1 DEF BeatAt
  <1>10. ASSUME NEW g \in DOMAIN t.onQc, BeatAt(t, g) PROVE BeatAt(u, g)
    <2>1. PICK i \in DOMAIN t.onQc[g] : t.onQc[g][i].kind = "beat"  BY <1>10 DEF BeatAt
    <2>2. CASE g # h  BY <1>3, <1>7, <2>1, <2>2 DEF BeatAt
    <2>3. CASE g = h
      <3>0. i \in 1 .. n  BY <1>4, <2>1, <2>3
      <3>1. i \in 1 .. n + 1 /\ q[h][i] = t.onQc[h][i]  BY <1>2, <1>4, <3>0
      <3>2. i \in DOMAIN u.onQc[g] /\ u.onQc[g][i].kind = "beat"
        BY <1>4, <1>7, <2>1, <2>3, <3>1
      <3> QED BY <3>2 DEF BeatAt
    <2> QED BY <2>2, <2>3
  <1>11. MidInv(u, A)
    <2>1. Bounded(u)  BY <1>1, <1>3, <1>7 DEF Bounded, SameCore, SamePace
    <2>2. Noted(u)  BY <1>1, <1>7 DEF Noted, SameCore, SamePace
    <2>3. Account(u, A)  BY <1>1, <1>7 DEF Account, SameCore
    <2> QED BY <1>7, <1>8, <2>1, <2>2, <2>3 DEF MidInv, SameCore, SamePace
  <1> QED BY <1>3, <1>7, <1>9, <1>10, <1>11 DEF u

(* proposer_schedule_next: an unlocked pacemaker takes the first beat. *)
LEMMA ScheduleNextInv ==
  ASSUME NEW s, NEW A, MidInv(s, A),
         s.beats # << >> /\ ~s.locked => s.lastProposed \in DOMAIN s.onQc
  PROVE  LET u == ScheduleNext(s) IN
         /\ MidInv(u, A) /\ Goes(s, u)
         /\ u.chain = s.chain /\ u.certified = s.certified
         /\ u.lastProposed = s.lastProposed
         /\ u.qcManual = s.qcManual /\ u.watching = s.watching
         /\ s.beats = << >> \/ s.locked => u = s
         /\ s.beats # << >> /\ ~s.locked =>
              u.locked /\ u.lastProposed \in DOMAIN u.onQc /\ BeatAt(u, u.lastProposed)
  <1> DEFINE u == ScheduleNext(s)
             h == s.lastProposed
             cb == BeatOf(Head(s.beats))
             t == Reject(s, s.qcFinish)
             v == [t EXCEPT !.beats = Tail(s.beats), !.qcFinish = h, !.locked = TRUE]
  <1>1. /\ s \in RState /\ s.qcFinish \in Nat /\ h \in Nat /\ s.beats \in Seq(Cmd)
        /\ Slots(s) /\ Len(s.chain) \in Nat /\ Bounded(s)
        /\ s.exec \in Nat /\ s.locked \in BOOLEAN /\ Account(s, A)
    BY Fields DEF MidInv
  <1>2. CASE s.beats = << >> \/ s.locked
    <2>1. u = s  BY <1>2 DEF ScheduleNext
    <2>2. Goes(s, s)  BY <1>1 DEF Goes
    <2> QED BY <1>1, <1>2, <2>1, <2>2
  <1>3. CASE ~(s.beats = << >> \/ s.locked)
    <2>1. /\ MidInv(t, A) /\ SameCore(s, t) /\ SamePace(s, t)
          /\ t.qcFinish = s.qcFinish /\ t.qcManual = s.qcManual
          /\ DOMAIN t.onQc = DOMAIN s.onQc
          /\ NoneOf(t, "beat")
      BY <1>1, RejectIs, RejectFrees
    <2>2. u = Await(v, h, cb)
      BY <1>3 DEF ScheduleNext
    <2>3. /\ t \in RState /\ Slots(t) /\ Bounded(t) /\ Noted(t) /\ Account(t, A)
      BY <2>1 DEF MidInv
    <2> HIDE DEF t
    <2>4. /\ Tail(s.beats) \in Seq(Cmd) /\ Head(s.beats) \in Cmd
          /\ \A i \in DOMAIN Tail(s.beats) : Tail(s.beats)[i] \in A
      <3>1. /\ Tail(s.beats) \in Seq(Cmd) /\ Head(s.beats) \in Cmd
            /\ \A i \in DOMAIN Tail(s.beats) : /\ i + 1 \in DOMAIN s.beats
                                               /\ Tail(s.beats)[i] = s.beats[i + 1]
        BY <1>1, <1>3
      <3> QED BY <1>1, <3>1 DEF Account
    <2>5. cb \in Callback /\ cb.kind = "beat"  BY <2>4 DEF Callback, BeatOf
    <2> HIDE DEF cb
    <2>6. h \in DOMAIN t.onQc  BY <1>3, <2>1
    <2>7. /\ v \in RState /\ v.onQc = t.onQc /\ v.qcFinish = h /\ v.locked = TRUE
          /\ v.beats = Tail(s.beats) /\ v.qcManual = t.qcManual
          /\ v.chain = t.chain /\ v.hqc = t.hqc /\ v.exec = t.exec
          /\ v.certified = t.certified /\ v.waiting = t.waiting /\ v.ran = t.ran
          /\ v.lastProposed = t.lastProposed /\ v.watching = t.watching
          /\ v.proposer = t.proposer /\ v.rotating = t.rotating /\ v.propBlk = t.propBlk
          /\ v.since = t.since
      BY <1>1, <2>3, <2>4 DEF RState
    <2> HIDE DEF v
    <2>8. MidInv(v, A) /\ NoneOf(v, "beat")
      <3>1. h <= Len(t.chain)  BY <1>1, <2>1 DEF Bounded, SameCore
      <3>2. Bounded(v)  BY <2>3, <2>7, <3>1 DEF Bounded
      <3>3. NoneOf(v, "beat")  BY <2>1, <2>7 DEF NoneOf
      <3>4. Slots(v)  BY <2>3, <2>7, <3>3 DEF Slots, NoneOf
      <3>5. Noted(v)  BY <2>3, <2>7 DEF Noted
      <3>6. Account(v, A)  BY <2>3, <2>4, <2>7 DEF Account
      <3> QED BY <2>1, <2>7, <3>2, <3>3, <3>4, <3>5, <3>6 DEF MidInv
    <2> HIDE DEF h
    <2>9. /\ MidInv(u, A) /\ SameCore(v, u) /\ SamePace(v, u)
          /\ u.qcFinish = v.qcFinish /\ u.qcManual = v.qcManual
          /\ DOMAIN u.onQc = DOMAIN v.onQc /\ BeatAt(u, h)
      <3>1. h \in DOMAIN v.onQc /\ NoneOf(v, cb.kind)  BY <2>5, <2>6, <2>7, <2>8
      <3> QED BY <2>2, <2>5, <2>7, <2>8, <3>1, AwaitIs
    <2> HIDE DEF u
    <2>10. Goes(s, u)
      BY <1>1, <2>1, <2>7, <2>9 DEF Goes, SameCore, SamePace
    <2> QED BY <1>3, <2>1, <2>6, <2>7, <2>9, <2>10 DEF h, u, SameCore, SamePace
  <1> QED BY <1>2, <1>3

(* A new block of this replica starts the next beat, or ends the waiting.  *)
LEMMA OnProposalInv ==
  ASSUME NEW s, NEW A, MidInv(s, A), s.chain # << >>, Len(s.chain) \notin s.certified
  PROVE  LET u == OnProposal(s) IN
         /\ MidInv(u, A) /\ Goes(s, u) /\ Paced(u)
         /\ u.chain = s.chain /\ u.certified = s.certified /\ u.qcManual = s.qcManual
         /\ ~u.rotating => u.lastProposed = Len(u.chain)
  <1> DEFINE u == OnProposal(s)
             n == Len(s.chain)
             v == [s EXCEPT !.lastProposed = n, !.locked = FALSE]
  <1>1. /\ s \in RState /\ Bounded(s) /\ Slots(s) /\ Noted(s) /\ Account(s, A)
        /\ s.exec \in Nat /\ s.watching = ~s.rotating /\ s.rotating \in BOOLEAN
    BY Fields DEF MidInv
  <1>2. n \in Nat \ {0} /\ DOMAIN s.onQc = 1 .. n
    <2>1. s.chain \in Seq(BlockOf) /\ n \in Nat /\ Len(s.onQc) = n
      BY <1>1, Fields DEF Bounded
    <2>2. n # 0  BY <2>1
    <2> QED BY <1>1, <2>1, <2>2, Fields
  <1>3. CASE s.watching
    <2>1. u = ScheduleNext(v)  BY <1>3 DEF OnProposal
    <2>2. /\ v \in RState /\ SameCore(s, v) /\ v.onQc = s.onQc
          /\ v.qcFinish = s.qcFinish /\ v.qcManual = s.qcManual
          /\ v.lastProposed = n /\ v.locked = FALSE
          /\ v.watching = s.watching /\ v.proposer = s.proposer /\ v.rotating = s.rotating
          /\ v.propBlk = s.propBlk /\ v.calls = s.calls /\ v.since = s.since
      BY <1>1, <1>2 DEF RState, SameCore
    <2> HIDE DEF v
    <2>3. MidInv(v, A)
      <3>1. Bounded(v)  BY <1>1, <1>2, <2>2 DEF Bounded, SameCore
      <3>2. Slots(v)  BY <1>1, <2>2 DEF Slots
      <3>3. Noted(v)  BY <1>1, <2>2 DEF Noted, SameCore
      <3>4. Account(v, A)  BY <1>1, <2>2 DEF Account, SameCore
      <3> QED BY <2>2, <3>1, <3>2, <3>3, <3>4 DEF MidInv, SameCore
    <2>4. v.lastProposed \in DOMAIN v.onQc /\ n \notin v.certified
      BY <1>2, <2>2 DEF SameCore
    <2>5. /\ MidInv(u, A) /\ Goes(v, u)
          /\ u.chain = v.chain /\ u.certified = v.certified
          /\ u.lastProposed = v.lastProposed /\ u.qcManual = v.qcManual
          /\ v.beats = << >> => u = v
          /\ v.beats # << >> =>
               u.locked /\ u.lastProposed \in DOMAIN u.onQc /\ BeatAt(u, u.lastProposed)
      BY <2>1, <2>2, <2>3, <2>4, ScheduleNextInv, ZenonT(60)
    <2> HIDE DEF u
    <2>6. Goes(s, u)  BY <1>1, <2>2, <2>5 DEF Goes, Elected, SameCore
    <2>7. Paced(u)
      <3>1. CASE v.beats = << >>
        <4>1. BeatsDone(v)  BY <3>1 DEF BeatsDone
        <4> QED BY <2>2, <2>5, <3>1, <4>1 DEF Paced
      <3>2. CASE v.beats # << >>  BY <2>2, <2>4, <2>5, <3>2 DEF Paced
      <3> QED BY <3>1, <3>2
    <2> QED BY <2>2, <2>5, <2>6, <2>7 DEF u, SameCore
  <1>4. CASE ~s.watching
    <2>1. u = s  BY <1>4 DEF OnProposal
    <2>2. Goes(s, s)  BY <1>1, <1>2 DEF Goes
    <2>3. Paced(s) /\ s.rotating  BY <1>1, <1>4 DEF Paced
    <2> QED BY <2>1, <2>2, <2>3
  <1> QED BY <1>3, <1>4

(* on_propose: a new block, and beats that are paced whatever was before.  *)
LEMMA ProposeInv ==
  ASSUME NEW s, NEW A, MidInv(s, A), NEW cmds \in SUBSET Cmd
  PROVE  LET u == Propose(s, cmds) IN
         /\ MidInv(u, A) /\ Goes(s, u) /\ Paced(u)
         /\ Len(u.chain) = Len(s.chain) + 1
         /\ u.certified = s.certified
         /\ u.qcManual < Len(u.chain)
         /\ ~u.rotating => u.lastProposed = Len(u.chain)
  <1> DEFINE blk == [by |-> Me, cmds |-> cmds, qc |-> s.hqc]
             r == AddBlock(s, blk)
             t == Update(r)
             n == Len(t.chain)
             v == NoteProposal(t, Me, n)
             u == Propose(s, cmds)
  <1>1. /\ s \in RState /\ Bounded(s) /\ Len(s.chain) \in Nat
    BY Fields DEF MidInv
  <1>2. blk \in BlockOf /\ blk.qc <= Len(s.chain) /\ blk.by = Me
    BY <1>1, Fields, Numbers DEF BlockOf, Bounded
  <1>3. u = OnProposal(v)  BY DEF Propose
  <1> HIDE DEF blk, u
  <1>4. /\ MidInv(r, A) /\ Goes(s, r)
        /\ Len(r.chain) = Len(s.chain) + 1 /\ r.chain[Len(r.chain)] = blk
    BY <1>2, AddBlockInv
  <1>5. r.certified = s.certified /\ r.since = s.since /\ r.qcManual = s.qcManual
    BY <1>1 DEF AddBlock, RState
  <1> HIDE DEF r
  <1>6. r \in RState /\ Bounded(r) /\ r.chain # << >>
    <2>1. r \in RState /\ Bounded(r)  BY <1>4 DEF MidInv
    <2>2. Len(r.chain) # 0  BY <1>1, <1>4
    <2> QED BY <2>1, <2>2
  <1>7. /\ MidInv(t, A) /\ Goes(r, t)
        /\ t.chain = r.chain /\ t.certified = r.certified
        /\ t.qcManual \in {r.qcManual, 0}
    BY <1>4, <1>6, UpdateInv
  <1> HIDE DEF t
  <1>8. /\ t \in RState /\ Bounded(t) /\ n = Len(s.chain) + 1 /\ n \in 1 .. Len(t.chain)
        /\ t.chain[n].by = Me /\ n > t.since /\ n \notin t.certified
    <2>1. t \in RState /\ Bounded(t)  BY <1>7 DEF MidInv
    <2>2. n = Len(s.chain) + 1  BY <1>4, <1>7
    <2>3. t.chain[n].by = Me  BY <1>2, <1>4, <1>7
    <2>4. t.since = s.since  BY <1>5, <1>7 DEF Goes
    <2>5. s.since <= Len(s.chain) /\ \A h \in s.certified : h <= Len(s.chain)
      BY <1>1 DEF Bounded
    <2>6. t.certified = s.certified /\ s.since \in Nat  BY <1>1, <1>5, <1>7, Fields
    <2> HIDE DEF n
    <2>7. n \in 1 .. n /\ n > s.since  BY <1>1, <2>2, <2>5, <2>6
    <2>8. n \notin s.certified  BY <1>1, <2>2, <2>5
    <2> QED BY <2>1, <2>2, <2>3, <2>4, <2>6, <2>7, <2>8 DEF n
  <1>9. MidInv(v, A) /\ Goes(t, v) /\ SameCore(t, v) /\ v.qcManual = t.qcManual
    BY <1>7, <1>8, Numbers, NoteInv
  <1> HIDE DEF v
  <1>10. v \in RState /\ Bounded(v) /\ v.chain # << >> /\ Len(v.chain) \notin v.certified
    <2>1. v \in RState /\ Bounded(v)  BY <1>9 DEF MidInv
    <2>2. v.chain # << >>  BY <1>6, <1>7, <1>9 DEF SameCore
    <2> QED BY <1>8, <1>9, <2>1, <2>2 DEF SameCore
  <1>11. /\ MidInv(u, A) /\ Goes(v, u) /\ Paced(u)
         /\ u.chain = v.chain /\ u.certified = v.certified /\ u.qcManual = v.qcManual
         /\ ~u.rotating => u.lastProposed = Len(u.chain)
    BY <1>3, <1>9, <1>10, OnProposalInv
  <1>12. u \in RState /\ Bounded(u)  BY <1>11 DEF MidInv
  <1>13. Goes(s, u)
    <2>1. Goes(s, t)  BY <1>1, <1>4, <1>6, <1>7, <1>8, GoesOn
    <2>2. Goes(s, v)  BY <1>1, <1>8, <1>9, <1>10, <2>1, GoesOn
    <2> QED BY <1>1, <1>10, <1>11, <1>12, <2>2, GoesOn
  <1>14. Len(u.chain) = Len(s.chain) + 1 /\ u.qcManual < Len(u.chain)
    <2>1. Len(u.chain) = Len(s.chain) + 1  BY <1>4, <1>7, <1>9, <1>11 DEF SameCore
    <2>2. u.qcManual \in {s.qcManual, 0}  BY <1>5, <1>7, <1>9, <1>11
    <2>3. s.qcManual \in Nat /\ s.qcManual <= Len(s.chain)  BY <1>1, Fields DEF Bounded
    <2> QED BY <1>1, <2>1, <2>2, <2>3
  <1> QED BY <1>5, <1>7, <1>9, <1>11, <1>13, <1>14 DEF u, SameCore

(* do_new_consensus: a block on whose certificate the next round waits.    *)
LEMMA NewConsensusInv ==
  ASSUME NEW s, NEW A, MidInv(s, A), NEW x \in 0 .. LastRound, NEW cmds \in SUBSET Cmd
  PROVE  LET u == NewConsensus(s, x, cmds) IN
         MidInv(u, A) /\ Goes(s, u) /\ Paced(u)
  <1> DEFINE t == Propose(s, cmds)
             h == Len(t.chain)
             r == Reject(t, t.qcManual)
             v == [r EXCEPT !.qcManual = h]
             cb == Round(x)
             u == NewConsensus(s, x, cmds)
  <1>0. s \in RState /\ Len(s.chain) \in Nat  BY Fields DEF MidInv
  <1>1. /\ MidInv(t, A) /\ Goes(s, t) /\ Paced(t)
        /\ Len(t.chain) = Len(s.chain) + 1
        /\ t.qcManual < Len(t.chain) /\ (~t.rotating => t.lastProposed = Len(t.chain))
    BY ProposeInv
  <1>2. u = Await(v, h, cb)  BY DEF NewConsensus
  <1> HIDE DEF u, t
  <1>3. /\ t \in RState /\ t.qcManual \in Nat /\ h \in Nat \ {0} /\ Bounded(t)
        /\ DOMAIN t.onQc = 1 .. h /\ Slots(t)
    <2>1. t \in RState /\ Bounded(t) /\ Slots(t)  BY <1>1 DEF MidInv
    <2>2. h \in Nat /\ Len(t.onQc) = h  BY <2>1, Fields DEF Bounded
    <2>3. h # 0  BY <1>0, <1>1
    <2> QED BY <2>1, <2>2, <2>3, Fields
  <1>4. /\ MidInv(r, A) /\ SameCore(t, r) /\ SamePace(t, r)
        /\ r.qcFinish = t.qcFinish /\ r.qcManual = t.qcManual
        /\ DOMAIN r.onQc = DOMAIN t.onQc
        /\ \A i \in DOMAIN t.onQc : r.onQc[i] = IF i = t.qcManual THEN << >> ELSE t.onQc[i]
        /\ NoneOf(r, "round")
    BY <1>1, <1>3, RejectIs, RejectFrees
  <1> HIDE DEF r
  <1>5. /\ r \in RState /\ Bounded(r) /\ Slots(r) /\ Noted(r) /\ Account(r, A)
    BY <1>4 DEF MidInv
  <1>6. /\ v \in RState /\ v.qcManual = h /\ v.onQc = r.onQc /\ v.qcFinish = r.qcFinish
        /\ SameCore(r, v) /\ SamePace(r, v)
    BY <1>3, <1>5 DEF RState, SameCore, SamePace
  <1> HIDE DEF v
  <1>7. MidInv(v, A) /\ NoneOf(v, "round")
    <2>1. NoneOf(v, "round")  BY <1>4, <1>6 DEF NoneOf
    <2>2. Bounded(v)
      <3>1. Len(r.chain) = h  BY <1>4 DEF SameCore
      <3> QED BY <1>3, <1>5, <1>6, <3>1 DEF Bounded, SameCore, SamePace
    <2>3. Slots(v)
      <3>1. \A g \in DOMAIN r.onQc : \A i \in DOMAIN r.onQc[g] : r.onQc[g][i] \in Callback
        <4>1. \A g \in DOMAIN r.onQc : r.onQc[g] \in Seq(Callback)  BY <1>5, Fields
        <4> QED BY <4>1
      <3>2. \A g \in DOMAIN r.onQc : \A i \in DOMAIN r.onQc[g] : r.onQc[g][i].kind = "beat"
        BY <1>4, <3>1, Kinds DEF NoneOf
      <3> QED BY <1>5, <1>6, <3>2 DEF Slots
    <2>4. Noted(v)  BY <1>5, <1>6 DEF Noted, SameCore, SamePace
    <2>5. Account(v, A)  BY <1>5, <1>6 DEF Account, SameCore
    <2> QED BY <1>4, <1>6, <2>1, <2>2, <2>3, <2>4, <2>5 DEF MidInv, SameCore, SamePace
  <1>8. cb \in Callback /\ cb.kind = "round"  BY DEF Callback, Round
  <1> HIDE DEF cb
  <1>9. h \in DOMAIN v.onQc  BY <1>3, <1>4, <1>6
  <1> HIDE DEF h
  <1>10. /\ MidInv(u, A) /\ SameCore(v, u) /\ SamePace(v, u)
         /\ DOMAIN u.onQc = DOMAIN v.onQc
         /\ \A g \in DOMAIN v.onQc : BeatAt(v, g) => BeatAt(u, g)
    <2>1. NoneOf(v, cb.kind)  BY <1>7, <1>8
    <2> QED BY <1>2, <1>6, <1>7, <1>8, <1>9, <2>1, AwaitIs
  <1>11. /\ SameCore(t, u) /\ SamePace(t, u) /\ DOMAIN u.onQc = DOMAIN t.onQc
    BY <1>4, <1>6, <1>10 DEF SameCore, SamePace
  <1>12. BeatAt(t, h) => BeatAt(u, h)
    <2>1. h \in DOMAIN t.onQc /\ h # t.qcManual  BY <1>1, <1>3 DEF h
    <2>2. v.onQc[h] = t.onQc[h]  BY <1>4, <1>6, <2>1
    <2>3. BeatAt(t, h) => BeatAt(v, h)  BY <2>2 DEF BeatAt
    <2> QED BY <1>9, <1>10, <2>3
  <1>13. Goes(s, u)  BY <1>1, <1>11 DEF Goes, Elected, SameCore, SamePace
  <1>14. Paced(u)
    BY <1>1, <1>11, <1>12 DEF Paced, BeatsDone, SameCore, SamePace, h
  <1> QED BY <1>10, <1>13, <1>14 DEF u

(* A callback on a certificate: that of a beat paces the beats, whatever   *)
(* was before, because it proposes if this replica is the proposer.        *)
LEMMA RunCallbackInv ==
  ASSUME NEW s, NEW A, MidInv(s, A), NEW cb \in Callback
  PROVE  LET u == RunCallback(s, cb) IN
         /\ MidInv(u, A) /\ Goes(s, u)
         /\ Paced(s) \/ cb.kind = "beat" => Paced(u)
  <1> DEFINE u == RunCallback(s, cb)
  <1>1. s \in RState /\ s.exec \in Nat /\ Len(s.chain) \in Nat  BY Fields DEF MidInv
  <1>2. Goes(s, s)  BY <1>1 DEF Goes
  <1>3. CASE cb.kind = "beat"
    <2>1. cb.cmd \in Cmd  BY <1>3 DEF Callback, BeatOf, Round
    <2>2. u = IF s.proposer = Me THEN Propose(s, {cb.cmd}) ELSE s
      BY <1>3 DEF RunCallback
    <2> HIDE DEF u
    <2>3. CASE s.proposer = Me
      <3>1. u = Propose(s, {cb.cmd}) /\ {cb.cmd} \in SUBSET Cmd  BY <2>1, <2>2, <2>3
      <3> QED BY <3>1, ProposeInv DEF u
    <2>4. CASE s.proposer # Me
      <3>1. u = s /\ Paced(s)  BY <2>2, <2>4 DEF Paced
      <3> QED BY <1>2, <3>1 DEF u
    <2> QED BY <2>3, <2>4
  <1>4. CASE cb.kind # "beat"
    <2>1. cb.x \in 0 .. LastRound  BY <1>4 DEF Callback, BeatOf, Round
    <2>2. u = IF cb.x >= LastRound THEN s ELSE NewConsensus(s, cb.x + 1, {})
      BY <1>4 DEF RunCallback
    <2> HIDE DEF u
    <2>3. CASE cb.x >= LastRound
      <3>1. u = s  BY <2>2, <2>3
      <3> QED BY <1>2, <1>4, <3>1 DEF u
    <2>4. CASE ~(cb.x >= LastRound)
      <3>1. u = NewConsensus(s, cb.x + 1, {}) /\ cb.x + 1 \in 0 .. LastRound
        BY <2>1, <2>2, <2>4, Numbers
      <3>2. {} \in SUBSET Cmd  OBVIOUS
      <3> QED BY <3>1, <3>2, NewConsensusInv DEF u
    <2> QED BY <2>3, <2>4
  <1> QED BY <1>3, <1>4

(* What is true of a state and the callbacks that ran is true when the     *)
(* next one has run.                                                       *)
HasBeat(cbs, n) == \E i \in 1 .. n : cbs[i].kind = "beat"
RanTo(s, u, A, cbs, n) ==
  MidInv(u, A) /\ Goes(s, u) /\ (Paced(s) \/ HasBeat(cbs, n) => Paced(u))

LEMMA RanOn ==
  ASSUME NEW s, NEW t, NEW A, NEW cbs, NEW n \in Nat, MidInv(s, A),
         RanTo(s, t, A, cbs, n), cbs[n + 1] \in Callback
  PROVE  RanTo(s, RunCallback(t, cbs[n + 1]), A, cbs, n + 1)
  <1> DEFINE cb == cbs[n + 1]
             u == RunCallback(t, cb)
  <1>1. MidInv(t, A) /\ Goes(s, t)  BY DEF RanTo
  <1>2. cb \in Callback  OBVIOUS
  <1> HIDE DEF cb
  <1>3. /\ MidInv(u, A) /\ Goes(t, u)
        /\ Paced(t) \/ cb.kind = "beat" => Paced(u)
    BY <1>1, <1>2, RunCallbackInv
  <1> HIDE DEF u
  <1>4. Goes(s, u)
    BY <1>1, <1>3, GoesOn DEF MidInv
  <1>5. HasBeat(cbs, n + 1) => HasBeat(cbs, n) \/ cb.kind = "beat"
    <2>1. \A i \in 1 .. n + 1 : i \in 1 .. n \/ i = n + 1  OBVIOUS
    <2> QED BY <2>1 DEF HasBeat, cb
  <1>6. RanTo(s, u, A, cbs, n + 1)
    BY <1>3, <1>4, <1>5 DEF RanTo
  <1> QED BY <1>6 DEF u, cb

(* The callbacks on a certificate, of which there are at most two.         *)
LEMMA RunAllInv ==
  ASSUME NEW s, NEW A, MidInv(s, A), NEW cbs \in Seq(Callback), Len(cbs) <= 2
  PROVE  RanTo(s, RunAll(s, cbs), A, cbs, Len(cbs))
  <1> DEFINE n == Len(cbs)
             F(f) == [i \in 0 .. n |-> IF i = 0 THEN s ELSE RunCallback(f[i - 1], cbs[i])]
             run == CHOOSE f : f = F(f)
             a == RunCallback(s, cbs[1])
             b == RunCallback(a, cbs[2])
             g == [i \in 0 .. n |-> IF i = 0 THEN s ELSE IF i = 1 THEN a ELSE b]
  <1>1. RunAll(s, cbs) = run[n]  BY DEF RunAll
  <1>2. n \in Nat /\ n <= 2 /\ \A i \in 1 .. n : cbs[i] \in Callback  OBVIOUS
  <1> HIDE DEF n
  <1>3. n \in {0, 1, 2}  BY <1>2
  <1>4. g = F(g)
    <2>1. ASSUME NEW i \in 0 .. n
          PROVE  g[i] = IF i = 0 THEN s ELSE RunCallback(g[i - 1], cbs[i])
      <3>1. i \in {0, 1, 2}  BY <1>3
      <3>2. CASE i = 0  BY <3>2
      <3>3. CASE i = 1
        <4>1. 0 \in 0 .. n /\ i - 1 = 0  BY <1>3, <3>3
        <4> QED BY <3>3, <4>1
      <3>4. CASE i = 2
        <4>1. 1 \in 0 .. n /\ i - 1 = 1  BY <1>3, <3>4
        <4>2. g[1] = a /\ g[2] = b  BY <3>4, <4>1
        <4> QED BY <3>4, <4>1, <4>2
      <3> QED BY <3>1, <3>2, <3>3, <3>4
    <2> QED BY <2>1
  <1>5. run = F(run)  BY <1>4
  <1> HIDE DEF run, a, b, g
  <1>6. /\ run[0] = s
        /\ n >= 1 => run[1] = RunCallback(run[0], cbs[1])
        /\ n >= 2 => run[2] = RunCallback(run[1], cbs[2])
    <2>1. \A i \in 0 .. n : run[i] = IF i = 0 THEN s ELSE RunCallback(run[i - 1], cbs[i])
      BY <1>5
    <2>2. 0 \in 0 .. n /\ (n >= 1 => 1 \in 0 .. n) /\ (n >= 2 => 2 \in 0 .. n)
      BY <1>3
    <2>3. 1 - 1 = 0 /\ 2 - 1 = 1  OBVIOUS
    <2> QED BY <2>1, <2>2, <2>3
  <1>7. RanTo(s, run[0], A, cbs, 0)
    <2>1. Goes(s, s)  BY Fields DEF MidInv, Goes
    <2>2. ~HasBeat(cbs, 0)  BY DEF HasBeat
    <2> QED BY <1>6, <2>1, <2>2 DEF RanTo
  <1>8. n >= 1 => RanTo(s, run[1], A, cbs, 1)
    <2> SUFFICES ASSUME n >= 1 PROVE RanTo(s, run[1], A, cbs, 1)
      OBVIOUS
    <2>1. 0 + 1 = 1 /\ 0 \in Nat /\ cbs[1] \in Callback  BY <1>2
    <2>2. RanTo(s, RunCallback(run[0], cbs[0 + 1]), A, cbs, 0 + 1)
      BY <1>7, <2>1, RanOn
    <2> QED BY <1>6, <2>1, <2>2
  <1>9. n >= 2 => RanTo(s, run[2], A, cbs, 2)
    <2> SUFFICES ASSUME n >= 2 PROVE RanTo(s, run[2], A, cbs, 2)
      OBVIOUS
    <2>1. 1 + 1 = 2 /\ 1 \in Nat /\ cbs[2] \in Callback /\ n >= 1  BY <1>2
    <2>2. RanTo(s, RunCallback(run[1], cbs[1 + 1]), A, cbs, 1 + 1)
      BY <1>8, <2>1, RanOn
    <2> QED BY <1>6, <2>1, <2>2
  <1>10. RanTo(s, run[n], A, cbs, n)
    <2>1. CASE n = 0  BY <1>7, <2>1
    <2>2. CASE n = 1  BY <1>8, <2>2
    <2>3. CASE n = 2  BY <1>9, <2>3
    <2> QED BY <1>3, <2>1, <2>2, <2>3
  <1> QED BY <1>1, <1>10 DEF n

(* Paced, but for the certificate of block h that has just come.           *)
PacedBut(s, h) ==
  s.proposer = Me /\ ~s.rotating =>
    /\ s.locked => /\ s.lastProposed \in DOMAIN s.onQc
                   /\ s.lastProposed \notin s.certified \/ s.lastProposed = h
                   /\ BeatAt(s, s.lastProposed)
    /\ ~s.locked => s.calls > 0 \/ BeatsDone(s)

(* on_qc_finish: a beat that waited for the certificate proposes.          *)
LEMMA QcFinishInv ==
  ASSUME NEW s, NEW A, MidInv(s, A), NEW h \in 0 .. Len(s.chain)
  PROVE  LET u == QcFinish(s, h) IN
         /\ MidInv(u, A) /\ Goes(s, u)
         /\ PacedBut(s, h) => Paced(u)
  <1> DEFINE r == Reject(s, h)
             kf == IF r.qcFinish = h THEN 0 ELSE r.qcFinish
             km == IF r.qcManual = h THEN 0 ELSE r.qcManual
             t == [r EXCEPT !.qcFinish = kf, !.qcManual = km]
             cbs == s.onQc[h]
             u == QcFinish(s, h)
  <1>1. /\ s \in RState /\ Bounded(s) /\ Slots(s) /\ s.exec \in Nat /\ h \in Nat
        /\ Len(s.chain) \in Nat /\ DOMAIN s.onQc = 1 .. Len(s.chain)
    BY Fields DEF MidInv, Bounded
  <1>2. CASE h = 0
    <2>1. u = s  BY <1>2 DEF QcFinish
    <2>2. Goes(s, s)  BY <1>1 DEF Goes
    <2>3. PacedBut(s, h) => Paced(s)  BY <1>1, <1>2 DEF PacedBut, Paced
    <2> QED BY <2>1, <2>2, <2>3
  <1>3. CASE h # 0
    <2>1. u = RunAll(t, cbs)  BY <1>3 DEF QcFinish, NoPromise
    <2> HIDE DEF u
    <2>2. h \in DOMAIN s.onQc  BY <1>1, <1>3
    <2>3. cbs \in Seq(Callback) /\ Len(cbs) <= 2
      <3>1. cbs \in Seq(Callback)  BY <1>1, <2>2, Fields
      <3>2. \A i, j \in DOMAIN cbs : cbs[i].kind = cbs[j].kind => i = j
        BY <1>1, <2>2 DEF Slots
      <3> HIDE DEF cbs
      <3>3. SUFFICES ASSUME Len(cbs) > 2 PROVE FALSE
        BY <3>1
      <3>4. /\ 1 \in DOMAIN cbs /\ 2 \in DOMAIN cbs /\ 3 \in DOMAIN cbs
            /\ cbs[1] \in Callback /\ cbs[2] \in Callback /\ cbs[3] \in Callback
        BY <3>1, <3>3
      <3>5. /\ cbs[1].kind \in {"beat", "round"} /\ cbs[2].kind \in {"beat", "round"}
            /\ cbs[3].kind \in {"beat", "round"}
        BY <3>4, Kinds
      <3>6. cbs[1].kind # cbs[2].kind /\ cbs[1].kind # cbs[3].kind /\ cbs[2].kind # cbs[3].kind
        BY <3>2, <3>4
      <3> QED BY <3>5, <3>6
    <2>4. /\ MidInv(r, A) /\ SameCore(s, r) /\ SamePace(s, r)
          /\ r.qcFinish = s.qcFinish /\ r.qcManual = s.qcManual
          /\ DOMAIN r.onQc = DOMAIN s.onQc
          /\ \A i \in DOMAIN s.onQc : r.onQc[i] = IF i = h THEN << >> ELSE s.onQc[i]
      BY <1>1, RejectIs
    <2> HIDE DEF r
    <2>5. /\ r \in RState /\ Bounded(r) /\ Slots(r) /\ Noted(r) /\ Account(r, A)
          /\ kf \in Nat /\ km \in Nat /\ kf <= Len(s.chain) /\ km <= Len(s.chain)
      <3>1. /\ r \in RState /\ Bounded(r) /\ Slots(r) /\ Noted(r) /\ Account(r, A)
        BY <2>4 DEF MidInv
      <3>2. s.qcFinish \in Nat /\ s.qcManual \in Nat  BY <1>1, Fields
      <3> QED BY <1>1, <2>4, <3>1, <3>2 DEF Bounded
    <2>6. /\ kf # s.qcFinish => s.qcFinish = h
          /\ km # s.qcManual => s.qcManual = h
      BY <2>4
    <2> HIDE DEF kf, km
    <2>7. /\ t \in RState /\ t.onQc = r.onQc /\ t.qcFinish = kf /\ t.qcManual = km
          /\ SameCore(r, t) /\ SamePace(r, t)
      BY <2>5 DEF RState, SameCore, SamePace
    <2> HIDE DEF t
    <2>8. MidInv(t, A)
      <3>1. Bounded(t)
        <4>1. Len(r.chain) = Len(s.chain)  BY <2>4 DEF SameCore
        <4> QED BY <2>5, <2>7, <4>1 DEF Bounded, SameCore, SamePace
      <3>2. Slots(t)
        <4> SUFFICES ASSUME NEW g \in DOMAIN r.onQc
                     PROVE  \A i \in DOMAIN r.onQc[g] :
                              IF r.onQc[g][i].kind = "beat" THEN g = kf ELSE g = km
          BY <2>5, <2>7 DEF Slots
        <4>1. CASE g = h
          <5>1. DOMAIN r.onQc[g] = {}  BY <2>2, <2>4, <4>1
          <5> QED BY <5>1
        <4>2. CASE g # h
          BY <2>4, <2>5, <2>6, <4>2 DEF Slots
        <4> QED BY <4>1, <4>2
      <3>3. Noted(t)  BY <2>5, <2>7 DEF Noted, SameCore, SamePace
      <3>4. Account(t, A)  BY <2>5, <2>7 DEF Account, SameCore
      <3> QED BY <2>4, <2>7, <3>1, <3>2, <3>3, <3>4 DEF MidInv, SameCore, SamePace
    <2>9. Goes(s, t)
      BY <1>1, <2>4, <2>7 DEF Goes, SameCore, SamePace
    <2>10. RanTo(t, u, A, cbs, Len(cbs))
      BY <2>1, <2>3, <2>8, RunAllInv
    <2>11. MidInv(u, A) /\ Goes(s, u)
      BY <1>1, <2>8, <2>9, <2>10, GoesOn DEF RanTo, MidInv
    <2>12. ASSUME PacedBut(s, h) PROVE Paced(u)
      <3>1. CASE BeatAt(s, h)
        <4>1. HasBeat(cbs, Len(cbs))  BY <2>3, <3>1 DEF BeatAt, HasBeat
        <4> QED BY <2>10, <4>1 DEF RanTo
      <3>2. CASE ~BeatAt(s, h)
        <4>1. \A g \in DOMAIN s.onQc : g # h /\ BeatAt(s, g) => BeatAt(t, g)
          BY <2>4, <2>7 DEF BeatAt
        <4>2. Paced(t)
          <5> SUFFICES ASSUME s.proposer = Me, ~s.rotating
                       PROVE  /\ s.locked => /\ s.lastProposed \in DOMAIN s.onQc
                                             /\ s.lastProposed \notin s.certified
                                             /\ BeatAt(t, s.lastProposed)
                              /\ ~s.locked => s.calls > 0 \/ BeatsDone(s)
            BY <2>4, <2>7 DEF Paced, BeatsDone, SameCore, SamePace
          <5> QED BY <2>12, <3>2, <4>1 DEF PacedBut
        <4> QED BY <2>10, <4>2 DEF RanTo
      <3> QED BY <3>1, <3>2
    <2> QED BY <2>11, <2>12 DEF u
  <1> QED BY <1>2, <1>3

(* beat(): at once, when the last block has its certificate, or later.     *)
LEMMA BeatInv ==
  ASSUME NEW s, NEW A, MidInv(s, A), Paced(s), NEW c \in Cmd, c \in A
  PROVE  LET u == Beat(s, c) IN
         MidInv(u, A) /\ Goes(s, u) /\ Paced(u)
  <1> DEFINE bs == Append(s.beats, c)
             u == Beat(s, c)
             r == Reject(s, s.qcFinish)
             v == [r EXCEPT !.beats = Tail(bs), !.qcFinish = 0]
             w == [s EXCEPT !.beats = bs]
  <1>1. /\ s \in RState /\ Bounded(s) /\ Slots(s) /\ Noted(s) /\ Account(s, A)
        /\ s.exec \in Nat /\ Len(s.chain) \in Nat /\ s.beats \in Seq(Cmd)
        /\ s.qcFinish \in Nat /\ s.lastProposed \in Nat /\ s.locked \in BOOLEAN
        /\ 0 \in s.certified
    BY Fields DEF MidInv
  <1>2. /\ bs \in Seq(Cmd) /\ bs # << >> /\ Head(bs) \in Cmd /\ Tail(bs) \in Seq(Cmd)
        /\ \A i \in DOMAIN bs : bs[i] \in A
        /\ \A i \in DOMAIN Tail(bs) : Tail(bs)[i] \in A
    <2>1. /\ bs \in Seq(Cmd) /\ bs # << >>
          /\ \A i \in DOMAIN bs : (i \in DOMAIN s.beats /\ bs[i] = s.beats[i]) \/ bs[i] = c
      <3> DEFINE k == Len(s.beats)
      <3>1. /\ k \in Nat /\ DOMAIN s.beats = 1 .. k /\ DOMAIN bs = 1 .. k + 1 /\ bs[k + 1] = c
            /\ \A i \in 1 .. k : bs[i] = s.beats[i]
        BY <1>1
      <3>2. bs \in Seq(Cmd) /\ bs # << >>  BY <1>1
      <3> HIDE DEF k, bs
      <3>3. \A i \in 1 .. k + 1 : i \in 1 .. k \/ i = k + 1  BY <3>1
      <3> QED BY <3>1, <3>2, <3>3
    <2>2. \A i \in DOMAIN bs : bs[i] \in A  BY <1>1, <2>1 DEF Account
    <2> HIDE DEF bs
    <2>3. /\ Head(bs) \in Cmd /\ Tail(bs) \in Seq(Cmd)
          /\ \A i \in DOMAIN Tail(bs) : i + 1 \in DOMAIN bs /\ Tail(bs)[i] = bs[i + 1]
      BY <2>1
    <2> QED BY <2>1, <2>2, <2>3
  <1>3. u = IF s.rotating THEN Propose(s, {c})
            ELSE IF ~s.locked /\ s.lastProposed \in s.certified THEN Propose(v, {Head(bs)})
                 ELSE ScheduleNext(w)
    BY DEF Beat, NoPromise
  <1> HIDE DEF bs, u
  <1>4. CASE s.rotating
    <2>1. u = Propose(s, {c}) /\ {c} \in SUBSET Cmd  BY <1>3, <1>4
    <2> QED BY <2>1, ProposeInv DEF u
  <1>5. CASE ~s.rotating /\ ~s.locked /\ s.lastProposed \in s.certified
    <2>1. u = Propose(v, {Head(bs)}) /\ {Head(bs)} \in SUBSET Cmd  BY <1>2, <1>3, <1>5
    <2>2. /\ MidInv(r, A) /\ SameCore(s, r) /\ SamePace(s, r) /\ NoneOf(r, "beat")
          /\ r.qcManual = s.qcManual
      BY <1>1, RejectIs, RejectFrees
    <2> HIDE DEF r
    <2>3. /\ r \in RState /\ Bounded(r) /\ Slots(r) /\ Noted(r) /\ Account(r, A)
          /\ Len(r.chain) \in Nat
      BY <2>2, Fields DEF MidInv
    <2>4. /\ v \in RState /\ v.beats = Tail(bs) /\ v.qcFinish = 0
          /\ v.chain = r.chain /\ v.hqc = r.hqc /\ v.exec = r.exec
          /\ v.certified = r.certified /\ v.waiting = r.waiting /\ v.ran = r.ran
          /\ SamePace(r, v) /\ v.qcManual = r.qcManual /\ v.onQc = r.onQc
      <3>1. r \in RState /\ Tail(bs) \in Seq(Cmd) /\ 0 \in Nat  BY <1>2, <2>3
      <3>2. v \in RState  BY <3>1 DEF RState
      <3> QED BY <3>1, <3>2 DEF RState, SamePace
    <2> HIDE DEF v
    <2>5. MidInv(v, A)
      <3>1. Bounded(v)  BY <2>3, <2>4 DEF Bounded, SamePace
      <3>2. Slots(v)  BY <2>2, <2>3, <2>4 DEF Slots, NoneOf
      <3>3. Noted(v)  BY <2>3, <2>4 DEF Noted, SamePace
      <3>4. Account(v, A)  BY <1>2, <2>3, <2>4 DEF Account
      <3> QED BY <2>2, <2>4, <3>1, <3>2, <3>3, <3>4 DEF MidInv, SamePace
    <2>6. MidInv(u, A) /\ Goes(v, u) /\ Paced(u)
      BY <2>1, <2>5, ProposeInv
    <2>7. Goes(s, u)
      BY <1>1, <2>2, <2>4, <2>6 DEF Goes, Elected, SameCore, SamePace
    <2> QED BY <2>6, <2>7 DEF u
  <1>6. CASE ~s.rotating /\ ~(~s.locked /\ s.lastProposed \in s.certified)
    <2>1. u = ScheduleNext(w)  BY <1>3, <1>6
    <2>2. /\ w \in RState /\ w.beats = bs
          /\ w.chain = s.chain /\ w.hqc = s.hqc /\ w.exec = s.exec
          /\ w.certified = s.certified /\ w.waiting = s.waiting /\ w.ran = s.ran
          /\ SamePace(s, w) /\ w.qcManual = s.qcManual /\ w.qcFinish = s.qcFinish
          /\ w.onQc = s.onQc
      BY <1>1, <1>2 DEF RState, SamePace
    <2> HIDE DEF w
    <2>3. MidInv(w, A)
      <3>1. Bounded(w)  BY <1>1, <2>2 DEF Bounded, SamePace
      <3>2. Slots(w)  BY <1>1, <2>2 DEF Slots
      <3>3. Noted(w)  BY <1>1, <2>2 DEF Noted, SamePace
      <3>4. Account(w, A)  BY <1>1, <1>2, <2>2 DEF Account
      <3> QED BY <2>2, <3>1, <3>2, <3>3, <3>4 DEF MidInv, SamePace
    <2>4. ~w.locked => w.lastProposed \in DOMAIN w.onQc /\ w.lastProposed \notin w.certified
      <3> SUFFICES ASSUME ~s.locked
                   PROVE  s.lastProposed \in DOMAIN s.onQc /\ s.lastProposed \notin s.certified
        BY <2>2 DEF SamePace
      <3>1. s.lastProposed # 0 /\ s.lastProposed <= Len(s.chain) /\ Len(s.onQc) = Len(s.chain)
        BY <1>1, <1>6 DEF Bounded
      <3>2. DOMAIN s.onQc = 1 .. Len(s.onQc)  BY <1>1, Fields
      <3> QED BY <1>1, <1>6, <3>1, <3>2
    <2>5. /\ MidInv(u, A) /\ Goes(w, u)
          /\ u.chain = w.chain /\ u.certified = w.certified
          /\ u.lastProposed = w.lastProposed
          /\ w.locked => u = w
          /\ ~w.locked =>
               u.locked /\ u.lastProposed \in DOMAIN u.onQc /\ BeatAt(u, u.lastProposed)
      BY <1>2, <2>1, <2>2, <2>3, <2>4, ScheduleNextInv
    <2>6. Paced(u)
      <3>1. CASE w.locked
        <4>1. u = w  BY <2>5, <3>1
        <4>2. Paced(w)  BY <2>2, <3>1 DEF Paced, BeatAt, SamePace
        <4> QED BY <4>1, <4>2
      <3>2. CASE ~w.locked  BY <2>4, <2>5, <3>2 DEF Paced
      <3> QED BY <3>1, <3>2
    <2>7. Goes(s, u)  BY <1>1, <2>2, <2>5 DEF Goes, Elected, SamePace
    <2> QED BY <2>5, <2>6, <2>7 DEF u
  <1> QED BY <1>4, <1>5, <1>6
------------------------------------------------------------------------------
(* What a step gives: the invariant, and a rotation that ends only with    *)
(* a new block of the new leader.                                          *)
Kept == Inv' /\ (st.rotating /\ ~st'.rotating => Elected(st, st'))

(* A command arrives, is entered into decision_waiting and beats.          *)
LEMMA ArriveInv ==
  ASSUME Inv, NEW c \in Cmd, Arrive(c)
  PROVE  Kept
  <1> DEFINE s == [st EXCEPT !.waiting = st.waiting \cup {c}]
             A == arrived \cup {c}
  <1>1. /\ st \in RState /\ Bounded(st) /\ Slots(st) /\ Noted(st) /\ Account(st, arrived)
        /\ MidInv(st, arrived) /\ Paced(st) /\ arrived \subseteq Cmd /\ turns \in Nat
        /\ st.waiting \subseteq Cmd /\ st.exec \in Nat /\ Len(st.chain) \in Nat
    BY Fields DEF Inv, MidInv
  <1>2. /\ c \notin arrived /\ arrived' = A /\ turns' = turns
        /\ st' = IF s.proposer = Me THEN Beat(s, c) ELSE s
    BY DEF Arrive
  <1>3. /\ s \in RState /\ s.waiting = st.waiting \cup {c}
        /\ s.chain = st.chain /\ s.hqc = st.hqc /\ s.exec = st.exec
        /\ s.certified = st.certified /\ s.ran = st.ran /\ s.beats = st.beats
        /\ SamePace(st, s) /\ s.onQc = st.onQc
        /\ s.qcFinish = st.qcFinish /\ s.qcManual = st.qcManual
    <2>1. st \in RState /\ st.waiting \cup {c} \in SUBSET Cmd  BY <1>1
    <2> QED BY <2>1 DEF RState, SamePace
  <1> HIDE DEF s
  <1>4. MidInv(s, A)
    <2>1. Bounded(s)  BY <1>1, <1>3 DEF Bounded, SamePace
    <2>2. Slots(s)  BY <1>1, <1>3 DEF Slots
    <2>3. Noted(s)  BY <1>1, <1>3 DEF Noted, SamePace
    <2>4. Account(s, A)
      <3>1. \A d \in Cmd : s.ran[d] = IF d \in A \ s.waiting THEN 1 ELSE 0
        BY <1>1, <1>2, <1>3 DEF Account
      <3> QED BY <1>1, <1>3, <3>1 DEF Account
    <2> QED BY <1>1, <1>3, <2>1, <2>2, <2>3, <2>4 DEF MidInv, SamePace
  <1>5. Paced(s)
    <2>1. \A i \in DOMAIN st.beats : st.beats[i] # c  BY <1>1, <1>2 DEF Account
    <2>2. BeatsDone(st) => BeatsDone(s)  BY <1>3, <2>1 DEF BeatsDone
    <2> QED BY <1>1, <1>3, <2>2 DEF Paced, BeatAt, SamePace
  <1>6. MidInv(st', A) /\ Paced(st') /\ Goes(s, st')
    <2>1. CASE s.proposer = Me
      <3>1. st' = Beat(s, c) /\ c \in A  BY <1>2, <2>1
      <3> HIDE DEF A
      <3> QED BY <1>4, <1>5, <3>1, BeatInv
    <2>2. CASE s.proposer # Me
      <3>1. st' = s  BY <1>2, <2>2
      <3>2. Goes(s, s)  BY <1>1, <1>3 DEF Goes
      <3> QED BY <1>4, <1>5, <3>1, <3>2
    <2> QED BY <2>1, <2>2
  <1>7. st.rotating /\ ~st'.rotating => Elected(st, st')
    BY <1>3, <1>6 DEF Goes, Elected, SamePace
  <1>8. Inv'
    <2>1. arrived' \subseteq Cmd /\ turns' \in Nat /\ MidInv(st', arrived')
      BY <1>1, <1>2, <1>6
    <2> QED BY <1>6, <2>1 DEF Inv, MidInv, Bounded, Slots, Noted, Account, Paced, BeatAt, BeatsDone
  <1> QED BY <1>7, <1>8 DEF Kept

(* The last vote for an own block.                                         *)
LEMMA CompleteQcInv ==
  ASSUME Inv, NEW h \in 1 .. Len(st.chain), CompleteQc(h)
  PROVE  Kept
  <1> DEFINE hq == IF h > st.hqc THEN h ELSE st.hqc
             s == [st EXCEPT !.certified = st.certified \cup {h}, !.hqc = hq]
  <1>1. /\ st \in RState /\ Bounded(st) /\ Slots(st) /\ Noted(st) /\ Account(st, arrived)
        /\ MidInv(st, arrived) /\ Paced(st) /\ arrived \subseteq Cmd /\ turns \in Nat
        /\ st.certified \subseteq Nat /\ st.exec \in Nat /\ Len(st.chain) \in Nat
        /\ st.hqc \in Nat
    BY Fields DEF Inv, MidInv
  <1>2. arrived' = arrived /\ turns' = turns /\ st' = QcFinish(s, h)
    BY DEF CompleteQc
  <1>3. hq \in Nat /\ hq <= Len(st.chain)  BY <1>1 DEF Bounded
  <1> HIDE DEF hq
  <1>4. /\ s \in RState /\ s.certified = st.certified \cup {h} /\ s.hqc = hq
        /\ s.chain = st.chain /\ s.exec = st.exec
        /\ s.waiting = st.waiting /\ s.ran = st.ran /\ s.beats = st.beats
        /\ SamePace(st, s) /\ s.onQc = st.onQc
        /\ s.qcFinish = st.qcFinish /\ s.qcManual = st.qcManual
    <2>1. st \in RState /\ st.certified \cup {h} \in SUBSET Nat /\ hq \in Nat  BY <1>1, <1>3
    <2>2. s \in RState  BY <2>1 DEF RState
    <2> QED BY <2>1, <2>2 DEF RState, SamePace
  <1> HIDE DEF s
  <1>5. MidInv(s, arrived)
    <2>1. Bounded(s)
      <3>1. \A g \in s.certified : g <= Len(s.chain)  BY <1>1, <1>4 DEF Bounded
      <3> QED BY <1>1, <1>3, <1>4, <3>1 DEF Bounded, SamePace
    <2>2. Slots(s)  BY <1>1, <1>4 DEF Slots
    <2>3. Noted(s)  BY <1>1, <1>4 DEF Noted, SamePace
    <2>4. Account(s, arrived)  BY <1>1, <1>4 DEF Account
    <2> QED BY <1>1, <1>4, <2>1, <2>2, <2>3, <2>4 DEF MidInv, SamePace
  <1>6. PacedBut(s, h)
    BY <1>1, <1>4 DEF Paced, PacedBut, BeatAt, BeatsDone, SamePace
  <1>7. MidInv(st', arrived) /\ Paced(st') /\ Goes(s, st')
    <2>1. h \in 0 .. Len(s.chain)  BY <1>1, <1>4
    <2> QED BY <1>2, <1>5, <1>6, <2>1, QcFinishInv
  <1>8. st.rotating /\ ~st'.rotating => Elected(st, st')
    BY <1>4, <1>7 DEF Goes, Elected, SamePace
  <1>9. Inv'
    BY <1>1, <1>2, <1>7
       DEF Inv, MidInv, Bounded, Slots, Noted, Account, Paced, BeatAt, BeatsDone
  <1> QED BY <1>8, <1>9 DEF Kept

(* A block of another replica, its certificate, and who proposed it.       *)
LEMMA ReceiveProposalInv ==
  ASSUME Inv, NEW q \in Others, NEW qc \in Known(q), NEW cmds \in OtherCmds,
         ReceiveProposal(q, cmds, qc)
  PROVE  Kept
  <1> DEFINE blk == [by |-> q, cmds |-> cmds, qc |-> qc]
             r == AddBlock(st, blk)
             s == Update(r)
             n == Len(s.chain)
             t == QcFinish(s, qc)
  <1>1. /\ st \in RState /\ Bounded(st) /\ MidInv(st, arrived) /\ Paced(st)
        /\ arrived \subseteq Cmd /\ turns \in Nat
        /\ st.exec \in Nat /\ Len(st.chain) \in Nat
    BY Fields DEF Inv, MidInv
  <1>2. arrived' = arrived /\ turns' = turns /\ st' = NoteProposal(t, q, n)
    BY DEF ReceiveProposal
  <1>3. /\ blk \in BlockOf /\ blk.qc <= Len(st.chain) /\ blk.by = q /\ q \in Replica
        /\ qc \in 0 .. Len(st.chain)
    <2>1. qc \in 0 .. Len(st.chain)  BY DEF Known
    <2>2. q \in Replica /\ cmds \in SUBSET Cmd  BY RoundRobinAssumption
    <2> QED BY <1>1, <2>1, <2>2 DEF BlockOf
  <1> HIDE DEF blk
  <1>4. /\ MidInv(r, arrived) /\ Goes(st, r) /\ Paced(r)
        /\ Len(r.chain) = Len(st.chain) + 1 /\ r.chain[Len(r.chain)] = blk
    BY <1>1, <1>3, AddBlockInv
  <1>5. r.since = st.since
    BY <1>1 DEF AddBlock, RState
  <1> HIDE DEF r
  <1>6. r \in RState /\ Bounded(r) /\ r.chain # << >>
    <2>1. r \in RState /\ Bounded(r)  BY <1>4 DEF MidInv
    <2>2. Len(r.chain) # 0  BY <1>1, <1>4
    <2> QED BY <2>1, <2>2
  <1>7. /\ MidInv(s, arrived) /\ Goes(r, s) /\ Paced(s) /\ s.chain = r.chain
    BY <1>4, <1>6, UpdateInv
  <1> HIDE DEF s
  <1>8. s \in RState /\ Bounded(s) /\ n = Len(st.chain) + 1 /\ qc \in 0 .. Len(s.chain)
    <2>1. s \in RState /\ Bounded(s)  BY <1>7 DEF MidInv
    <2>2. n = Len(st.chain) + 1  BY <1>4, <1>7
    <2>3. qc \in 0 .. n  BY <1>1, <1>3, <2>2
    <2> QED BY <2>1, <2>2, <2>3
  <1>9. PacedBut(s, qc)  BY <1>7 DEF Paced, PacedBut
  <1>10. MidInv(t, arrived) /\ Goes(s, t) /\ Paced(t)
    BY <1>7, <1>8, <1>9, QcFinishInv
  <1> HIDE DEF t
  <1>11. t \in RState /\ Bounded(t)  BY <1>10 DEF MidInv
  <1>12. n \in 1 .. Len(t.chain) /\ t.chain[n].by = q /\ n > t.since
    <2>1. /\ n \in Nat /\ n >= 1 /\ Len(t.chain) \in Nat /\ n <= Len(t.chain)
          /\ t.chain[n] = s.chain[n]
      <3>1. n \in Nat /\ n >= 1 /\ Len(t.chain) \in Nat  BY <1>1, <1>8, <1>11, Fields
      <3>2. n \in 1 .. n  BY <3>1
      <3> QED BY <1>10, <3>1, <3>2 DEF Goes
    <2>2. s.chain[n] = blk  BY <1>4, <1>7
    <2>3. t.since = st.since  BY <1>5, <1>7, <1>10 DEF Goes
    <2>4. st.since \in Nat /\ st.since <= Len(st.chain)  BY <1>1, Fields DEF Bounded
    <2> HIDE DEF n
    <2> QED BY <1>1, <1>3, <1>8, <2>1, <2>2, <2>3, <2>4
  <1> HIDE DEF n
  <1>13. MidInv(st', arrived) /\ Goes(t, st') /\ Paced(st')
    BY <1>2, <1>3, <1>10, <1>12, NoteInv
  <1>14. Goes(st, st')
    <2>1. st' \in RState /\ Bounded(st')  BY <1>13 DEF MidInv
    <2>2. Goes(st, s)  BY <1>1, <1>4, <1>6, <1>7, <1>8, GoesOn
    <2>3. Goes(st, t)  BY <1>1, <1>8, <1>10, <1>11, <2>2, GoesOn
    <2> QED BY <1>1, <1>11, <1>13, <2>1, <2>3, GoesOn
  <1>15. Inv'
    BY <1>1, <1>2, <1>13
       DEF Inv, MidInv, Bounded, Slots, Noted, Account, Paced, BeatAt, BeatsDone
  <1> QED BY <1>14, <1>15 DEF Kept, Goes

(* on_exp_timeout: the leader that is not elected yet proposes.            *)
LEMMA ExpTimeoutInv ==
  ASSUME Inv, ExpTimeout
  PROVE  Kept
  <1> DEFINE s == IF st.proposer = Me THEN NewConsensus(st, 0, {}) ELSE st
  <1>1. /\ st \in RState /\ MidInv(st, arrived) /\ Paced(st)
        /\ arrived \subseteq Cmd /\ turns \in Nat
        /\ st.exec \in Nat /\ Len(st.chain) \in Nat
    BY Fields DEF Inv, MidInv
  <1>2. arrived' = arrived /\ turns' = turns /\ st' = [s EXCEPT !.timer = "delay"]
    BY DEF ExpTimeout
  <1>3. MidInv(s, arrived) /\ Goes(st, s) /\ Paced(s)
    <2>1. CASE st.proposer = Me
      <3>1. s = NewConsensus(st, 0, {}) /\ 0 \in 0 .. LastRound /\ {} \in SUBSET Cmd
        BY <2>1, Numbers
      <3> HIDE DEF s
      <3> QED BY <1>1, <3>1, NewConsensusInv
    <2>2. CASE st.proposer # Me
      <3>1. Goes(st, st)  BY <1>1 DEF Goes
      <3> QED BY <1>1, <2>2, <3>1
    <2> QED BY <2>1, <2>2
  <1> HIDE DEF s
  <1>4. /\ s \in RState /\ Bounded(s) /\ Slots(s) /\ Noted(s) /\ Account(s, arrived)
    BY <1>3 DEF MidInv
  <1> DEFINE u == st'
  <1>5. /\ u \in RState /\ SameCore(s, u) /\ u.onQc = s.onQc
        /\ u.qcFinish = s.qcFinish /\ u.qcManual = s.qcManual
        /\ u.lastProposed = s.lastProposed /\ u.locked = s.locked
        /\ u.watching = s.watching /\ u.proposer = s.proposer /\ u.rotating = s.rotating
        /\ u.propBlk = s.propBlk /\ u.calls = s.calls /\ u.since = s.since
    BY <1>2, <1>4 DEF RState, SameCore, Timer
  <1> HIDE DEF u
  <1>6. MidInv(u, arrived)
    <2>1. Bounded(u)  BY <1>4, <1>5 DEF Bounded, SameCore
    <2>2. Slots(u)  BY <1>4, <1>5 DEF Slots
    <2>3. Noted(u)  BY <1>4, <1>5 DEF Noted, SameCore
    <2>4. Account(u, arrived)  BY <1>4, <1>5 DEF Account, SameCore
    <2> QED BY <1>3, <1>5, <2>1, <2>2, <2>3, <2>4 DEF MidInv, SameCore
  <1>7. Paced(u)  BY <1>3, <1>5, PacedKept DEF SameCore
  <1>8. st.rotating /\ ~u.rotating => Elected(st, u)
    BY <1>3, <1>5 DEF Goes, Elected, SameCore
  <1>9. Inv'
    BY <1>1, <1>2, <1>6, <1>7, SMTT(30)
       DEF u, Inv, MidInv, Bounded, Slots, Noted, Account, Paced, BeatAt, BeatsDone
  <1> QED BY <1>8, <1>9 DEF Kept, u

(* rotate(), by its timer or by the impeachment of the leader.             *)
LEMMA TurnInv ==
  ASSUME Inv, st' = Rotate(st), turns' = turns + 1, UNCHANGED arrived
  PROVE  Kept
  <1>1. MidInv(st, arrived) /\ arrived \subseteq Cmd /\ turns \in Nat  BY DEF Inv
  <1>2. MidInv(st', arrived) /\ st'.rotating  BY <1>1, RotateInv
  <1>3. Paced(st')  BY <1>2 DEF Paced
  <1>4. Inv'
    BY <1>1, <1>2, <1>3
       DEF Inv, MidInv, Bounded, Slots, Noted, Account, Paced, BeatAt, BeatsDone
  <1> QED BY <1>2, <1>4 DEF Kept

(* The queued call of stop_rotate proposes what still waits.               *)
LEMMA ReproposeInv ==
  ASSUME Inv, Repropose
  PROVE  Kept
  <1> DEFINE k == st.calls - 1
             s == [st EXCEPT !.calls = k]
  <1>1. /\ st \in RState /\ Bounded(st) /\ Slots(st) /\ Noted(st) /\ Account(st, arrived)
        /\ MidInv(st, arrived) /\ Paced(st) /\ arrived \subseteq Cmd /\ turns \in Nat
        /\ st.exec \in Nat /\ Len(st.chain) \in Nat /\ st.calls \in Nat
    BY Fields DEF Inv, MidInv
  <1>2. /\ arrived' = arrived /\ turns' = turns /\ st.calls > 0
        /\ st' = IF s.waiting = {} THEN s ELSE NewConsensus(s, 0, s.waiting)
    BY DEF Repropose
  <1>3. k \in Nat  BY <1>1, <1>2
  <1> HIDE DEF k
  <1>4. /\ s \in RState /\ SameCore(st, s) /\ s.onQc = st.onQc
        /\ s.qcFinish = st.qcFinish /\ s.qcManual = st.qcManual
        /\ s.lastProposed = st.lastProposed /\ s.locked = st.locked
        /\ s.watching = st.watching /\ s.proposer = st.proposer /\ s.rotating = st.rotating
        /\ s.propBlk = st.propBlk /\ s.since = st.since
    BY <1>1, <1>3 DEF RState, SameCore
  <1> HIDE DEF s
  <1>5. MidInv(s, arrived)
    <2>1. Bounded(s)  BY <1>1, <1>4 DEF Bounded, SameCore
    <2>2. Slots(s)  BY <1>1, <1>4 DEF Slots
    <2>3. Noted(s)  BY <1>1, <1>4 DEF Noted, SameCore
    <2>4. Account(s, arrived)  BY <1>1, <1>4 DEF Account, SameCore
    <2> QED BY <1>1, <1>4, <2>1, <2>2, <2>3, <2>4 DEF MidInv, SameCore
  <1>6. MidInv(st', arrived) /\ Paced(st') /\ Goes(s, st')
    <2>1. CASE s.waiting = {}
      <3>1. st' = s  BY <1>2, <2>1
      <3>2. BeatsDone(s)  BY <2>1 DEF BeatsDone
      <3>3. Paced(s)  BY <1>1, <1>4, <3>2 DEF Paced, BeatAt, SameCore
      <3>4. Goes(s, s)  BY <1>1, <1>4 DEF Goes, SameCore
      <3> QED BY <1>5, <3>1, <3>3, <3>4
    <2>2. CASE s.waiting # {}
      <3>1. st' = NewConsensus(s, 0, s.waiting) /\ 0 \in 0 .. LastRound  BY <1>2, <2>2, Numbers
      <3>2. s.waiting \in SUBSET Cmd  BY <1>4, Fields
      <3> QED BY <1>5, <3>1, <3>2, NewConsensusInv
    <2> QED BY <2>1, <2>2
  <1>7. st.rotating /\ ~st'.rotating => Elected(st, st')
    BY <1>4, <1>6 DEF Goes, Elected, SameCore
  <1>8. Inv'
    BY <1>1, <1>2, <1>6
       DEF Inv, MidInv, Bounded, Slots, Noted, Account, Paced, BeatAt, BeatsDone
  <1> QED BY <1>7, <1>8 DEF Kept

(* The invariant holds at the start. *)
LEMMA InitInv == Init => Inv
  <1> SUFFICES ASSUME Init PROVE Inv
    OBVIOUS
  <1> DEFINE ran == [c \in Cmd |-> 0]
             pb == [p \in Replica |-> NoBlock]
             k == IF Me = 0 THEN 1 ELSE 0
  <1>1. /\ ran \in [Cmd -> Nat] /\ \A c \in Cmd : ran[c] = 0
        /\ pb \in [Replica -> Nat] /\ \A p \in Replica : pb[p] = 0
        /\ k \in Nat /\ (Me = 0 => k > 0) /\ 0 \in Replica
    BY Numbers DEF NoBlock, Replica
  <1> HIDE DEF ran, pb, k
  <1>2. /\ st = [chain |-> << >>, hqc |-> 0, exec |-> 0, certified |-> {0},
                 waiting |-> {}, ran |-> ran, beats |-> << >>,
                 lastProposed |-> 0, locked |-> FALSE, watching |-> TRUE,
                 onQc |-> << >>, qcFinish |-> 0, qcManual |-> 0,
                 proposer |-> 0, rotating |-> FALSE, timer |-> "none",
                 propBlk |-> pb, calls |-> k, since |-> 0]
        /\ arrived = {} /\ turns = 0
    BY DEF Init, ran, pb, k, NoPromise
  <1>3. << >> \in Seq(BlockOf) /\ << >> \in Seq(Cmd) /\ << >> \in Seq(Seq(Callback))
    OBVIOUS
  <1>4. st \in RState
    BY <1>1, <1>2, <1>3 DEF RState, Timer
  <1>5. Len(<< >>) = 0 /\ DOMAIN << >> = {}  OBVIOUS
  <1>6. Bounded(st)  BY <1>1, <1>2, <1>5 DEF Bounded
  <1>7. Slots(st)  BY <1>2, <1>5 DEF Slots
  <1>8. Noted(st)  BY <1>1, <1>2 DEF Noted, NoBlock
  <1>9. Account(st, arrived)  BY <1>1, <1>2, <1>5 DEF Account
  <1>10. Paced(st)
    <2>1. BeatsDone(st)  BY <1>2, <1>5 DEF BeatsDone
    <2> QED BY <1>2, <2>1 DEF Paced
  <1> QED BY <1>2, <1>4, <1>6, <1>7, <1>8, <1>9, <1>10 DEF Inv, MidInv

(* Every action keeps the invariant. *)
LEMMA NextInv == Inv /\ [Next]_vars => Kept
  <1> SUFFICES ASSUME Inv, [Next]_vars PROVE Kept
    OBVIOUS
  <1>1. ASSUME NEW c \in Cmd, Arrive(c) PROVE Kept
    BY <1>1, ArriveInv
  <1>2. ASSUME NEW h \in 1 .. Len(st.chain), CompleteQc(h) PROVE Kept
    BY <1>2, CompleteQcInv
  <1>3. ASSUME NEW q \in Others, NEW qc \in Known(q), NEW cmds \in OtherCmds,
               ReceiveProposal(q, cmds, qc)
        PROVE  Kept
    BY <1>3, ReceiveProposalInv
  <1>4. CASE ExpTimeout  BY <1>4, ExpTimeoutInv
  <1>5. CASE TurnTimeout  BY <1>5, TurnInv DEF TurnTimeout
  <1>6. CASE Impeach  BY <1>6, TurnInv DEF Impeach
  <1>7. CASE Repropose  BY <1>7, ReproposeInv
  <1>8. CASE UNCHANGED vars
    <2>1. st' = st /\ arrived' = arrived /\ turns' = turns  BY <1>8 DEF vars
    <2>2. Inv'
      BY <2>1 DEF Inv, MidInv, Bounded, Slots, Noted, Account, Paced, BeatAt, BeatsDone
    <2> QED BY <2>1, <2>2 DEF Kept
  <1> QED BY <1>1, <1>2, <1>3, <1>4, <1>5, <1>6, <1>7, <1>8 DEF Next

(* The inductive invariant holds always. *)
THEOREM AlwaysInv == Spec => []Inv
  <1>1. Inv /\ [Next]_vars => Inv'
    BY NextInv DEF Kept
  <1> QED BY <1>1, InitInv, PTL DEF Spec

(* The state has its types: among them, no height points beyond the chain, *)
(* and there is one list of callbacks for every block.                     *)
THEOREM TypeCorrect == Spec => []TypeOK
  <1>1. Inv => TypeOK
    <2> SUFFICES ASSUME Inv PROVE TypeOK
      OBVIOUS
    <2>1. st \in RState /\ Bounded(st) /\ arrived \subseteq Cmd /\ turns \in Nat
      BY DEF Inv, MidInv
    <2> DEFINE n == Len(st.chain)
    <2>2. n \in Nat /\ Height = 0 .. n  BY <2>1, Fields DEF Height
    <2>3. {st.hqc, st.exec, st.lastProposed, st.qcFinish, st.qcManual, st.since} \subseteq Height
      BY <2>1, <2>2, Fields DEF Bounded
    <2>4. st.certified \subseteq Height  BY <2>1, <2>2, Fields DEF Bounded
    <2>5. st.propBlk \in [Replica -> Height]
      <3>1. st.propBlk \in [Replica -> Nat] /\ \A p \in Replica : st.propBlk[p] <= n
        BY <2>1, Fields DEF Bounded
      <3>2. \A p \in Replica : st.propBlk[p] \in Height  BY <2>2, <3>1
      <3> QED BY <3>1, <3>2
    <2> QED BY <2>1, <2>3, <2>4, <2>5, Fields DEF TypeOK, Bounded, Timer
  <1> QED BY <1>1, AlwaysInv, PTL

(* Every command that has arrived is waiting or was executed exactly once, *)
(* however often rotations and re-proposals put it into blocks.            *)
THEOREM EachAnsweredOnce == Spec => []AnsweredOnce
  <1>1. Inv => AnsweredOnce
    BY DEF Inv, MidInv, Account, AnsweredOnce
  <1> QED BY <1>1, AlwaysInv, PTL

(* While this replica reigns, a locked pacemaker has a beat that waits for *)
(* the certificate of its last block, and an unlocked one has nothing to   *)
(* do or a call to do it.                                                  *)
THEOREM BeatsKeepPace == Spec => []PacingAlive
  <1>1. Inv => PacingAlive
    <2> SUFFICES ASSUME Inv, Reigns
                 PROVE  /\ st.locked => /\ st.lastProposed \notin st.certified
                                        /\ \E cb \in ToSet(st.onQc[st.lastProposed]) :
                                             cb.kind = "beat"
                        /\ ~st.locked => st.calls > 0 \/ ToSet(st.beats) \cap st.waiting = {}
      BY DEF PacingAlive
    <2>1. /\ st.locked => /\ st.lastProposed \notin st.certified
                          /\ BeatAt(st, st.lastProposed)
          /\ ~st.locked => st.calls > 0 \/ BeatsDone(st)
      BY DEF Inv, Paced, Reigns
    <2>2. BeatAt(st, st.lastProposed) =>
            \E cb \in ToSet(st.onQc[st.lastProposed]) : cb.kind = "beat"
      BY DEF BeatAt, ToSet
    <2>3. BeatsDone(st) => ToSet(st.beats) \cap st.waiting = {}
      BY DEF BeatsDone, ToSet
    <2> QED BY <2>1, <2>2, <2>3
  <1> QED BY <1>1, AlwaysInv, PTL

(* A rotation ends only when a block is decided that the new leader put on *)
(* the chain since the rotation began.                                     *)
THEOREM ElectsByNewBlock == Spec => ElectedByNewBlock
  <1>1. Inv /\ [Next]_vars =>
          [st.rotating /\ ~st'.rotating =>
             \E h \in st.exec + 1 .. st'.exec :
               st'.chain[h].by = st'.proposer /\ h > st.since]_vars
    BY NextInv DEF Kept, Elected
  <1> QED BY <1>1, AlwaysInv, PTL DEF Spec, ElectedByNewBlock
==============================================================================
