-------------------------- MODULE BlockFetch_proofs ---------------------------
(***************************************************************************)
(* For every tree of blocks, every set of replicas and every bound: a      *)
(* block is delivered only when its prefix is and its certificate holds,   *)
(* and a delivery that waits has something to wait for.                    *)
(***************************************************************************)
EXTENDS BlockFetch, FiniteSetTheorems, TLAPS

(* What a handler of r may have to send. *)
Out(r) == [kind : {"req", "resp"}, to : Replica \ {r}, blk : Blk]

(* The state of replica r within a handler. *)
StateMid(r) == [fetched : SUBSET Blk, delivered : SUBSET Blk,
                fetching : SUBSET Blk, ask : [Blk -> SUBSET (Replica \ {r})],
                delivering : SUBSET Blk, peer : [Blk -> Replica], body : SUBSET Blk,
                verdict : [Blk -> {"pending", "good", "bad"}],
                qcWait : SUBSET Blk, owed : SUBSET [to : Replica \ {r}, blk : Blk],
                heard : SUBSET Blk, out : SUBSET Out(r)]

(* A delivered block has its prefix, and its certificate holds.            *)
Stored(s, B) ==
  /\ \A b \in s.delivered : /\ b \in s.fetched \ B
                            /\ Delivered(s, Parent[b]) /\ Fetched(s, Qc[b])
  /\ \A b \in Blk : s.verdict[b] = "good" => b \notin B

(* The continuations under way: what each of them is waiting for.  Those   *)
(* of E are about to be delivered.                                         *)
Waiting(s, E) ==
  /\ s.body \subseteq s.fetched \cap s.delivering
  /\ s.body \cap s.delivered = {}
  /\ s.qcWait \subseteq s.body
  /\ \A b \in s.body : Parent[b] \in s.delivered \cup s.delivering \cup {genesis} \cup E
  /\ \A b \in s.body \ s.qcWait : Fetched(s, Qc[b])
  /\ \A b \in s.qcWait : Qc[b] \in Blk /\ s.peer[b] \in s.ask[Qc[b]]

(* The fetch contexts. *)
Asking(r, s) ==
  /\ \A b \in Blk : s.ask[b] # {} => b \in s.fetching
  /\ \A b \in s.delivering \ s.body : s.peer[b] \in s.ask[b]
  /\ \A b \in s.delivering : s.peer[b] # r
  /\ \A o \in s.owed : o.blk \in s.fetching

(* What holds of replica r at every point of a handler, with the blocks of *)
(* P proposed and those of B bad.                                          *)
MidInv(r, s, B, P, E) ==
  /\ s \in StateMid(r)
  /\ s.fetched \subseteq P
  /\ \A o \in s.out : o.kind = "resp" => o.blk \in P
  /\ Stored(s, B)
  /\ Waiting(s, E)
  /\ Asking(r, s)

(* After on_deliver_blk, a block that only waits for its parent waits for  *)
(* one that is not delivered.                                              *)
Settled(s) ==
  \A b \in s.delivering \cap s.body : Checked(s, b) => Parent[b] \in s.delivering

(* The inductive invariant. *)
Inv ==
  /\ st \in [Replica -> State]
  /\ \A r \in Replica : MidInv(r, st[r], bad, proposed, {}) /\ Settled(st[r])
  /\ proposed \subseteq Blk
  /\ msgs \subseteq Msg
  /\ \A m \in msgs : m.kind = "resp" => m.blk \in proposed
  /\ lost \in Nat
  /\ down \subseteq Replica
  /\ bad \subseteq MayBeBad
------------------------------------------------------------------------------
(* Parents and the blocks of certificates come before their blocks. *)
LEMMA Before ==
  ASSUME NEW b \in Blk
  PROVE  /\ Parent[b] \in Blk \cup {genesis} /\ Parent[b] # b
         /\ Qc[b] \in Blk \cup {genesis} /\ Qc[b] # b
         /\ b # genesis
  BY FetchAssumption DEF Blk, genesis

(* The chain of a block holds the block and is closed under parents. *)
LEMMA ChainClosed ==
  ASSUME NEW b \in Blk
  PROVE  /\ Chain[b] \subseteq Blk
         /\ b \in Chain[b]
         /\ \A y \in Chain[b] : Parent[y] \in Chain[b] \cup {genesis}
  <1>1. \A x : x \in Chain[b] <=>
          /\ x \in Blk
          /\ \A S \in SUBSET Blk :
               b \in S /\ (\A y \in S : Parent[y] \in S \cup {genesis}) => x \in S
    BY DEF Chain
  <1>2. ASSUME NEW y \in Chain[b], Parent[y] # genesis
        PROVE  Parent[y] \in Chain[b]
    <2>1. y \in Blk  BY <1>1
    <2>2. Parent[y] \in Blk  BY <2>1, <1>2, Before
    <2> QED BY <1>1, <1>2, <2>2
  <1> QED BY <1>1, <1>2

(* It is the least such set. *)
LEMMA ChainLeast ==
  ASSUME NEW b \in Blk, NEW S \in SUBSET Blk, b \in S,
         \A y \in S : Parent[y] \in S \cup {genesis}
  PROVE  Chain[b] \subseteq S
  BY DEF Chain

(* A chain is its block and the chain of the parent. *)
LEMMA ChainOfParent ==
  ASSUME NEW b \in Blk
  PROVE  /\ Parent[b] = genesis => Chain[b] = {b}
         /\ Parent[b] # genesis => /\ Parent[b] \in Blk
                                   /\ Chain[b] = {b} \cup Chain[Parent[b]]
  <1>1. CASE Parent[b] = genesis
    <2>1. \A S \in SUBSET Blk :
            b \in S /\ (\A y \in S : Parent[y] \in S \cup {genesis}) => Chain[b] \subseteq S
      BY ChainLeast
    <2>2. {b} \in SUBSET Blk /\ \A y \in {b} : Parent[y] \in {b} \cup {genesis}
      BY <1>1
    <2>3. Chain[b] \subseteq {b}
      BY <2>1, <2>2
    <2> QED BY <1>1, <2>3, ChainClosed
  <1>2. CASE Parent[b] # genesis
    <2>1. Parent[b] \in Blk  BY <1>2, Before
    <2>2. Chain[Parent[b]] \subseteq Chain[b]
      BY <2>1, <1>2, ChainClosed, ChainLeast
    <2> DEFINE S == {b} \cup Chain[Parent[b]]
    <2>3. S \in SUBSET Blk /\ b \in S /\ \A y \in S : Parent[y] \in S \cup {genesis}
      BY <2>1, ChainClosed
    <2>4. Chain[b] \subseteq S
      <3> HIDE DEF S
      <3> QED BY <2>3, ChainLeast
    <2> QED BY <1>2, <2>1, <2>2, <2>4, ChainClosed
  <1> QED BY <1>1, <1>2

(* What async_deliver_blk starts: blocks of the chain that nobody has      *)
(* started, each of which is there or needs to be fetched, and the parent  *)
(* of a block that is there is one of them unless it was started before.   *)
LEMMA StartedFacts ==
  ASSUME NEW s, NEW b \in Blk
  PROVE  /\ Started(s, b) \subseteq Blk \ (s.delivered \cup s.delivering)
         /\ b \notin s.delivered \cup s.delivering => b \in Started(s, b)
         /\ \A x \in Started(s, b) \cap s.fetched :
              Parent[x] \in s.delivered \cup s.delivering \cup {genesis} \cup Started(s, b)
  <1> DEFINE done == s.delivered \cup s.delivering
  <1>1. Started(s, b) =
          {x \in Chain[b] \ done : Chain[b] \ Chain[x] \subseteq s.fetched \ done}
    BY DEF Started
  <1> HIDE DEF done
  <1>2. Started(s, b) \subseteq Blk \ done
    BY <1>1, ChainClosed
  <1>3. b \notin done => b \in Started(s, b)
    <2>1. Chain[b] \ Chain[b] = {}  OBVIOUS
    <2> QED BY <1>1, <2>1, ChainClosed
  <1>4. ASSUME NEW x \in Started(s, b), x \in s.fetched, Parent[x] # genesis, Parent[x] \notin done
        PROVE  Parent[x] \in Started(s, b)
    <2>1. x \in Blk /\ x \in Chain[b] /\ x \notin done  BY <1>1, <1>2
    <2>2. Parent[x] \in Chain[b]  BY <2>1, <1>4, ChainClosed
    <2>3. Chain[x] = {x} \cup Chain[Parent[x]]  BY <2>1, <1>4, ChainOfParent
    <2>4. Chain[b] \ Chain[Parent[x]] \subseteq (Chain[b] \ Chain[x]) \cup {x}
      BY <2>3
    <2>5. Chain[b] \ Chain[x] \subseteq s.fetched \ done  BY <1>1, <1>4
    <2>6. Chain[b] \ Chain[Parent[x]] \subseteq s.fetched \ done
      BY <2>1, <2>4, <2>5, <1>4
    <2> QED BY <1>1, <1>4, <2>2, <2>6
  <1> QED BY <1>2, <1>3, <1>4 DEF done

(* async_fetch_blk, field by field. *)
LEMMA AsyncFetchFields ==
  ASSUME NEW r \in Replica, NEW t \in StateMid(r), NEW p \in Replica \ {r},
         NEW W \in SUBSET (Blk \cup {genesis}), NEW u, u = AsyncFetch(t, W, p)
  PROVE  /\ u \in StateMid(r)
         /\ u.fetched = t.fetched /\ u.delivered = t.delivered
         /\ u.delivering = t.delivering /\ u.peer = t.peer
         /\ u.body = t.body /\ u.verdict = t.verdict /\ u.qcWait = t.qcWait
         /\ u.owed = t.owed /\ t.fetching \subseteq u.fetching
         /\ \A x \in Blk : /\ t.ask[x] \subseteq u.ask[x]
                           /\ u.ask[x] # {} => t.ask[x] # {} \/ x \in u.fetching
                           /\ x \in W \ t.fetched => p \in u.ask[x] /\ x \in u.fetching
         /\ \A o \in u.out : o.kind = "resp" => o \in t.out
  <1> DEFINE missing == {x \in W : ~Fetched(t, x)}
             A == [x \in Blk |-> t.ask[x] \cup (IF x \in missing THEN {p} ELSE {})]
             O == {[kind |-> "req", to |-> p, blk |-> x] : x \in {y \in missing : t.ask[y] = {}}}
  <1>1. u = [t EXCEPT !.fetching = @ \cup missing, !.ask = A, !.out = @ \cup O]
    BY DEF AsyncFetch
  <1>2. missing \subseteq Blk /\ \A x \in Blk : x \in missing <=> x \in W \ t.fetched
    BY Before DEF Fetched
  <1>3. A \in [Blk -> SUBSET (Replica \ {r})]
    BY DEF StateMid
  <1>4. O \subseteq Out(r) /\ \A o \in O : o.kind = "req"
    BY <1>2 DEF Out
  <1>5. \A x \in Blk : A[x] = t.ask[x] \cup (IF x \in missing THEN {p} ELSE {})
    OBVIOUS
  <1> HIDE DEF missing, A, O
  <1>6. /\ u.fetched = t.fetched /\ u.delivered = t.delivered
        /\ u.delivering = t.delivering /\ u.peer = t.peer
        /\ u.body = t.body /\ u.verdict = t.verdict /\ u.qcWait = t.qcWait
        /\ u.owed = t.owed /\ u.fetching = t.fetching \cup missing
        /\ u.ask = A /\ u.out = t.out \cup O
    BY <1>1 DEF StateMid
  <1>7. u \in StateMid(r)
    <2>1. t.fetching \cup missing \in SUBSET Blk /\ t.out \cup O \in SUBSET Out(r)
      BY <1>2, <1>4 DEF StateMid
    <2> QED BY <1>1, <1>3, <2>1 DEF StateMid
  <1>8. \A o \in u.out : o.kind = "resp" => o \in t.out
    BY <1>4, <1>6
  <1>9. \A x \in Blk : /\ t.ask[x] \subseteq u.ask[x]
                       /\ u.ask[x] # {} => t.ask[x] # {} \/ x \in u.fetching
                       /\ x \in W \ t.fetched => p \in u.ask[x] /\ x \in u.fetching
    BY <1>2, <1>5, <1>6
  <1> QED BY <1>6, <1>7, <1>8, <1>9

(* async_deliver_blk, up to the fetches that it starts. *)
StartDelivery(s, b, p) ==
  LET new == Started(s, b)
      here == new \cap s.fetched
  IN  [s EXCEPT
         !.delivering = @ \cup new,
         !.peer = [x \in Blk |-> IF x \in new THEN p ELSE @[x]],
         !.body = @ \cup here,
         !.verdict = [x \in Blk |-> IF x \in here
                                    THEN (IF Qc[x] = genesis THEN "good" ELSE "pending")
                                    ELSE @[x]],
         !.qcWait = @ \cup {x \in here : ~Fetched(s, Qc[x])}]

(* It ends in async_fetch_blk. *)
LEMMA AsyncDeliverIs ==
  ASSUME NEW s, NEW b, NEW p
  PROVE  AsyncDeliver(s, b, p) =
           AsyncFetch(StartDelivery(s, b, p),
                      (Started(s, b) \ (Started(s, b) \cap s.fetched))
                        \cup {Qc[x] : x \in Started(s, b) \cap s.fetched}, p)
  BY DEF AsyncDeliver, StartDelivery

(* async_deliver_blk up to its fetches, field by field. *)
LEMMA StartDeliveryFields ==
  ASSUME NEW r \in Replica, NEW s \in StateMid(r), NEW p \in Replica \ {r},
         NEW b \in Blk, NEW t, t = StartDelivery(s, b, p),
         NEW new, new = Started(s, b)
  PROVE  /\ t \in StateMid(r)
         /\ t.fetched = s.fetched /\ t.delivered = s.delivered
         /\ t.fetching = s.fetching /\ t.ask = s.ask /\ t.owed = s.owed
         /\ t.out = s.out
         /\ t.delivering = s.delivering \cup new
         /\ t.body = s.body \cup (new \cap s.fetched)
         /\ t.qcWait = s.qcWait \cup {x \in new \cap s.fetched : ~Fetched(s, Qc[x])}
         /\ \A x \in Blk : /\ t.peer[x] = IF x \in new THEN p ELSE s.peer[x]
                           /\ t.verdict[x] = IF x \in new \cap s.fetched
                                THEN (IF Qc[x] = genesis THEN "good" ELSE "pending")
                                ELSE s.verdict[x]
  <1> DEFINE here == new \cap s.fetched
             Pe == [x \in Blk |-> IF x \in new THEN p ELSE s.peer[x]]
             V == [x \in Blk |-> IF x \in here
                                 THEN (IF Qc[x] = genesis THEN "good" ELSE "pending")
                                 ELSE s.verdict[x]]
             Q == {x \in here : ~Fetched(s, Qc[x])}
  <1>1. t = [s EXCEPT !.delivering = @ \cup new, !.peer = Pe, !.body = @ \cup here,
                      !.verdict = V, !.qcWait = @ \cup Q]
    BY DEF StartDelivery
  <1>2. new \subseteq Blk /\ here \subseteq Blk /\ Q \subseteq Blk
    BY StartedFacts
  <1>3. Pe \in [Blk -> Replica] /\ V \in [Blk -> {"pending", "good", "bad"}]
    BY DEF StateMid
  <1>4. \A x \in Blk : /\ Pe[x] = IF x \in new THEN p ELSE s.peer[x]
                       /\ V[x] = IF x \in here
                                 THEN (IF Qc[x] = genesis THEN "good" ELSE "pending")
                                 ELSE s.verdict[x]
    OBVIOUS
  <1> HIDE DEF Pe, V, Q
  <1>5. /\ t.fetched = s.fetched /\ t.delivered = s.delivered
        /\ t.fetching = s.fetching /\ t.ask = s.ask /\ t.owed = s.owed
        /\ t.out = s.out
        /\ t.delivering = s.delivering \cup new
        /\ t.body = s.body \cup here
        /\ t.qcWait = s.qcWait \cup Q
        /\ t.peer = Pe /\ t.verdict = V
    BY <1>1 DEF StateMid
  <1>6. t \in StateMid(r)
    <2>1. /\ s.delivering \cup new \in SUBSET Blk /\ s.body \cup here \in SUBSET Blk
          /\ s.qcWait \cup Q \in SUBSET Blk
      BY <1>2 DEF StateMid
    <2> HIDE DEF here
    <2> QED BY <1>1, <1>3, <2>1, ZenonT(60) DEF StateMid
  <1> QED BY <1>4, <1>5, <1>6 DEF Q

(* async_deliver_blk keeps the invariant, and afterwards the delivery of   *)
(* its block has been started.                                             *)
LEMMA AsyncDeliverInv ==
  ASSUME NEW r \in Replica, NEW s, NEW B \in SUBSET MayBeBad, NEW P,
         NEW b \in Blk, NEW p \in Replica \ {r}, MidInv(r, s, B, P, {b})
  PROVE  MidInv(r, AsyncDeliver(s, b, p), B, P, {})
  <1> DEFINE new == Started(s, b)
             here == new \cap s.fetched
             W == (new \ here) \cup {Qc[x] : x \in here}
             t == StartDelivery(s, b, p)
             u == AsyncFetch(t, W, p)
  <1>1. AsyncDeliver(s, b, p) = u
    BY AsyncDeliverIs
  <1>2. /\ s \in StateMid(r) /\ s.fetched \subseteq P
        /\ \A o \in s.out : o.kind = "resp" => o.blk \in P
        /\ Stored(s, B) /\ Waiting(s, {b}) /\ Asking(r, s)
    BY DEF MidInv
  <1>3. /\ new \subseteq Blk \ (s.delivered \cup s.delivering)
        /\ b \notin s.delivered \cup s.delivering => b \in new
        /\ \A x \in new \cap s.fetched :
             Parent[x] \in s.delivered \cup s.delivering \cup {genesis} \cup new
    BY StartedFacts
  <1>4. W \in SUBSET (Blk \cup {genesis})
    BY <1>3, Before
  <1>5. /\ t \in StateMid(r)
        /\ t.fetched = s.fetched /\ t.delivered = s.delivered
        /\ t.fetching = s.fetching /\ t.ask = s.ask /\ t.owed = s.owed
        /\ t.out = s.out
        /\ t.delivering = s.delivering \cup new
        /\ t.body = s.body \cup here
        /\ t.qcWait = s.qcWait \cup {x \in here : ~Fetched(s, Qc[x])}
        /\ \A x \in Blk : /\ t.peer[x] = IF x \in new THEN p ELSE s.peer[x]
                          /\ t.verdict[x] = IF x \in here
                               THEN (IF Qc[x] = genesis THEN "good" ELSE "pending")
                               ELSE s.verdict[x]
    BY <1>2, StartDeliveryFields
  <1>6. /\ u \in StateMid(r)
        /\ u.fetched = t.fetched /\ u.delivered = t.delivered
        /\ u.delivering = t.delivering /\ u.peer = t.peer
        /\ u.body = t.body /\ u.verdict = t.verdict /\ u.qcWait = t.qcWait
        /\ u.owed = t.owed /\ t.fetching \subseteq u.fetching
        /\ \A x \in Blk : /\ t.ask[x] \subseteq u.ask[x]
                          /\ u.ask[x] # {} => t.ask[x] # {} \/ x \in u.fetching
                          /\ x \in W \ t.fetched => p \in u.ask[x] /\ x \in u.fetching
        /\ \A o \in u.out : o.kind = "resp" => o \in t.out
    BY <1>4, <1>5, AsyncFetchFields
  <1>7. \A x \in here : x \in new /\ x \in s.fetched /\ x \in Blk /\ Qc[x] \in W
    BY <1>3
  <1>8. \A x \in new : x \notin here => x \in W /\ x \notin s.fetched
    OBVIOUS
  <1>9. /\ s.body \subseteq Blk /\ s.qcWait \subseteq Blk /\ s.delivering \subseteq Blk
        /\ s.delivered \subseteq Blk
    BY <1>2 DEF StateMid
  <1>10. \A x \in here : x \in new /\ x \in s.fetched  OBVIOUS
  <1>11. \A x \in new : x \in s.fetched => x \in here  OBVIOUS
  <1> HIDE DEF new, here, W, t, u
  <1>12. /\ u.fetched = s.fetched /\ u.delivered = s.delivered
         /\ u.delivering = s.delivering \cup new /\ u.body = s.body \cup here
         /\ u.owed = s.owed /\ s.fetching \subseteq u.fetching
         /\ u.qcWait = s.qcWait \cup {x \in here : ~Fetched(s, Qc[x])}
         /\ \A x \in Blk : s.ask[x] \subseteq u.ask[x]
    BY <1>5, <1>6
  <1>13. Stored(u, B)
    <2>1. ASSUME NEW x \in Blk, u.verdict[x] = "good"
          PROVE  x \notin B
      <3>1. CASE x \in here
        <4>1. Qc[x] = genesis  BY <2>1, <3>1, <1>5, <1>6
        <4> QED BY <4>1, FetchAssumption
      <3>2. CASE x \notin here
        BY <2>1, <3>2, <1>2, <1>5, <1>6 DEF Stored
      <3> QED BY <3>1, <3>2
    <2> QED BY <2>1, <1>2, <1>12 DEF Stored, Delivered, Fetched
  <1>14. Waiting(u, {})
    <2>1. u.body \subseteq u.fetched \cap u.delivering /\ u.body \cap u.delivered = {}
      BY <1>2, <1>3, <1>7, <1>12 DEF Waiting
    <2>2. u.qcWait \subseteq u.body
      BY <1>2, <1>12 DEF Waiting
    <2>3. ASSUME NEW x \in u.body
          PROVE  Parent[x] \in u.delivered \cup u.delivering \cup {genesis} \cup {}
      <3>1. CASE x \in here
        BY <3>1, <1>3, <1>7, <1>12
      <3>2. CASE x \in s.body
        <4>1. Parent[x] \in s.delivered \cup s.delivering \cup {genesis} \cup {b}
          BY <3>2, <1>2 DEF Waiting
        <4> QED BY <4>1, <1>3, <1>12
      <3> QED BY <1>12, <3>1, <3>2
    <2>4. ASSUME NEW x \in u.body, x \notin u.qcWait
          PROVE  Fetched(u, Qc[x])
      <3>1. CASE x \in here
        <4>1. Fetched(s, Qc[x])  BY <2>4, <3>1, <1>12
        <4> QED BY <4>1, <1>12 DEF Fetched
      <3>2. CASE x \in s.body
        BY <2>4, <3>2, <1>2, <1>12 DEF Waiting, Fetched
      <3> QED BY <1>12, <3>1, <3>2
    <2>5. ASSUME NEW x \in u.qcWait
          PROVE  Qc[x] \in Blk /\ u.peer[x] \in u.ask[Qc[x]]
      <3>1. CASE x \in s.qcWait
        <4>1. Qc[x] \in Blk /\ s.peer[x] \in s.ask[Qc[x]]
          BY <3>1, <1>2 DEF Waiting
        <4>2. x \in Blk /\ x \notin new
          <5>1. x \in s.body /\ x \in s.delivering  BY <3>1, <1>2 DEF Waiting
          <5> QED BY <5>1, <1>3, <1>9
        <4>3. u.peer[x] = s.peer[x]
          BY <4>2, <1>5, <1>6
        <4> QED BY <4>1, <4>3, <1>12
      <3>2. CASE x \in here /\ ~Fetched(s, Qc[x])
        <4>1. x \in Blk /\ x \in new /\ Qc[x] \in W  BY <3>2, <1>7
        <4>2. Qc[x] \in Blk /\ Qc[x] \notin s.fetched
          BY <4>1, <3>2, Before DEF Fetched
        <4>3. p \in u.ask[Qc[x]]
          BY <4>1, <4>2, <1>5, <1>6
        <4>4. u.peer[x] = p
          BY <4>1, <1>5, <1>6
        <4> QED BY <4>2, <4>3, <4>4
      <3> QED BY <1>12, <3>1, <3>2
    <2> QED BY <2>1, <2>2, <2>3, <2>4, <2>5 DEF Waiting
  <1>15. Asking(r, u)
    <2>1. ASSUME NEW x \in Blk, u.ask[x] # {}
          PROVE  x \in u.fetching
      BY <2>1, <1>2, <1>5, <1>6 DEF Asking
    <2>2. ASSUME NEW x \in u.delivering, x \notin u.body
          PROVE  u.peer[x] \in u.ask[x]
      <3>1. CASE x \in new
        <4>1. x \in Blk /\ x \notin here  BY <2>2, <3>1, <1>3, <1>12
        <4>2. x \in W /\ x \notin t.fetched  BY <3>1, <4>1, <1>5, <1>8
        <4> QED BY <3>1, <4>1, <4>2, <1>5, <1>6
      <3>2. CASE x \notin new
        <4>1. x \in s.delivering /\ x \notin s.body /\ x \in Blk
          BY <2>2, <3>2, <1>9, <1>12
        <4>2. s.peer[x] \in s.ask[x]  BY <4>1, <1>2 DEF Asking
        <4>3. u.peer[x] = s.peer[x]  BY <3>2, <4>1, <1>5, <1>6
        <4> QED BY <4>1, <4>2, <4>3, <1>12
      <3> QED BY <3>1, <3>2
    <2>3. ASSUME NEW x \in u.delivering
          PROVE  u.peer[x] # r
      <3>1. CASE x \in new
        BY <3>1, <1>3, <1>5, <1>6
      <3>2. CASE x \notin new
        <4>1. x \in s.delivering /\ x \in Blk  BY <3>2, <1>9, <1>12
        <4> QED BY <3>2, <4>1, <1>2, <1>5, <1>6 DEF Asking
      <3> QED BY <3>1, <3>2
    <2>4. \A o \in u.owed : o.blk \in u.fetching
      BY <1>2, <1>12 DEF Asking
    <2> QED BY <2>1, <2>2, <2>3, <2>4 DEF Asking
  <1>16. \A o \in u.out : o.kind = "resp" => o.blk \in P
    BY <1>2, <1>5, <1>6
  <1>17. u.fetched \subseteq P
    BY <1>2, <1>12
  <1>18. MidInv(r, u, B, P, {})
    BY <1>6, <1>13, <1>14, <1>15, <1>16, <1>17 DEF MidInv
  <1> QED BY <1>1, <1>18

(* What on_deliver_blk makes delivered: blocks whose continuations are     *)
(* complete, each with its prefix; and all of those that have it.          *)
LEMMA DeliverableFacts ==
  ASSUME NEW s, NEW B, Stored(s, B), s.delivered \subseteq Blk,
         NEW now, now = Deliverable(s)
  PROVE  /\ now \subseteq Blk \ s.delivered
         /\ \A x \in now : Checked(s, x)
         /\ \A x \in now : Parent[x] \in s.delivered \cup now \cup {genesis}
         /\ \A x \in Blk : /\ x \notin s.delivered /\ Checked(s, x)
                           /\ Parent[x] \in s.delivered \cup now \cup {genesis}
                           => x \in now
  <1> DEFINE D == s.delivered \cup now
  <1>1. now = {b \in Blk \ s.delivered : \A x \in Chain[b] \ s.delivered : Checked(s, x)}
    BY DEF Deliverable
  <1>2. now \subseteq Blk \ s.delivered
    BY <1>1
  <1>3. \A x \in now : Checked(s, x)
    BY <1>1, ChainClosed
  <1>4. ASSUME NEW x \in now, Parent[x] # genesis, Parent[x] \notin s.delivered
        PROVE  Parent[x] \in now
    <2>1. Parent[x] \in Blk /\ Chain[Parent[x]] \subseteq Chain[x]
      BY <1>2, <1>4, ChainOfParent
    <2>2. \A y \in Chain[x] \ s.delivered : Checked(s, y)
      BY <1>1
    <2>3. \A y \in Chain[Parent[x]] \ s.delivered : Checked(s, y)
      BY <2>1, <2>2
    <2> QED BY <1>1, <1>4, <2>1, <2>3
  <1>5. D \in SUBSET Blk /\ \A y \in D : Parent[y] \in D \cup {genesis}
    BY <1>2, <1>4 DEF Stored, Delivered
  <1>6. ASSUME NEW x \in Blk, x \notin s.delivered, Checked(s, x), Parent[x] \in D \cup {genesis}
        PROVE  x \in now
    <2>1. Chain[x] \subseteq {x} \cup D
      <3>1. CASE Parent[x] = genesis
        BY <3>1, ChainOfParent
      <3>2. CASE Parent[x] # genesis
        <4>1. Parent[x] \in D /\ Parent[x] \in Blk  BY <3>2, <1>5, <1>6
        <4>2. Chain[Parent[x]] \subseteq D
          <5> HIDE DEF D
          <5> QED BY <4>1, <1>5, ChainLeast
        <4> QED BY <3>2, <4>2, ChainOfParent
      <3> QED BY <3>1, <3>2
    <2>2. \A y \in Chain[x] \ s.delivered : Checked(s, y)
      BY <2>1, <1>3, <1>6
    <2> QED BY <1>1, <1>6, <2>2
  <1> QED BY <1>2, <1>3, <1>4, <1>6

(* on_deliver_blk keeps the invariant, and leaves no block undelivered     *)
(* that waits for nothing.                                                 *)
LEMMA DeliverInv ==
  ASSUME NEW r \in Replica, NEW s, NEW B, NEW P, MidInv(r, s, B, P, {})
  PROVE  MidInv(r, Deliver(s), B, P, {}) /\ Settled(Deliver(s))
  <1> DEFINE now == Deliverable(s)
             u == [s EXCEPT !.delivered = @ \cup now, !.delivering = @ \ now,
                            !.body = @ \ now]
  <1>1. Deliver(s) = u
    BY DEF Deliver
  <1>2. /\ s \in StateMid(r) /\ s.fetched \subseteq P
        /\ \A o \in s.out : o.kind = "resp" => o.blk \in P
        /\ Stored(s, B) /\ Waiting(s, {}) /\ Asking(r, s)
    BY DEF MidInv
  <1>3. /\ s.delivered \subseteq Blk /\ s.delivering \subseteq Blk /\ s.body \subseteq Blk
    BY <1>2 DEF StateMid
  <1>4. /\ now \subseteq Blk \ s.delivered
        /\ \A x \in now : Checked(s, x)
        /\ \A x \in now : Parent[x] \in s.delivered \cup now \cup {genesis}
        /\ \A x \in Blk : /\ x \notin s.delivered /\ Checked(s, x)
                          /\ Parent[x] \in s.delivered \cup now \cup {genesis}
                          => x \in now
    BY <1>2, <1>3, DeliverableFacts
  <1> HIDE DEF now
  <1>5. u \in StateMid(r)
    <2>1. /\ s.delivered \cup now \in SUBSET Blk /\ s.delivering \ now \in SUBSET Blk
          /\ s.body \ now \in SUBSET Blk
      BY <1>3, <1>4
    <2> QED BY <1>2, <2>1 DEF StateMid
  <1>6. /\ u.fetched = s.fetched /\ u.delivered = s.delivered \cup now
        /\ u.fetching = s.fetching /\ u.ask = s.ask /\ u.peer = s.peer
        /\ u.delivering = s.delivering \ now /\ u.body = s.body \ now
        /\ u.verdict = s.verdict /\ u.qcWait = s.qcWait /\ u.owed = s.owed
        /\ u.out = s.out
    BY <1>2 DEF StateMid
  <1> HIDE DEF u
  <1>7. \A x \in now : /\ x \in s.body /\ x \notin s.qcWait
                       /\ s.verdict[x] = "good" /\ x \in Blk
    BY <1>4 DEF Checked
  <1>8. Stored(u, B)
    <2>1. ASSUME NEW x \in now
          PROVE  /\ x \in u.fetched \ B /\ Delivered(u, Parent[x]) /\ Fetched(u, Qc[x])
      <3>1. x \in s.fetched \ B
        BY <1>2, <1>7 DEF Stored, Waiting
      <3>2. Delivered(u, Parent[x])
        BY <1>4, <1>6 DEF Delivered
      <3>3. Fetched(u, Qc[x])
        BY <1>2, <1>6, <1>7 DEF Waiting, Fetched
      <3> QED BY <1>6, <3>1, <3>2, <3>3
    <2>2. ASSUME NEW x \in s.delivered
          PROVE  /\ x \in u.fetched \ B /\ Delivered(u, Parent[x]) /\ Fetched(u, Qc[x])
      BY <1>2, <1>6 DEF Stored, Delivered, Fetched
    <2>3. \A x \in Blk : u.verdict[x] = "good" => x \notin B
      BY <1>2, <1>6 DEF Stored
    <2> QED BY <1>6, <2>1, <2>2, <2>3 DEF Stored
  <1>9. Waiting(u, {})
    BY <1>2, <1>6, <1>7 DEF Waiting, Fetched
  <1>10. Asking(r, u)
    BY <1>2, <1>6, <1>7 DEF Asking
  <1>11. Settled(u)
    <2> SUFFICES ASSUME NEW b \in u.delivering \cap u.body, Checked(u, b)
                 PROVE  Parent[b] \in u.delivering
      BY DEF Settled
    <2>1. b \in s.body /\ b \in Blk /\ b \notin now /\ b \notin s.delivered /\ Checked(s, b)
      BY <1>2, <1>3, <1>6 DEF Waiting, Checked
    <2>2. Parent[b] \notin s.delivered \cup now \cup {genesis}
      BY <1>4, <2>1
    <2>3. Parent[b] \in s.delivered \cup s.delivering \cup {genesis}
      BY <1>2, <2>1 DEF Waiting
    <2> QED BY <1>6, <2>2, <2>3
  <1>12. MidInv(r, u, B, P, {})
    BY <1>2, <1>5, <1>6, <1>8, <1>9, <1>10 DEF MidInv
  <1> QED BY <1>1, <1>11, <1>12

(* on_fetch_blk keeps the invariant. *)
LEMMA OnFetchInv ==
  ASSUME NEW r \in Replica, NEW s, NEW B \in SUBSET MayBeBad, NEW P, NEW b \in Blk,
         b \in s.fetched, MidInv(r, s, B, P, {})
  PROVE  MidInv(r, OnFetch(s, b), B, P, {})
  <1> DEFINE Q == {x \in s.qcWait : Qc[x] # b}
             Owe == {o \in s.owed : o.blk # b}
             O == {[kind |-> "resp", to |-> o.to, blk |-> b] :
                     o \in {w \in s.owed : w.blk = b}}
             A == [s.ask EXCEPT ![b] = {}]
             t == [s EXCEPT !.fetching = @ \ {b}, !.ask[b] = {}, !.qcWait = {x \in @ : Qc[x] # b},
                            !.owed = {o \in @ : o.blk # b},
                            !.out = @ \cup {[kind |-> "resp", to |-> o.to, blk |-> b] :
                                              o \in {w \in s.owed : w.blk = b}}]
             v == [t EXCEPT !.delivering = @ \ {b}]
  <1>1. /\ s \in StateMid(r) /\ s.fetched \subseteq P
        /\ \A o \in s.out : o.kind = "resp" => o.blk \in P
        /\ Stored(s, B) /\ Waiting(s, {}) /\ Asking(r, s)
    BY DEF MidInv
  <1>2. t = [s EXCEPT !.fetching = @ \ {b}, !.ask = A, !.qcWait = Q, !.owed = Owe,
                      !.out = @ \cup O]
    OBVIOUS
  <1>3. /\ Q \subseteq s.qcWait /\ \A x \in s.qcWait : x \in Q <=> Qc[x] # b
        /\ Owe \subseteq s.owed /\ \A o \in Owe : o.blk # b
    OBVIOUS
  <1>4. O \subseteq Out(r) /\ \A o \in O : o.blk = b
    BY <1>1 DEF StateMid, Out
  <1>5. A \in [Blk -> SUBSET (Replica \ {r})] /\ A[b] = {}
        /\ \A x \in Blk : x # b => A[x] = s.ask[x]
    BY <1>1 DEF StateMid
  <1> HIDE DEF Q, Owe, O, A
  <1>6. t \in StateMid(r)
    <2>1. /\ s.fetching \ {b} \in SUBSET Blk /\ Q \in SUBSET Blk
          /\ Owe \in SUBSET [to : Replica \ {r}, blk : Blk]
          /\ s.out \cup O \in SUBSET Out(r)
      BY <1>1, <1>3, <1>4 DEF StateMid
    <2> HIDE DEF t
    <2> QED BY <1>1, <1>2, <1>5, <2>1 DEF StateMid
  <1>7. /\ t.fetched = s.fetched /\ t.delivered = s.delivered
        /\ t.fetching = s.fetching \ {b} /\ t.ask = A /\ t.peer = s.peer
        /\ t.delivering = s.delivering /\ t.body = s.body
        /\ t.verdict = s.verdict /\ t.qcWait = Q /\ t.owed = Owe
        /\ t.out = s.out \cup O
    <2> HIDE DEF t
    <2> QED BY <1>1, <1>2 DEF StateMid
  <1>8. OnFetch(s, b) = CASE b \notin s.fetching -> s
          [] b \in s.fetching /\ b \in s.delivering \ s.body -> AsyncDeliver(v, b, s.peer[b])
          [] OTHER -> t
    BY DEF OnFetch
  <1> HIDE DEF t
  <1>9. /\ v \in StateMid(r) /\ v.fetched = s.fetched /\ v.delivered = s.delivered
        /\ v.fetching = s.fetching \ {b} /\ v.ask = A /\ v.peer = s.peer
        /\ v.delivering = s.delivering \ {b} /\ v.body = s.body
        /\ v.verdict = s.verdict /\ v.qcWait = Q /\ v.owed = Owe
        /\ v.out = s.out \cup O
    <2>1. t.delivering \ {b} \in SUBSET Blk  BY <1>6 DEF StateMid
    <2> QED BY <1>6, <1>7, <2>1 DEF StateMid
  <1> HIDE DEF v
  <1>10. /\ s.body \subseteq s.delivering /\ s.delivering \subseteq Blk
         /\ s.qcWait \subseteq s.body
    BY <1>1 DEF StateMid, Waiting
  <1>11. CASE b \notin s.fetching
    BY <1>8, <1>11
  <1>12. CASE b \in s.fetching /\ b \in s.delivering \ s.body
    <2>1. OnFetch(s, b) = AsyncDeliver(v, b, s.peer[b])
      BY <1>8, <1>12
    <2>2. s.peer[b] \in Replica \ {r}
      BY <1>1, <1>12 DEF StateMid, Asking
    <2>3. Stored(v, B)
      BY <1>1, <1>9 DEF Stored, Delivered, Fetched
    <2>4. Waiting(v, {b})
      <3>1. /\ v.body \subseteq v.fetched \cap v.delivering
            /\ v.body \cap v.delivered = {} /\ v.qcWait \subseteq v.body
            /\ \A x \in v.body : Parent[x] \in v.delivered \cup v.delivering \cup {genesis} \cup {b}
        BY <1>1, <1>3, <1>9, <1>12 DEF Waiting
      <3>2. ASSUME NEW x \in v.body \ v.qcWait
            PROVE  Fetched(v, Qc[x])
        BY <1>1, <1>3, <1>9 DEF Waiting, Fetched
      <3>3. ASSUME NEW x \in v.qcWait
            PROVE  Qc[x] \in Blk /\ v.peer[x] \in v.ask[Qc[x]]
        BY <1>1, <1>3, <1>5, <1>9 DEF Waiting
      <3> QED BY <3>1, <3>2, <3>3 DEF Waiting
    <2>5. Asking(r, v)
      <3>1. \A x \in Blk : v.ask[x] # {} => x \in v.fetching
        BY <1>1, <1>5, <1>9 DEF Asking
      <3>2. \A x \in v.delivering \ v.body : v.peer[x] \in v.ask[x]
        BY <1>1, <1>5, <1>9, <1>10 DEF Asking
      <3>3. \A x \in v.delivering : v.peer[x] # r
        BY <1>1, <1>9 DEF Asking
      <3>4. \A o \in v.owed : o.blk \in v.fetching
        BY <1>1, <1>3, <1>9 DEF Asking
      <3> QED BY <3>1, <3>2, <3>3, <3>4 DEF Asking
    <2>6. MidInv(r, v, B, P, {b})
      BY <1>1, <1>4, <1>9, <2>3, <2>4, <2>5 DEF MidInv
    <2> QED BY <2>1, <2>2, <2>6, AsyncDeliverInv
  <1>13. CASE b \in s.fetching /\ b \notin s.delivering \ s.body
    <2>1. OnFetch(s, b) = t
      BY <1>8, <1>13
    <2>2. Stored(t, B)
      BY <1>1, <1>7 DEF Stored, Delivered, Fetched
    <2>3. Waiting(t, {})
      <3>1. /\ t.body \subseteq t.fetched \cap t.delivering
            /\ t.body \cap t.delivered = {} /\ t.qcWait \subseteq t.body
            /\ \A x \in t.body : Parent[x] \in t.delivered \cup t.delivering \cup {genesis} \cup {}
        BY <1>1, <1>3, <1>7 DEF Waiting
      <3>2. ASSUME NEW x \in t.body \ t.qcWait
            PROVE  Fetched(t, Qc[x])
        BY <1>1, <1>3, <1>7 DEF Waiting, Fetched
      <3>3. ASSUME NEW x \in t.qcWait
            PROVE  Qc[x] \in Blk /\ t.peer[x] \in t.ask[Qc[x]]
        BY <1>1, <1>3, <1>5, <1>7 DEF Waiting
      <3> QED BY <3>1, <3>2, <3>3 DEF Waiting
    <2>4. Asking(r, t)
      <3>1. \A x \in Blk : t.ask[x] # {} => x \in t.fetching
        BY <1>1, <1>5, <1>7 DEF Asking
      <3>2. \A x \in t.delivering \ t.body : t.peer[x] \in t.ask[x]
        BY <1>1, <1>5, <1>7, <1>10, <1>13 DEF Asking
      <3>3. \A x \in t.delivering : t.peer[x] # r
        BY <1>1, <1>7 DEF Asking
      <3>4. \A o \in t.owed : o.blk \in t.fetching
        BY <1>1, <1>3, <1>7 DEF Asking
      <3> QED BY <3>1, <3>2, <3>3, <3>4 DEF Asking
    <2> QED BY <1>1, <1>4, <1>6, <1>7, <2>1, <2>2, <2>3, <2>4 DEF MidInv
  <1> QED BY <1>11, <1>12, <1>13
------------------------------------------------------------------------------
(* The end of a handler: what it sends is sent, and blocks stay proposed. *)
LEMMA BecomeInv ==
  ASSUME Inv, NEW r \in Replica, NEW s, NEW taken, Become(r, s, taken),
         proposed \subseteq proposed', proposed' \subseteq Blk,
         MidInv(r, s, bad, proposed', {}), Settled(s)
  PROVE  Inv'
  <1> DEFINE u == [s EXCEPT !.out = {}]
             sent == {[kind |-> o.kind, from |-> r, to |-> o.to, blk |-> o.blk] : o \in s.out}
  <1>1. /\ st' = [st EXCEPT ![r] = u] /\ msgs' = (msgs \ taken) \cup sent
        /\ UNCHANGED << lost, down, bad >>
    BY DEF Become
  <1>2. /\ s \in StateMid(r) /\ s.fetched \subseteq proposed'
        /\ \A o \in s.out : o.kind = "resp" => o.blk \in proposed'
        /\ Stored(s, bad) /\ Waiting(s, {}) /\ Asking(r, s)
    BY DEF MidInv
  <1>3. /\ st \in [Replica -> State] /\ proposed \subseteq Blk /\ msgs \subseteq Msg
        /\ \A m \in msgs : m.kind = "resp" => m.blk \in proposed
        /\ lost \in Nat /\ down \subseteq Replica /\ bad \subseteq MayBeBad
        /\ \A q \in Replica : MidInv(q, st[q], bad, proposed, {}) /\ Settled(st[q])
    BY DEF Inv
  <1>4. u \in StateMid(r) /\ u \in State
    <2>1. s.ask \in [Blk -> SUBSET Replica] /\ s.owed \in SUBSET [to : Replica, blk : Blk]
      BY <1>2 DEF StateMid
    <2>2. u \in StateMid(r)
      BY <1>2 DEF StateMid
    <2>3. u \in State
      BY <1>2, <2>1 DEF StateMid, State
    <2> QED BY <2>2, <2>3
  <1>5. /\ u.fetched = s.fetched /\ u.delivered = s.delivered
        /\ u.fetching = s.fetching /\ u.ask = s.ask /\ u.peer = s.peer
        /\ u.delivering = s.delivering /\ u.body = s.body
        /\ u.verdict = s.verdict /\ u.qcWait = s.qcWait /\ u.owed = s.owed
        /\ u.out = {}
    BY <1>2 DEF StateMid
  <1> HIDE DEF u
  <1>6. MidInv(r, u, bad, proposed', {})
    <2>1. Stored(u, bad)  BY <1>2, <1>5 DEF Stored, Delivered, Fetched
    <2>2. Waiting(u, {})  BY <1>2, <1>5 DEF Waiting, Fetched
    <2>3. Asking(r, u)    BY <1>2, <1>5 DEF Asking
    <2> QED BY <1>2, <1>4, <1>5, <2>1, <2>2, <2>3 DEF MidInv
  <1>7. Settled(u)
    BY <1>5 DEF Settled, Checked
  <1>8. st' \in [Replica -> State]
    BY <1>1, <1>3, <1>4
  <1>9. ASSUME NEW q \in Replica
        PROVE  MidInv(q, st'[q], bad', proposed', {}) /\ Settled(st'[q])
    <2>1. bad' = bad  BY <1>1
    <2>2. CASE q = r
      <3>1. st'[q] = u  BY <1>1, <1>3, <2>2
      <3> QED BY <1>6, <1>7, <2>1, <2>2, <3>1
    <2>3. CASE q # r
      <3>1. st'[q] = st[q]  BY <1>1, <1>3, <2>3
      <3>2. MidInv(q, st[q], bad, proposed, {}) /\ Settled(st[q])  BY <1>3
      <3>3. MidInv(q, st[q], bad, proposed', {})
        BY <3>2 DEF MidInv
      <3> QED BY <2>1, <3>1, <3>2, <3>3
    <2> QED BY <2>2, <2>3
  <1>10. sent \subseteq Msg /\ \A m \in sent : m.kind = "resp" => m.blk \in proposed'
    BY <1>2 DEF StateMid, Out, Msg
  <1> HIDE DEF sent
  <1>11. /\ msgs' \subseteq Msg
         /\ \A m \in msgs' : m.kind = "resp" => m.blk \in proposed'
    BY <1>1, <1>3, <1>10
  <1>12. lost' \in Nat /\ down' \subseteq Replica /\ bad' \subseteq MayBeBad
    BY <1>1, <1>3
  <1>13. Msg' = Msg /\ Blk' = Blk /\ State' = State
    BY DEF Msg, Blk, State
  <1> QED BY <1>8, <1>9, <1>11, <1>12 DEF Inv

(* In the beginning nothing is there and nothing is waited for. *)
LEMMA InitInv == Init => Inv
  <1> SUFFICES ASSUME Init PROVE Inv
    OBVIOUS
  <1> DEFINE z == [fetched |-> {}, delivered |-> {}, fetching |-> {},
                   ask |-> [b \in Blk |-> {}], delivering |-> {}, peer |-> By, body |-> {},
                   verdict |-> [b \in Blk |-> "pending"], qcWait |-> {}, owed |-> {},
                   heard |-> {}, out |-> {}]
  <1>1. st = [r \in Replica |-> z] /\ proposed = {} /\ msgs = {} /\ lost = 0 /\ down = {}
        /\ bad \subseteq MayBeBad
    BY DEF Init
  <1>2. By \in [Blk -> Replica]  BY FetchAssumption
  <1>3. z \in State /\ \A r \in Replica : z \in StateMid(r)
    BY <1>2 DEF State, StateMid
  <1>4. Stored(z, bad) /\ Waiting(z, {}) /\ \A r \in Replica : Asking(r, z)
    BY DEF Stored, Waiting, Asking
  <1>5. \A r \in Replica : MidInv(r, z, bad, proposed, {}) /\ Settled(z)
    BY <1>3, <1>4 DEF MidInv, Settled
  <1> HIDE DEF z
  <1>6. st \in [Replica -> State]
    BY <1>1, <1>3
  <1>7. \A r \in Replica : st[r] = z
    BY <1>1
  <1> QED BY <1>1, <1>5, <1>6, <1>7 DEF Inv

(* A block is stored by its proposer, and by who receives it. *)
LEMMA StoreInv ==
  ASSUME Inv, NEW r \in Replica, NEW b \in Blk, NEW P \in SUBSET Blk,
         proposed \subseteq P, b \in P, NEW s,
         \/ s = [st[r] EXCEPT !.fetched = @ \cup {b}]
         \/ s = [st[r] EXCEPT !.fetched = @ \cup {b}, !.heard = @ \cup {b}]
  PROVE  /\ MidInv(r, s, bad, P, {}) /\ Settled(s) /\ b \in s.fetched
         /\ s.delivered = st[r].delivered
  <1>1. /\ MidInv(r, st[r], bad, proposed, {}) /\ Settled(st[r])
    BY DEF Inv
  <1>2. /\ st[r] \in StateMid(r) /\ st[r].fetched \subseteq proposed
        /\ \A o \in st[r].out : o.kind = "resp" => o.blk \in proposed
        /\ Stored(st[r], bad) /\ Waiting(st[r], {}) /\ Asking(r, st[r])
    BY <1>1 DEF MidInv
  <1>3. s \in StateMid(r)
    <2>1. st[r].fetched \cup {b} \in SUBSET Blk /\ st[r].heard \cup {b} \in SUBSET Blk
      BY <1>2 DEF StateMid
    <2> QED BY <1>2, <2>1, ZenonT(60) DEF StateMid
  <1>4. /\ s.fetched = st[r].fetched \cup {b} /\ s.delivered = st[r].delivered
        /\ s.fetching = st[r].fetching /\ s.ask = st[r].ask /\ s.peer = st[r].peer
        /\ s.delivering = st[r].delivering /\ s.body = st[r].body
        /\ s.verdict = st[r].verdict /\ s.qcWait = st[r].qcWait /\ s.owed = st[r].owed
        /\ s.out = st[r].out
    BY <1>2 DEF StateMid
  <1>5. Stored(s, bad)
    BY <1>2, <1>4 DEF Stored, Delivered, Fetched
  <1>6. Waiting(s, {})
    BY <1>2, <1>4 DEF Waiting, Fetched
  <1>7. Asking(r, s) /\ Settled(s)
    BY <1>1, <1>2, <1>4 DEF Asking, Settled, Checked
  <1>8. MidInv(r, s, bad, P, {})
    BY <1>2, <1>3, <1>4, <1>5, <1>6, <1>7 DEF MidInv
  <1> QED BY <1>4, <1>7, <1>8

(* on_propose *)
LEMMA ProposeInv ==
  ASSUME Inv, NEW b \in Blk, Propose(b)
  PROVE  Inv'
  <1> DEFINE r == By[b]
             s == [st[r] EXCEPT !.fetched = @ \cup {b}]
             u == [s EXCEPT !.delivered = @ \cup {b}]
             P == proposed \cup {b}
  <1>1. /\ b \notin proposed /\ proposed' = P
        /\ \/ Become(r, s, {})
           \/ /\ r \notin Faulty /\ Delivered(s, Parent[b]) /\ Fetched(s, Qc[b])
              /\ Become(r, u, {})
    BY DEF Propose
  <1>2. r \in Replica /\ (b \in MayBeBad => r \in Faulty)
    BY FetchAssumption
  <1>3. /\ proposed \subseteq Blk /\ bad \subseteq MayBeBad
        /\ st[r].fetched \subseteq proposed
    BY <1>2 DEF Inv, MidInv
  <1>4. P \in SUBSET Blk /\ proposed \subseteq P /\ b \in P
    BY <1>3
  <1>5. /\ MidInv(r, s, bad, P, {}) /\ Settled(s) /\ b \in s.fetched
        /\ s.delivered = st[r].delivered
    <2>1. \/ s = [st[r] EXCEPT !.fetched = @ \cup {b}]
          \/ s = [st[r] EXCEPT !.fetched = @ \cup {b}, !.heard = @ \cup {b}]
      OBVIOUS
    <2> HIDE DEF r, s, P
    <2> QED BY <1>2, <1>4, <2>1, StoreInv, ZenonT(60)
  <1>6. CASE Become(r, s, {})
    <2> HIDE DEF r, s
    <2> QED BY <1>1, <1>2, <1>4, <1>5, <1>6, BecomeInv
  <1>7. CASE /\ r \notin Faulty /\ Delivered(s, Parent[b]) /\ Fetched(s, Qc[b])
             /\ Become(r, u, {})
    <2>1. b \notin s.body
      <3>1. st[r] \in State /\ st[r].body \subseteq st[r].fetched
        BY <1>2 DEF Inv, MidInv, Waiting
      <3>2. s.body = st[r].body
        BY <3>1 DEF State
      <3> QED BY <1>1, <1>3, <3>1, <3>2
    <2> HIDE DEF s
    <2>2. /\ s \in StateMid(r) /\ s.fetched \subseteq P
          /\ \A o \in s.out : o.kind = "resp" => o.blk \in P
          /\ Stored(s, bad) /\ Waiting(s, {}) /\ Asking(r, s)
      BY <1>5 DEF MidInv
    <2>3. u \in StateMid(r)
      <3>1. s.delivered \cup {b} \in SUBSET Blk  BY <2>2 DEF StateMid
      <3> QED BY <2>2, <3>1 DEF StateMid
    <2>4. /\ u.fetched = s.fetched /\ u.delivered = s.delivered \cup {b}
          /\ u.fetching = s.fetching /\ u.ask = s.ask /\ u.peer = s.peer
          /\ u.delivering = s.delivering /\ u.body = s.body
          /\ u.verdict = s.verdict /\ u.qcWait = s.qcWait /\ u.owed = s.owed
          /\ u.out = s.out
      BY <2>2 DEF StateMid
    <2> HIDE DEF u
    <2>5. Stored(u, bad)
      <3>1. b \notin bad  BY <1>2, <1>3, <1>7
      <3> QED BY <1>5, <1>7, <2>2, <2>4, <3>1 DEF Stored, Delivered, Fetched
    <2>6. Waiting(u, {})
      BY <2>1, <2>2, <2>4 DEF Waiting, Fetched
    <2>7. Asking(r, u) /\ Settled(u)
      BY <1>5, <2>2, <2>4 DEF Asking, Settled, Checked
    <2>8. MidInv(r, u, bad, P, {})
      BY <2>2, <2>3, <2>4, <2>5, <2>6, <2>7 DEF MidInv
    <2> HIDE DEF r
    <2> QED BY <1>1, <1>2, <1>4, <1>7, <2>7, <2>8, BecomeInv
  <1> QED BY <1>1, <1>6, <1>7

(* propose_handler *)
LEMMA ReceiveProposalInv ==
  ASSUME Inv, NEW r \in Replica, NEW b \in Blk, ReceiveProposal(r, b)
  PROVE  Inv'
  <1> DEFINE s == [st[r] EXCEPT !.fetched = @ \cup {b}, !.heard = @ \cup {b}]
             p == By[b]
             u == AsyncDeliver(s, b, p)
  <1>1. /\ b \in proposed /\ p # r /\ proposed' = proposed
        /\ Become(r, Deliver(u), {})
    BY DEF ReceiveProposal
  <1>2. p \in Replica \ {r} /\ proposed \in SUBSET Blk /\ bad \in SUBSET MayBeBad
    BY <1>1, FetchAssumption DEF Inv
  <1>3. MidInv(r, s, bad, proposed, {})
    <2>1. s = [st[r] EXCEPT !.fetched = @ \cup {b}, !.heard = @ \cup {b}]
      OBVIOUS
    <2> HIDE DEF s
    <2> QED BY <1>1, <1>2, <2>1, StoreInv
  <1>4. MidInv(r, s, bad, proposed, {b})
    BY <1>3 DEF MidInv, Waiting
  <1> HIDE DEF s, p
  <1>5. MidInv(r, u, bad, proposed, {})
    BY <1>2, <1>4, AsyncDeliverInv
  <1> HIDE DEF u
  <1>6. MidInv(r, Deliver(u), bad, proposed, {}) /\ Settled(Deliver(u))
    BY <1>5, DeliverInv
  <1> QED BY <1>1, <1>2, <1>6, BecomeInv

(* req_blk_handler *)
LEMMA ReceiveRequestInv ==
  ASSUME Inv, NEW m, ReceiveRequest(m)
  PROVE  Inv'
  <1> DEFINE r == m.to
             s == st[r]
             u == [s EXCEPT !.out = {[kind |-> "resp", to |-> m.from, blk |-> m.blk]}]
             v == [s EXCEPT !.fetching = @ \cup {m.blk},
                            !.owed = @ \cup {[to |-> m.from, blk |-> m.blk]}]
  <1>1. /\ m \in msgs /\ proposed' = proposed
        /\ Become(r, IF Fetched(s, m.blk) THEN u ELSE v, {m})
    BY DEF ReceiveRequest
  <1>2. r \in Replica /\ m.from \in Replica \ {r} /\ m.blk \in Blk /\ m.blk # genesis
    BY <1>1, Before DEF Inv, Msg
  <1>3. /\ s \in StateMid(r) /\ s.fetched \subseteq proposed /\ proposed \subseteq Blk
        /\ \A o \in s.out : o.kind = "resp" => o.blk \in proposed
        /\ Stored(s, bad) /\ Waiting(s, {}) /\ Asking(r, s) /\ Settled(s)
    BY <1>2 DEF Inv, MidInv
  <1> HIDE DEF s
  <1>4. CASE Fetched(s, m.blk)
    <2> DEFINE O == {[kind |-> "resp", to |-> m.from, blk |-> m.blk]}
    <2>1. O \in SUBSET Out(r) /\ \A o \in O : o.blk = m.blk
      BY <1>2 DEF Out
    <2>2. u = [s EXCEPT !.out = O]
      OBVIOUS
    <2> HIDE DEF u, O
    <2>3. u \in StateMid(r)
      BY <1>3, <2>1, <2>2 DEF StateMid
    <2>4. /\ u.fetched = s.fetched /\ u.delivered = s.delivered
          /\ u.fetching = s.fetching /\ u.ask = s.ask /\ u.peer = s.peer
          /\ u.delivering = s.delivering /\ u.body = s.body
          /\ u.verdict = s.verdict /\ u.qcWait = s.qcWait /\ u.owed = s.owed
          /\ u.out = O
      BY <1>3, <2>2 DEF StateMid
    <2>5. Stored(u, bad) /\ Waiting(u, {})
      BY <1>3, <2>4 DEF Stored, Waiting, Delivered, Fetched
    <2>6. Asking(r, u) /\ Settled(u)
      BY <1>3, <2>4 DEF Asking, Settled, Checked
    <2>7. m.blk \in proposed
      BY <1>2, <1>3, <1>4 DEF Fetched
    <2>8. MidInv(r, u, bad, proposed, {})
      BY <1>3, <2>1, <2>3, <2>4, <2>5, <2>6, <2>7 DEF MidInv
    <2>9. Become(r, u, {m})
      BY <1>1, <1>4
    <2> HIDE DEF r
    <2> QED BY <1>1, <1>2, <1>3, <2>6, <2>8, <2>9, BecomeInv
  <1>5. CASE ~Fetched(s, m.blk)
    <2> DEFINE o1 == [to |-> m.from, blk |-> m.blk]
    <2>1. /\ s.fetching \cup {m.blk} \in SUBSET Blk
          /\ s.owed \cup {o1} \in SUBSET [to : Replica \ {r}, blk : Blk]
          /\ o1.blk = m.blk
      BY <1>2, <1>3 DEF StateMid
    <2>2. v = [s EXCEPT !.fetching = @ \cup {m.blk}, !.owed = @ \cup {o1}]
      OBVIOUS
    <2> HIDE DEF v, o1
    <2>3. v \in StateMid(r)
      BY <1>3, <2>1, <2>2 DEF StateMid
    <2>4. /\ v.fetched = s.fetched /\ v.delivered = s.delivered
          /\ v.fetching = s.fetching \cup {m.blk} /\ v.ask = s.ask /\ v.peer = s.peer
          /\ v.delivering = s.delivering /\ v.body = s.body
          /\ v.verdict = s.verdict /\ v.qcWait = s.qcWait
          /\ v.owed = s.owed \cup {o1} /\ v.out = s.out
      BY <1>3, <2>2 DEF StateMid
    <2>5. Stored(v, bad) /\ Waiting(v, {})
      BY <1>3, <2>4 DEF Stored, Waiting, Delivered, Fetched
    <2>6. Asking(r, v) /\ Settled(v)
      BY <1>3, <2>1, <2>4 DEF Asking, Settled, Checked
    <2>7. MidInv(r, v, bad, proposed, {})
      BY <1>3, <2>3, <2>4, <2>5, <2>6 DEF MidInv
    <2>8. Become(r, v, {m})
      BY <1>1, <1>5
    <2> HIDE DEF r
    <2> QED BY <1>1, <1>2, <1>3, <2>6, <2>7, <2>8, BecomeInv
  <1> QED BY <1>4, <1>5

(* resp_blk_handler *)
LEMMA ReceiveResponseInv ==
  ASSUME Inv, NEW m, ReceiveResponse(m)
  PROVE  Inv'
  <1> DEFINE r == m.to
             b == m.blk
             s == [st[r] EXCEPT !.fetched = @ \cup {b}]
             u == OnFetch(s, b)
  <1>1. /\ m \in msgs /\ m.kind = "resp" /\ proposed' = proposed
        /\ Become(r, Deliver(u), {m})
    BY DEF ReceiveResponse
  <1>2. /\ r \in Replica /\ b \in Blk /\ b \in proposed
        /\ proposed \in SUBSET Blk /\ bad \in SUBSET MayBeBad
    BY <1>1 DEF Inv, Msg
  <1> HIDE DEF r, b
  <1>3. MidInv(r, s, bad, proposed, {}) /\ b \in s.fetched
    <2>1. \/ s = [st[r] EXCEPT !.fetched = @ \cup {b}]
          \/ s = [st[r] EXCEPT !.fetched = @ \cup {b}, !.heard = @ \cup {b}]
      OBVIOUS
    <2> HIDE DEF s
    <2> QED BY <1>2, <2>1, StoreInv
  <1> HIDE DEF s
  <1>4. MidInv(r, u, bad, proposed, {})
    BY <1>2, <1>3, OnFetchInv
  <1> HIDE DEF u
  <1>5. MidInv(r, Deliver(u), bad, proposed, {}) /\ Settled(Deliver(u))
    BY <1>2, <1>4, DeliverInv
  <1> QED BY <1>1, <1>2, <1>5, BecomeInv

(* A certificate was checked. *)
LEMMA VerifiedInv ==
  ASSUME Inv, NEW r \in Replica, NEW b \in Blk, Verified(r, b)
  PROVE  Inv'
  <1> DEFINE s == st[r]
             v == IF b \in bad THEN "bad" ELSE "good"
             u == [s EXCEPT !.verdict[b] = v]
  <1>1. proposed' = proposed /\ Become(r, Deliver(u), {})
    BY DEF Verified
  <1>2. /\ s \in StateMid(r) /\ s.fetched \subseteq proposed /\ proposed \subseteq Blk
        /\ \A o \in s.out : o.kind = "resp" => o.blk \in proposed
        /\ Stored(s, bad) /\ Waiting(s, {}) /\ Asking(r, s)
    BY DEF Inv, MidInv
  <1> HIDE DEF s
  <1>3. v \in {"pending", "good", "bad"} /\ (v = "good" => b \notin bad)
    OBVIOUS
  <1> HIDE DEF v
  <1>4. /\ u \in StateMid(r)
        /\ u.verdict = [s.verdict EXCEPT ![b] = v]
        /\ u.fetched = s.fetched /\ u.delivered = s.delivered
        /\ u.fetching = s.fetching /\ u.ask = s.ask /\ u.peer = s.peer
        /\ u.delivering = s.delivering /\ u.body = s.body
        /\ u.qcWait = s.qcWait /\ u.owed = s.owed /\ u.out = s.out
    BY <1>2, <1>3 DEF StateMid
  <1> HIDE DEF u
  <1>5. Stored(u, bad)
    <2>1. s.verdict \in [Blk -> {"pending", "good", "bad"}]
      BY <1>2 DEF StateMid
    <2>2. \A x \in Blk : u.verdict[x] = "good" => x \notin bad
      BY <1>2, <1>3, <1>4, <2>1 DEF Stored
    <2> QED BY <1>2, <1>4, <2>2 DEF Stored, Delivered, Fetched
  <1>6. Waiting(u, {}) /\ Asking(r, u)
    BY <1>2, <1>4 DEF Waiting, Asking, Fetched
  <1>7. MidInv(r, u, bad, proposed, {})
    BY <1>2, <1>4, <1>5, <1>6 DEF MidInv
  <1>8. MidInv(r, Deliver(u), bad, proposed, {}) /\ Settled(Deliver(u))
    BY <1>7, DeliverInv
  <1> QED BY <1>1, <1>2, <1>8, BecomeInv

(* timeout_cb *)
LEMMA TimeoutInv ==
  ASSUME Inv, NEW r \in Replica, NEW b \in Blk, Timeout(r, b)
  PROVE  Inv'
  <1> DEFINE s == st[r]
             O == {[kind |-> "req", to |-> p, blk |-> b] : p \in s.ask[b]}
             u == [s EXCEPT !.out = O]
  <1>1. proposed' = proposed /\ Become(r, u, {})
    BY DEF Timeout
  <1>2. /\ s \in StateMid(r) /\ s.fetched \subseteq proposed /\ proposed \subseteq Blk
        /\ Stored(s, bad) /\ Waiting(s, {}) /\ Asking(r, s) /\ Settled(s)
    BY DEF Inv, MidInv
  <1> HIDE DEF s
  <1>3. O \in SUBSET Out(r) /\ \A o \in O : o.kind = "req"
    <2>1. s.ask[b] \subseteq Replica \ {r}  BY <1>2 DEF StateMid
    <2> QED BY <2>1 DEF Out
  <1> HIDE DEF O
  <1>4. /\ u \in StateMid(r)
        /\ u.fetched = s.fetched /\ u.delivered = s.delivered
        /\ u.fetching = s.fetching /\ u.ask = s.ask /\ u.peer = s.peer
        /\ u.delivering = s.delivering /\ u.body = s.body /\ u.verdict = s.verdict
        /\ u.qcWait = s.qcWait /\ u.owed = s.owed /\ u.out = O
    BY <1>2, <1>3 DEF StateMid
  <1> HIDE DEF u
  <1>5. Stored(u, bad) /\ Waiting(u, {})
    BY <1>2, <1>4 DEF Stored, Waiting, Delivered, Fetched
  <1>6. Asking(r, u) /\ Settled(u)
    BY <1>2, <1>4 DEF Asking, Settled, Checked
  <1>7. \A o \in u.out : o.kind = "resp" => o.blk \in proposed
    BY <1>3, <1>4
  <1>8. MidInv(r, u, bad, proposed, {})
    BY <1>2, <1>4, <1>5, <1>6, <1>7 DEF MidInv
  <1> QED BY <1>1, <1>2, <1>6, <1>8, BecomeInv

(* Steps that leave the replicas that are up alone. *)
LEMMA QuietInv ==
  ASSUME Inv, UNCHANGED << st, proposed, bad >>,
         msgs' \subseteq msgs, lost' \in Nat, down' \subseteq Replica
  PROVE  Inv'
  <1>1. Msg' = Msg /\ Blk' = Blk /\ State' = State
    BY DEF Msg, Blk, State
  <1> QED BY <1>1 DEF Inv

(* Every step keeps the invariant. *)
THEOREM NextInv == Inv /\ [Next]_vars => Inv'
  <1> SUFFICES ASSUME Inv, [Next]_vars PROVE Inv'
    OBVIOUS
  <1>1. lost \in Nat /\ down \subseteq Replica
    BY DEF Inv
  <1>2. ASSUME NEW b \in Blk, Propose(b) PROVE Inv'
    BY <1>2, ProposeInv
  <1>3. ASSUME NEW r \in Replica, NEW b \in Blk, ReceiveProposal(r, b) PROVE Inv'
    BY <1>3, ReceiveProposalInv
  <1>4. ASSUME NEW r \in Replica, NEW b \in Blk, Verified(r, b) PROVE Inv'
    BY <1>4, VerifiedInv
  <1>5. ASSUME NEW r \in Replica, NEW b \in Blk, Timeout(r, b) PROVE Inv'
    BY <1>5, TimeoutInv
  <1>6. ASSUME NEW m \in msgs, ReceiveRequest(m) PROVE Inv'
    BY <1>6, ReceiveRequestInv
  <1>7. ASSUME NEW m \in msgs, ReceiveResponse(m) PROVE Inv'
    BY <1>7, ReceiveResponseInv
  <1>8. ASSUME NEW m \in msgs, Lose(m) PROVE Inv'
    <2>1. lost' \in Nat  BY <1>1, <1>8 DEF Lose
    <2> QED BY <1>1, <1>8, <2>1, QuietInv DEF Lose
  <1>9. ASSUME NEW r \in Replica, Crash(r) PROVE Inv'
    BY <1>1, <1>9, QuietInv DEF Crash
  <1>10. CASE UNCHANGED vars
    BY <1>1, <1>10, QuietInv DEF vars
  <1> QED
    BY <1>2, <1>3, <1>4, <1>5, <1>6, <1>7, <1>8, <1>9, <1>10 DEF Next

(* The inductive invariant holds in every reachable state. *)
THEOREM InvHolds == Spec => []Inv
  BY InitInv, NextInv, PTL DEF Spec

(* Types: the contexts, continuations and messages of hotstuff.cpp stay    *)
(* within the blocks and replicas there are, and no replica asks itself.   *)
THEOREM TypeCorrect == Spec => []TypeOK
  <1>1. Inv => TypeOK
    BY DEF Inv, TypeOK
  <1> QED BY <1>1, InvHolds, PTL

(* However proposals, answers, verifications and timers follow each other, *)
(* on_deliver_blk is only reached by a block whose parent is delivered,    *)
(* whose certificate was checked and holds, and whose certificate's block  *)
(* is there: what it asserts and throws about never fails.                 *)
THEOREM DeliveriesAreComplete == Spec => []DeliveredComplete
  <1>1. Inv => DeliveredComplete
    BY DEF Inv, MidInv, Stored, DeliveredComplete
  <1> QED BY <1>1, InvHolds, PTL

(* No continuation of async_deliver_blk or async_fetch_blk is forgotten:   *)
(* each has a fetch context, a verification or another delivery that will  *)
(* resolve it.                                                             *)
THEOREM NoWaitIsForgotten == Spec => []WaitsHaveCause
  <1>1. ASSUME Inv, NEW r \in Replica
        PROVE  LET s == st[r] IN
                 /\ \A b \in s.delivering \ s.body : b \in s.fetching /\ s.peer[b] \in s.ask[b]
                 /\ \A b \in s.delivering \cap s.body :
                      \/ s.verdict[b] \in {"pending", "bad"}
                      \/ b \in s.qcWait /\ s.peer[b] \in s.ask[Qc[b]]
                      \/ Parent[b] \in s.delivering
                 /\ \A o \in s.owed : o.blk \in s.fetching
    <2> DEFINE s == st[r]
    <2>1. s \in StateMid(r) /\ Waiting(s, {}) /\ Asking(r, s) /\ Settled(s)
      BY <1>1 DEF Inv, MidInv
    <2> HIDE DEF s
    <2>2. s.delivering \subseteq Blk /\ s.verdict \in [Blk -> {"pending", "good", "bad"}]
      BY <2>1 DEF StateMid
    <2>3. ASSUME NEW b \in s.delivering \ s.body
          PROVE  b \in s.fetching /\ s.peer[b] \in s.ask[b]
      <3>1. b \in Blk /\ s.peer[b] \in s.ask[b]  BY <2>1, <2>2 DEF Asking
      <3> QED BY <2>1, <3>1 DEF Asking
    <2>4. ASSUME NEW b \in s.delivering \cap s.body
          PROVE  \/ s.verdict[b] \in {"pending", "bad"}
                 \/ b \in s.qcWait /\ s.peer[b] \in s.ask[Qc[b]]
                 \/ Parent[b] \in s.delivering
      <3>1. CASE b \in s.qcWait
        BY <2>1, <3>1 DEF Waiting
      <3>2. CASE b \notin s.qcWait /\ s.verdict[b] = "good"
        BY <2>1, <3>2 DEF Settled, Checked
      <3> QED BY <2>2, <3>1, <3>2
    <2>5. \A o \in s.owed : o.blk \in s.fetching
      BY <2>1 DEF Asking
    <2> QED BY <2>3, <2>4, <2>5 DEF s
  <1>2. Inv => WaitsHaveCause
    BY <1>1 DEF WaitsHaveCause
  <1> QED BY <1>2, InvHolds, PTL
==============================================================================
