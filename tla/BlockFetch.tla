----------------------------- MODULE BlockFetch ------------------------------
(***************************************************************************)
(* How replicas get and deliver the blocks of the proposals they receive   *)
(* (hotstuff.cpp, hotstuff.h): a block is delivered once it is fetched,    *)
(* its certificate is verified, the block of the certificate is fetched    *)
(* and its parent is delivered.  Missing blocks are asked from the replica *)
(* whose proposal needed them, again and again on a timer.                 *)
(*                                                                         *)
(* Proposals and messages are handled late, in any order or never, and     *)
(* replicas may crash.  Promises are resolved within the handler that      *)
(* completes them, so a handler's effect is an operator from the state of  *)
(* a replica to the next one.                                              *)
(***************************************************************************)
EXTENDS Naturals, FiniteSets

CONSTANTS Replica,
          NBlk,         \* the number of blocks that may be proposed
          Parent, Qc,   \* Parent[b], Qc[b]: its parent, and the block of its certificate
          By,           \* By[b]: its proposer
          Faulty,       \* replicas that propose without having the prefix
          MayBeBad,     \* blocks of theirs whose certificate may not verify
          MaxLost,      \* bound: number of messages lost
          MaxCrash      \* bound: number of replicas that crash

VARIABLES st,           \* st[r]: the state of replica r, a record
          proposed,     \* the blocks that were broadcast
          msgs,         \* MsgReqBlock and MsgRespBlock under way
          lost,         \* how many were lost
          down,         \* the replicas that have crashed
          bad           \* the blocks with a certificate that does not verify

vars == << st, proposed, msgs, lost, down, bad >>

Blk == 1 .. NBlk        \* numbered so that parents come first
genesis == 0

ASSUME FetchAssumption ==
  /\ NBlk \in Nat
  /\ \A b \in Blk : Parent[b] \in 0 .. b - 1 /\ Qc[b] \in 0 .. b - 1
  /\ By \in [Blk -> Replica]
  /\ MayBeBad \subseteq {b \in Blk : Qc[b] # genesis /\ By[b] \in Faulty}
  /\ MaxLost \in Nat /\ MaxCrash \in Nat

Fetched(s, b) == b = genesis \/ b \in s.fetched
Delivered(s, b) == b = genesis \/ b \in s.delivered

(* The blocks from b down to genesis: b, its parent, and so on. *)
Chain == [b \in Blk |->
            {x \in Blk : \A S \in SUBSET Blk :
               b \in S /\ (\A y \in S : Parent[y] \in S \cup {genesis}) => x \in S}]
------------------------------------------------------------------------------
(* async_fetch_blk with replica p for each block of W: p joins the context *)
(* of a missing block and is asked at once when it is the first there.     *)
AsyncFetch(s, W, p) ==
  LET missing == {x \in W : ~Fetched(s, x)}
  IN  [s EXCEPT
         !.fetching = @ \cup missing,
         !.ask = [x \in Blk |-> @[x] \cup (IF x \in missing THEN {p} ELSE {})],
         !.out = @ \cup {[kind |-> "req", to |-> p, blk |-> x] :
                           x \in {y \in missing : s.ask[y] = {}}}]

(* The deliveries that async_deliver_blk(b) starts: a block that is there  *)
(* requests its parent, and one that waits already is left alone.          *)
Started(s, b) ==
  LET done == s.delivered \cup s.delivering
  IN  {x \in Chain[b] \ done : Chain[b] \ Chain[x] \subseteq s.fetched \ done}

(* async_deliver_blk(b, p).  The continuation of a block that is there     *)
(* verifies its certificate, which for genesis is good without being       *)
(* looked at, and fetches the block of the certificate.                    *)
AsyncDeliver(s, b, p) ==
  LET new == Started(s, b)
      here == new \cap s.fetched
      Verify(x) == IF Qc[x] = genesis THEN "good" ELSE "pending"
      t == [s EXCEPT
              !.delivering = @ \cup new,
              !.peer = [x \in Blk |-> IF x \in new THEN p ELSE @[x]],
              !.body = @ \cup here,
              !.verdict = [x \in Blk |-> IF x \in here THEN Verify(x) ELSE @[x]],
              !.qcWait = @ \cup {x \in here : ~Fetched(s, Qc[x])}]
  IN  AsyncFetch(t, (new \ here) \cup {Qc[x] : x \in here}, p)

(* promise::all of the continuation of b, with a certificate that is good, *)
(* but for the parent.                                                     *)
Checked(s, b) == b \in s.body \ s.qcWait /\ s.verdict[b] = "good"

(* Wrong on purpose: the parent is not waited for. *)
DeliverableNoParent(s) == {b \in Blk : Checked(s, b)}

(* The blocks that are delivered now, each letting the next one follow. *)
Deliverable(s) ==
  {b \in Blk \ s.delivered : \A x \in Chain[b] \ s.delivered : Checked(s, x)}

(* on_deliver_blk for those *)
Deliver(s) ==
  LET now == Deliverable(s)
  IN  [s EXCEPT !.delivered = @ \cup now, !.delivering = @ \ now, !.body = @ \ now]

(* Wrong on purpose: waiters for the block of a certificate are forgotten. *)
OnFetchNoQc(s, b) ==
  LET t == [s EXCEPT !.fetching = @ \ {b}, !.ask[b] = {}]
  IN  IF b \in s.fetching /\ b \in s.delivering \ s.body
      THEN AsyncDeliver([t EXCEPT !.delivering = @ \ {b}], b, s.peer[b])
      ELSE t

(* on_fetch_blk: the fetch context is resolved and erased, so that the     *)
(* delivery of b goes on with the replica it was started with, the blocks  *)
(* with a certificate for b have it, and the requests of others that wait  *)
(* for b are answered.                                                     *)
OnFetch(s, b) ==
  LET t == [s EXCEPT
              !.fetching = @ \ {b},
              !.ask[b] = {},
              !.qcWait = {x \in @ : Qc[x] # b},
              !.owed = {o \in @ : o.blk # b},
              !.out = @ \cup {[kind |-> "resp", to |-> o.to, blk |-> b] :
                                o \in {w \in s.owed : w.blk = b}}]
  IN  CASE b \notin s.fetching -> s
        [] b \in s.fetching /\ b \in s.delivering \ s.body ->
             AsyncDeliver([t EXCEPT !.delivering = @ \ {b}], b, s.peer[b])
        [] OTHER -> t
------------------------------------------------------------------------------
Init ==
  /\ st = [r \in Replica |->
            [fetched |-> {},        \* EntityStorage::blk_cache
             delivered |-> {},      \* those of them with Block::delivered
             fetching |-> {},       \* the keys of blk_fetch_waiting
             ask |-> [b \in Blk |-> {}],    \* FetchContext::replicas
             delivering |-> {},     \* blk_delivery_waiting
             peer |-> By,           \* whom the delivery of a block would ask
             body |-> {},           \* the blocks whose promise::all is waited for
             verdict |-> [b \in Blk |-> "pending"],     \* of Block::verify
             qcWait |-> {},         \* those that wait for the block of their qc
             owed |-> {},           \* requests that wait in req_blk_handler
             heard |-> {},          \* the proposals that have arrived
             out |-> {}]]           \* what a handler sends; empty between handlers
  /\ proposed = {}
  /\ msgs = {}
  /\ lost = 0
  /\ down = {}
  /\ bad \in SUBSET MayBeBad

(* A handler of replica r ends in the state s, having taken messages. *)
Become(r, s, taken) ==
  /\ r \notin down
  /\ st' = [st EXCEPT ![r] = [s EXCEPT !.out = {}]]
  /\ msgs' = (msgs \ taken) \cup
       {[kind |-> o.kind, from |-> r, to |-> o.to, blk |-> o.blk] : o \in s.out}
  /\ UNCHANGED << lost, down, bad >>

(* on_propose, by which the proposer has delivered its own block.  A       *)
(* faulty proposer just broadcasts one.                                    *)
Propose(b) ==
  LET s == [st[By[b]] EXCEPT !.fetched = @ \cup {b}] IN
  /\ b \notin proposed
  /\ proposed' = proposed \cup {b}
  /\ \/ /\ By[b] \in Faulty
        /\ Become(By[b], s, {})
     \/ /\ By[b] \notin Faulty
        /\ Delivered(s, Parent[b]) /\ Fetched(s, Qc[b])
        /\ Become(By[b], [s EXCEPT !.delivered = @ \cup {b}], {})

(* propose_handler: parsing the message stores the block, and its delivery *)
(* is requested from the proposer.                                         *)
ReceiveProposal(r, b) ==
  LET s == [st[r] EXCEPT !.fetched = @ \cup {b}, !.heard = @ \cup {b}] IN
  /\ b \in proposed \ st[r].heard
  /\ By[b] # r
  /\ Become(r, Deliver(AsyncDeliver(s, b, By[b])), {})
  /\ UNCHANGED proposed

(* req_blk_handler: without the block, the answer waits in a fetch context *)
(* that asks nobody.                                                       *)
ReceiveRequest(m) ==
  LET s == st[m.to] IN
  /\ m \in msgs /\ m.kind = "req"
  /\ Become(m.to,
            IF Fetched(s, m.blk)
            THEN [s EXCEPT !.out = {[kind |-> "resp", to |-> m.from, blk |-> m.blk]}]
            ELSE [s EXCEPT !.fetching = @ \cup {m.blk},
                           !.owed = @ \cup {[to |-> m.from, blk |-> m.blk]}],
            {m})
  /\ UNCHANGED proposed

(* resp_blk_handler *)
ReceiveResponse(m) ==
  LET s == [st[m.to] EXCEPT !.fetched = @ \cup {m.blk}] IN
  /\ m \in msgs /\ m.kind = "resp"
  /\ Become(m.to, Deliver(OnFetch(s, m.blk)), {m})
  /\ UNCHANGED proposed

(* The worker threads have checked the certificate of b. *)
Verified(r, b) ==
  LET s == [st[r] EXCEPT !.verdict[b] = IF b \in bad THEN "bad" ELSE "good"] IN
  /\ b \in st[r].body
  /\ st[r].verdict[b] = "pending"
  /\ Become(r, Deliver(s), {})
  /\ UNCHANGED proposed

(* Wrong on purpose: the timer is not set again. *)
TimeoutSilent(r, b) == UNCHANGED vars

(* Wrong on purpose: the timer asks every replica, this one too. *)
TimeoutToAll(r, b) ==
  LET s == st[r] IN
  /\ b \in s.fetching
  /\ Become(r, [s EXCEPT !.out = {[kind |-> "req", to |-> p, blk |-> b] : p \in Replica}], {})
  /\ UNCHANGED proposed

(* timeout_cb: ask all replicas of the fetch context again. *)
Timeout(r, b) ==
  LET s == st[r] IN
  /\ b \in s.fetching
  /\ Become(r, [s EXCEPT !.out = {[kind |-> "req", to |-> p, blk |-> b] : p \in s.ask[b]}], {})
  /\ UNCHANGED proposed

(* A message is lost with its connection. *)
Lose(m) ==
  /\ m \in msgs
  /\ lost < MaxLost
  /\ lost' = lost + 1
  /\ msgs' = msgs \ {m}
  /\ UNCHANGED << st, proposed, down, bad >>

Crash(r) ==
  /\ r \notin down
  /\ Cardinality(down) < MaxCrash
  /\ down' = down \cup {r}
  /\ UNCHANGED << st, proposed, msgs, lost, bad >>

Msg == {m \in [kind : {"req", "resp"}, from : Replica, to : Replica, blk : Blk] :
          m.from # m.to}

Next == \/ \E b \in Blk : Propose(b)
        \/ \E r \in Replica, b \in Blk :
             ReceiveProposal(r, b) \/ Verified(r, b) \/ Timeout(r, b)
        \/ \E m \in msgs : ReceiveRequest(m) \/ ReceiveResponse(m) \/ Lose(m)
        \/ \E r \in Replica : Crash(r)

(* A message that is not lost is handled by a replica that is up: weak      *)
(* fairness of ReceiveRequest(m) or ReceiveResponse(m), with the condition *)
(* under which they can take a step in place of ENABLED.                   *)
Handled(m) == []<>(m \notin msgs \/ m.to \in down)

(* Timers fire as well, and the worker threads return their results.       *)
(* Proposals need not arrive.                                              *)
Fairness ==
  /\ \A m \in Msg : Handled(m)
  /\ \A r \in Replica, b \in Blk : WF_vars(Verified(r, b)) /\ WF_vars(Timeout(r, b))

Spec == Init /\ [][Next]_vars /\ Fairness
------------------------------------------------------------------------------
State == [fetched : SUBSET Blk, delivered : SUBSET Blk,
          fetching : SUBSET Blk, ask : [Blk -> SUBSET Replica],
          delivering : SUBSET Blk, peer : [Blk -> Replica], body : SUBSET Blk,
          verdict : [Blk -> {"pending", "good", "bad"}],
          qcWait : SUBSET Blk, owed : SUBSET [to : Replica, blk : Blk],
          heard : SUBSET Blk, out : {{}}]

(* Types of the state. *)
TypeOK == /\ st \in [Replica -> State]
          /\ proposed \subseteq Blk
          /\ msgs \subseteq Msg
          /\ lost \in Nat
          /\ down \subseteq Replica
          /\ bad \subseteq MayBeBad

(* What on_deliver_blk asserts and throws: when a block is delivered, its  *)
(* parent is, the block of its certificate is there and the certificate    *)
(* was verified, whatever order these became so in.                        *)
DeliveredComplete ==
  \A r \in Replica : \A b \in st[r].delivered :
    /\ b \in st[r].fetched \ bad
    /\ Delivered(st[r], Parent[b])
    /\ Fetched(st[r], Qc[b])

(* No delivery waits for nothing: its block is being asked from the        *)
(* replica that it names, or its certificate is being verified (or is      *)
(* bad), or it waits for a block that is being asked or delivered itself.  *)
WaitsHaveCause ==
  \A r \in Replica : LET s == st[r] IN
    /\ \A b \in s.delivering \ s.body : b \in s.fetching /\ s.peer[b] \in s.ask[b]
    /\ \A b \in s.delivering \cap s.body :
         \/ s.verdict[b] \in {"pending", "bad"}
         \/ b \in s.qcWait /\ s.peer[b] \in s.ask[Qc[b]]
         \/ Parent[b] \in s.delivering
    /\ \A o \in s.owed : o.blk \in s.fetching

(* A proposal that has arrived is delivered in the end, so that            *)
(* on_receive_proposal handles it, unless a block on its chain is bad, or  *)
(* a block it needs, on the chain or for a certificate on the chain, is    *)
(* asked only from replicas that are down or do not have it.               *)
Unanswered(r, b) ==
  /\ st[r].ask[b] # {}
  /\ \A p \in st[r].ask[b] : p \in down \/ b \notin st[p].fetched
HeardAreDelivered ==
  []<>\A r \in Replica \ down : \A b \in st[r].heard \ st[r].delivered :
         \/ Chain[b] \cap bad # {}
         \/ \E x \in Chain[b] : \E y \in {x, Qc[x]} \cap Blk : Unanswered(r, y)
==============================================================================
