------------------------------ MODULE BlockTree ------------------------------
(***************************************************************************)
(* The blocks of HotStuff and the walks over them (entity.h, liveness.h).  *)
(*                                                                         *)
(* A Block names its parent by hash and carries a certificate (qc) for a   *)
(* block.  Hashes do not collide, so a block IS its chain: the sequence of *)
(* the entries from the first block above genesis up to the block itself,  *)
(* an entry holding what the block carries (payload: cmds, extra and the   *)
(* encoding of the certificate) and the block its certificate is for.      *)
(*                                                                         *)
(* A correct proposer puts in the certificate of an ancestor, but nobody   *)
(* checks that: on_deliver_blk makes qc_ref whatever block the certificate *)
(* names, which may be on another branch.                                  *)
(***************************************************************************)
EXTENDS Integers, Sequences

CONSTANTS Payload,
          Block      \* bound: the blocks that may be proposed

Entry == [payload : Payload, qc : Block]

(* b0: the block of height 0, certified by definition. *)
genesis == << >>

Height(b) == Len(b)

(* The ancestor of b at height h, reached by following parents[0]. *)
Anc(b, h) == SubSeq(b, 1, h)

Parent(b) == Anc(b, Len(b) - 1)

(* Block::qc_ref; on_init makes genesis refer to itself. *)
QcRef(b) == IF b = genesis THEN genesis ELSE b[Len(b)].qc

(* check_ancestry(a, b): walk down from b while higher than a, then compare. *)
Extends(b, a) == Len(a) <= Len(b) /\ Anc(b, Len(a)) = a

(* With a block come its ancestors and those its certificates are for. *)
ASSUME BlockAssumption ==
  /\ genesis \in Block
  /\ \A b \in Block : b \in Seq(Entry) /\ \A h \in 0 .. Len(b) : Anc(b, h) \in Block

(* The block of on_propose on parent p with a certificate for q. *)
NewBlock(p, x, q) == Append(p, [payload |-> x, qc |-> q])

(* Whether the certificate in b is for an ancestor of b (or genesis).      *)
OwnCert(b) == Extends(b, QcRef(b))

(* No block carries a certificate for a block of another branch. *)
OwnCerts == \A b \in Block : OwnCert(b)
==============================================================================
