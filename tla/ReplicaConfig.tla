---------------------------- MODULE ReplicaConfig ----------------------------
(***************************************************************************)
(* ReplicaConfig of entity.h as HotStuffBase::start and                    *)
(* HotStuffCore::on_init fill it: n replicas tolerate (n - 1) / 3 faulty   *)
(* ones and a certificate takes the votes of n minus that many.            *)
(***************************************************************************)
EXTENDS Integers, FiniteSets

CONSTANTS Replica,   \* the replicas of the configuration
          Faulty     \* those that do not follow the protocol

nreplicas == Cardinality(Replica)

nfaulty == (nreplicas - 1) \div 3

(* Wrong on purpose: a quorum one vote short. *)
nmajorityShort == nreplicas - nfaulty - 1

(* Votes that make a certificate (on_init). *)
nmajority == nreplicas - nfaulty

Correct == Replica \ Faulty

(* The fault assumption: start() sizes the quorum for nfaulty faults. *)
ASSUME ReplicaAssumption ==
  /\ IsFiniteSet(Replica)
  /\ Replica # {}
  /\ Faulty \subseteq Replica
  /\ Cardinality(Faulty) <= nfaulty

(* A set of voters whose votes make a certificate (QuorumCert). *)
IsQuorum(S) == S \subseteq Replica /\ Cardinality(S) >= nmajority
==============================================================================
