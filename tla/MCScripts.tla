------------------------------ MODULE MCScripts ------------------------------
(* The scripts of scripts/: a behaviour is one of the deployment or one of *)
(* the analysis of its logs, which share no state.                         *)
EXTENDS Deployment, ThrHist

VARIABLE tool

CONSTANTS M1, M2, A1, A2, B1

Machines == {M1, M2}
Addresses == {A1, A2, B1}
Owners == [a \in Addresses |-> IF a = B1 THEN M2 ELSE M1]
On(m, a) == [pub |-> m, priv |-> a]

(* Two replicas and a client on one machine; one on each of two, with      *)
(* clients at the last one; a machine with two addresses; no replica.      *)
Shared == [replicas |-> << On(M1, A1), On(M1, A1) >>, clients |-> << M1 >>]
Mixed == [replicas |-> << On(M2, B1), On(M1, A1) >>, clients |-> << M1, M1 >>]
TwoNets == [replicas |-> << On(M1, A1), On(M1, A2) >>, clients |-> << M2 >>]
NoReplica == [replicas |-> << >>, clients |-> << M1 >>]
AllLists == {Shared, Mixed, TwoNets, NoReplica}

(* Clients' logs, each ordered in time, any two after one another.         *)
At(s, u, l) == [kind |-> "commit", sec |-> s, usec |-> u, lat |-> l]
Other == [kind |-> "other"]
Torn == [kind |-> "torn"]
Files == {<< >>, << Other, At(1, 1, 2) >>, << At(2, 0, 3), At(2, 0, 1) >>,
          << At(0, 1, 1), At(4, 0, 90), Other >>,
          << At(1, 0, 1), At(1, 1, 1), At(3, 1, 1) >>,
          << At(1, 1, 1), At(1, 1, 1), At(1, 1, 90) >>}
AllLogs == {f \o g : f \in Files, g \in Files \cup {<< Torn >>}}

Init == \/ /\ tool = "deploy" /\ DeployInit
           /\ HistInit /\ log = << >>
        \/ /\ tool = "hist" /\ HistInit
           /\ DeployInit /\ lists = Shared

Next == \/ tool = "deploy" /\ DeployNext /\ UNCHANGED << tool, histVars >>
        \/ tool = "hist" /\ HistNext /\ UNCHANGED << tool, deployVars >>

vars == << tool, deployVars, histVars >>

(* The analysis is a program that goes on until it ends; the operator need *)
(* not do anything.                                                        *)
Spec == /\ Init /\ [][Next]_vars
        /\ WF_histVars(tool = "hist" /\ HistNext /\ UNCHANGED << tool, deployVars >>)

(* The analysis ends, with its report or an exception: no round of its     *)
(* loops repeats for ever.                                                 *)
HistEnds == tool = "hist" => <>HistEnded
==============================================================================
