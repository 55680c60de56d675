---------------------------- MODULE MCRoundRobin -----------------------------
(* Instances of RoundRobin: two to four replicas take turns as proposers. *)
EXTENDS RoundRobin, TLC

CONSTANTS c1, c2, c3, c4

Nobody == {}
Zero == {0}
Other == {1}
NoCmds == {{}}
AllOrNone == {{}, Cmd}
OneOrNone == {{}} \cup {{c} : c \in Cmd}
Cmd2 == {c1, c2}
Cmd3 == {c1, c2, c3}
Cmd4 == {c1, c2, c3, c4}

(* Commands are interchangeable. *)
Symmetry == Permutations(Cmd)
==============================================================================
