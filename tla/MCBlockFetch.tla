---------------------------- MODULE MCBlockFetch -----------------------------
(* Three blocks, among three replicas.                                     *)
EXTENDS BlockFetch

CONSTANTS A, B, C

ABC == {A, B, C}
OnlyC == {C}
Third == {3}

(* A block of A and one of B on it on one branch; on the other, beside     *)
(* them, a block of C that carries a certificate for the block of B.       *)
ForkParent == << 0, 1, 0 >>
ForkQc == << 0, 0, 2 >>
ForkBy == << A, B, C >>
==============================================================================
