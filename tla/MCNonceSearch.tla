--------------------------- MODULE MCNonceSearch ---------------------------
(* An instance of NonceSearch for TLC.  A difficulty of 1.0 is 8 units and  *)
(* a target has 6 bits; the targets of difficulty 1 of the two algorithms  *)
(* differ so that only scrypt's overflows at low difficulties.             *)
EXTENDS NonceSearch

AlgorithmTargets == [sha256d |-> 3, scrypt |-> 40]

SomeDifficulties == (-1)..40

(* Some headers of each extranonce2 meet the target of AWork. *)
SomeHash(root, n) == (5 * root.value + 7 * n + 3 * root.digits) % 11

AWork == [size |-> 1, difficulty |-> 9, algorithm |-> "sha256d", decodes |-> TRUE]

(* Two jobs that are mined, three that are refused, and a job that fails to *)
(* decode for each difficulty, for the sake of its target.                 *)
SomeWorks ==
    {AWork,
     [AWork EXCEPT !.algorithm = "scrypt", !.difficulty = 5],
     [AWork EXCEPT !.size = 0],
     [AWork EXCEPT !.algorithm = "x11"],
     [AWork EXCEPT !.decodes = FALSE, !.difficulty = NonFinite]}
    \cup {[AWork EXCEPT !.decodes = FALSE, !.difficulty = d, !.algorithm = a] :
              d \in SomeDifficulties, a \in DOMAIN AlgorithmTargets}
=============================================================================
