--------------------------- MODULE RunnerConfig ----------------------------
(***************************************************************************)
(* What run_with_config reads of its Config, for n pools.  The threshold,  *)
(* the cooldown and the largest backoff are the values after the clamps of *)
(* the code: at least one failure, 1 s and 500 ms.                         *)
(***************************************************************************)
EXTENDS Naturals

Strategies == {"failover", "round_robin", "weighted"}

ConfigOf(n) ==
    [strategy    : Strategies,
     weight      : [0..(n - 1) -> Nat \ {0}],
     unsupported : SUBSET (0..(n - 1)),
     threshold   : Nat \ {0},
     cooldown    : Nat \ {0},
     max_backoff : Nat \ {0},
     reconnect   : BOOLEAN]

(* The runner does not start if all of its pools are unsupported. *)
Suits(c, n) ==
    /\ c \in ConfigOf(n)
    /\ c.unsupported # 0..(n - 1)
=============================================================================
