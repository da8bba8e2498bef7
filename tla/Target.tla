------------------------------- MODULE Target -------------------------------
(***************************************************************************)
(* From a pool difficulty to the target a hash must not exceed             *)
(* (miner/mod.rs).  The code divides the target of difficulty 1 by the     *)
(* difficulty in fixed point: the difficulty is rounded to a multiple of   *)
(* 1e-8, ten of the units of SharePolicy, and the 256-bit quotient is cut  *)
(* to its low 32 bytes.                                                    *)
(***************************************************************************)
EXTENDS SharePolicy

CONSTANTS Diff1,         \* target of difficulty 1, per supported algorithm
          UnitsPerStep,  \* units of 1e-9 in a step of the fixed point (10)
          MaxScaled,     \* the largest u128
          Width          \* the number of 256-bit values

ASSUME TargetAssumption ==
    /\ UnitsPerStep \in Nat \ {0}
    /\ One % UnitsPerStep = 0
    /\ MaxScaled \in Nat \ {0}
    /\ Width \in Nat \ {0}
    /\ \A a \in DOMAIN Diff1 : Diff1[a] \in 0..(Width - 1)

Scale == One \div UnitsPerStep

is_supported(algorithm) == algorithm \in DOMAIN Diff1

Smaller(x, y) == IF x < y THEN x ELSE y

(* (difficulty * scale).round().max(1.0) as u128, which saturates. *)
scaled(d) ==
    Smaller(MaxScaled, Larger(1, (2 * d + UnitsPerStep) \div (2 * UnitsPerStep)))

Quotient(d, algorithm) == (Diff1[algorithm] * Scale) \div scaled(d)

(* Mutant: the quotient is rounded up. *)
target_rounded_up(d, algorithm) ==
    IF ~is_finite(d) \/ d <= 0
    THEN Width - 1
    ELSE (Quotient(d, algorithm) + 1) % Width

difficulty_to_target_for_algorithm(d, algorithm) ==
    IF ~is_finite(d) \/ d <= 0
    THEN Width - 1
    ELSE Quotient(d, algorithm) % Width

meets_target(hash, target) == hash <= target

-----------------------------------------------------------------------------
(* What a pool asks of a hash: its own difficulty, Diff1 / hash, is at      *)
(* least d less `slack' half steps.                                        *)
HasDifficulty(hash, d, algorithm, slack) ==
    hash * (2 * d - slack * UnitsPerStep) <= 2 * Diff1[algorithm] * One

(* The target of d has not lost its high bytes, and d no precision. *)
Fits(d, algorithm) == Quotient(d, algorithm) < Width

Precise(d) == UnitsPerStep <= 2 * d /\ scaled(d) < MaxScaled

(* The target is the largest hash of difficulty d, give or take half a step. *)
Tight(d, algorithm) ==
    0 < d /\ Precise(d) /\ Fits(d, algorithm)
        => LET T == difficulty_to_target_for_algorithm(d, algorithm)
           IN  /\ HasDifficulty(T, d, algorithm, 1)
               /\ ~HasDifficulty(T + 1, d, algorithm, -1)
=============================================================================
