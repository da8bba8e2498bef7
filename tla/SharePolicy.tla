---------------------------- MODULE SharePolicy ----------------------------
(***************************************************************************)
(* The share submission policy of manager/submit.rs: when two pool         *)
(* difficulties count as the same one, and whether a nonce that the miner  *)
(* found may still be submitted.                                           *)
(*                                                                         *)
(* A difficulty is an f64 in the code.  Here it is an integer number of    *)
(* units of 1e-9, the tolerance both functions are written with, so that   *)
(* 1.0 is `One' units (10^9 in the code; a parameter here, so that TLC can *)
(* reach the difficulties at which the two tolerances part with small      *)
(* numbers).  `NonFinite' stands for NaN and the infinities.  What is      *)
(* abstracted is the rounding of f64 arithmetic.                           *)
(***************************************************************************)
EXTENDS Integers

CONSTANTS One,        \* the difficulty 1.0, in units of 1e-9
          NonFinite,  \* NaN or an infinity
          None        \* Option::None

ASSUME PolicyAssumption ==
    /\ One \in Nat \ {0}
    /\ NonFinite \notin Int

is_finite(d) == d # NonFinite

Magnitude(x) == IF x < 0 THEN -x ELSE x

Larger(x, y) == IF x < y THEN y ELSE x

(***************************************************************************)
(* |a - b| <= 1e-9 * (1.0 + max(|a|, |b|)), both sides multiplied by       *)
(* One * One: the tolerance is relative to the larger difficulty.          *)
(***************************************************************************)
difficulties_close(a, b) ==
    /\ is_finite(a)
    /\ is_finite(b)
    /\ Magnitude(a - b) * One <= One + Larger(Magnitude(a), Magnitude(b))

(* Mutant: the job id is not compared. *)
decide_without_job_id(found_job, found_difficulty, current_job, required) ==
    IF \/ current_job = None
       \/ ~(is_finite(found_difficulty) /\ is_finite(required))
       \/ found_difficulty + 1 < required
    THEN "dropped"
    ELSE "submit"

(* Mutant: the tolerance is the relative one of difficulties_close. *)
decide_with_relative_tolerance(found_job, found_difficulty, current_job, required) ==
    IF /\ found_job = current_job
       /\ is_finite(found_difficulty)
       /\ is_finite(required)
       /\ \/ required <= found_difficulty
          \/ difficulties_close(found_difficulty, required)
    THEN "submit"
    ELSE "dropped"

(***************************************************************************)
(* The verdict on a nonce of job `found_job', mined at `found_difficulty'. *)
(* The first test that fails names the verdict.  The tolerance of the last *)
(* test is absolute: one unit.                                             *)
(***************************************************************************)
decide_share_submit(found_job, found_difficulty, current_job, required) ==
    CASE current_job = None                 -> "no active job"
      [] /\ current_job # None
         /\ found_job # current_job         -> "stale job"
      [] /\ current_job # None
         /\ found_job = current_job
         /\ ~(is_finite(found_difficulty) /\ is_finite(required))
                                            -> "non-finite difficulty"
      [] /\ current_job # None
         /\ found_job = current_job
         /\ is_finite(found_difficulty)
         /\ is_finite(required)
         /\ found_difficulty + 1 < required -> "below pool difficulty"
      [] OTHER                              -> "submit"
=============================================================================
