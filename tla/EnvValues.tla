----------------------------- MODULE EnvValues -----------------------------
(***************************************************************************)
(* What the program makes of one environment variable, or of a group of    *)
(* them: a value or else a default (config.rs, network/proxy.rs).  Which   *)
(* variables there are is the matter of Config and Proxy.                  *)
(*                                                                         *)
(* Blank counts as unset.  The code tells them apart only where a blank    *)
(* value means something (MINING_POOL, MINING_LIST_PRESETS): there it is   *)
(* a value like any other.                                                 *)
(***************************************************************************)
EXTENDS Integers

CONSTANTS None,     \* Option::None
          Unset,    \* env::var fails
          Off,      \* of a proxy, its directives off, none, direct, 0 and -
          Garbage   \* what no parser takes

set_or(v, default) == IF v = Unset THEN default ELSE v

(* Mutant: zero is not filtered out. *)
number_or(v, default) == IF v \in Nat THEN v ELSE default

(* A number of at least 1, or the default. *)
positive_or(v, default) == IF v \in Nat \ {0} THEN v ELSE default

(* parse_bool_env, of a value that is on, off or neither. *)
bool_or(v, default) == CASE v = "on" -> TRUE [] v = "off" -> FALSE [] OTHER -> default

(* The first of a group of variables that is set. *)
env_first(values) ==
    IF \A i \in DOMAIN values : values[i] = Unset THEN Unset
    ELSE values[CHOOSE i \in DOMAIN values :
                   /\ values[i] # Unset
                   /\ \A j \in 1..(i - 1) : values[j] = Unset]
=============================================================================
