------------------------------- MODULE Config -------------------------------
(***************************************************************************)
(* From the environment to the pools and the policy of the manager         *)
(* (config.rs, presets.rs), and what run_with_config makes of them.        *)
(*                                                                         *)
(* The variables are the fields of a record, already split into entries;   *)
(* of an entry, a preset and a Config are kept what decides where the      *)
(* manager connects and when: names, credentials, threads and timeouts of  *)
(* a session are left out.  Coins and algorithms are in lower case.        *)
(***************************************************************************)
EXTENDS EnvValues, RunnerConfig, Integers, Sequences, SequencesExt

CONSTANTS Embedded,     \* embedded presets: from a name to a preset
          DefaultPool,  \* solo.ckpool.org:3333
          Supported     \* algorithms the miner can hash

(* A coin that is not known is taken to be mined with sha256d. *)
infer_from_coin(coin) == IF coin \in {"ltc", "doge"} THEN "scrypt" ELSE "sha256d"

pool_of_entry(e) ==
    [addr   |-> e.addr,
     weight |-> positive_or(e.weight, 1),
     algo   |-> set_or(e.algo, infer_from_coin(set_or(e.coin, "btc")))]

(* Entries without an address are passed over. *)
add_entry(pools, e) ==
    IF e.addr = Unset THEN pools ELSE Append(pools, pool_of_entry(e))

explicit_pools(env) == FoldLeft(add_entry, <<>>, set_or(env.POOLS, <<>>))

to_pool_config(p) ==
    [addr   |-> p.addr,
     weight |-> positive_or(p.weight, 1),
     algo   |-> set_or(p.algo, infer_from_coin(p.coin))]

(* find_preset, for one name of the list. *)
add_named(presets, name) ==
    IF name \in DOMAIN Embedded THEN Append(presets, Embedded[name]) ELSE presets

(* The presets of a file, if it can be read. *)
from_file(env) == IF env.PRESET_FILE \in {Unset, Garbage} THEN <<>> ELSE env.PRESET_FILE

(* All presets of the file, then the embedded ones named. *)
parse_presets_env(env) ==
    LET presets == FoldLeft(add_named, from_file(env), set_or(env.PRESET, <<>>))
    IN  [i \in DOMAIN presets |-> to_pool_config(presets[i])]

(* The single pool of MINING_POOL, with the algorithm of MINING_ALGO. *)
single_pool(env) ==
    <<[addr   |-> set_or(env.POOL, DefaultPool),
       weight |-> 1,
       algo   |-> set_or(env.ALGO, "sha256d")]>>

(* The first source that has a pool. *)
parse_pools_env(env) ==
    CASE explicit_pools(env) # <<>>             -> explicit_pools(env)
      [] /\ explicit_pools(env) = <<>>
         /\ parse_presets_env(env) # <<>>       -> parse_presets_env(env)
      [] OTHER                                  -> single_pool(env)

strategy_of(v) == IF v \in Strategies THEN v ELSE "failover"

from_env(env) ==
    [pools       |-> parse_pools_env(env),
     strategy    |-> strategy_of(env.STRATEGY),
     failures    |-> positive_or(env.FAILURES_BEFORE_COOLDOWN, 3),
     cooldown    |-> positive_or(env.COOLDOWN_SECS, 30),
     max_delay   |-> IF env.MAX_DELAY_MS \in Nat THEN env.MAX_DELAY_MS ELSE 30000,
     reconnect   |-> bool_or(env.RECONNECT, TRUE)]

-----------------------------------------------------------------------------
(* run_with_config, up to its loop. *)

AtLeast(low, n) == IF n < low THEN low ELSE n

unsupported_pools(config) ==
    {i \in DOMAIN config.pools : config.pools[i].algo \notin Supported}

(* "No pools configured", or none that can be mined for. *)
refuses(config) == unsupported_pools(config) = DOMAIN config.pools

(* Its Config as PoolRunner has it: the indices of pools start at 0. *)
runner_config(config) ==
    [strategy    |-> config.strategy,
     weight      |-> [i \in 0..(Len(config.pools) - 1) |-> config.pools[i + 1].weight],
     unsupported |-> {i - 1 : i \in unsupported_pools(config)},
     threshold   |-> config.failures,
     cooldown    |-> AtLeast(1, config.cooldown),
     max_backoff |-> AtLeast(500, config.max_delay),
     reconnect   |-> config.reconnect]
=============================================================================
