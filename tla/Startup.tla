------------------------------ MODULE Startup ------------------------------
(***************************************************************************)
(* The program from main to the lines of a pool (main.rs): the environment *)
(* is read, the manager starts unless it has nothing to mine for, and an   *)
(* attempt connects to one of its pools, which one being the matter of     *)
(* PoolRunner.  One attempt is followed; each has a Client of its own.     *)
(***************************************************************************)
EXTENDS Config, Client

CONSTANT Environments  \* the environments the program may be started in

(* The variables that hold entries are lists, and those that hold a proxy a  *)
(* value that Proxy tells apart.                                           *)
IsList(v) == v \in Seq({v[i] : i \in DOMAIN v})

ASSUME StartupAssumption ==
    \A e \in Environments :
        /\ e.POOLS = Unset \/ IsList(e.POOLS)
        /\ e.PRESET = Unset \/ IsList(e.PRESET)
        /\ e.PRESET_FILE \in {Unset, Garbage} \/ IsList(e.PRESET_FILE)
        /\ e.MINING_PROXY \in ProxyValue
        /\ \A i \in DOMAIN Standard : e[Standard[i]] \in Seq(ProxyValue)

VARIABLES
    env,    \* the environment; never written
    boot,   \* "main", "listed", "configured", "refused" or "running"
    config  \* the Config, or None

startupVars == <<env, boot, config>>

vars == <<startupVars, clientVars>>

Init ==
    /\ env \in Environments
    /\ boot = "main"
    /\ config = None
    /\ ClientInit

(* MINING_LIST_PRESETS: the presets are printed, and that is all. *)
list_presets ==
    /\ boot = "main"
    /\ env.LIST_PRESETS # Unset
    /\ boot' = "listed"
    /\ UNCHANGED <<env, config, clientVars>>

read_config ==
    /\ boot = "main"
    /\ env.LIST_PRESETS = Unset
    /\ boot' = "configured"
    /\ config' = from_env(env)
    /\ UNCHANGED <<env, clientVars>>

run_with_config ==
    /\ boot = "configured"
    /\ boot' = IF refuses(config) THEN "refused" ELSE "running"
    /\ UNCHANGED <<env, config, clientVars>>

(* An attempt on a pool that is not disabled. *)
connect_and_handshake(i) ==
    /\ boot = "running"
    /\ connect(env, config.pools[i].addr)
    /\ UNCHANGED startupVars

Attempt ==
    \E i \in DOMAIN config.pools \ unsupported_pools(config) : connect_and_handshake(i)

Connection == ClientNext /\ UNCHANGED startupVars

Next ==
    \/ list_presets
    \/ read_config
    \/ run_with_config
    \/ boot = "running" /\ Attempt
    \/ Connection

Spec == Init /\ [][Next]_vars

-----------------------------------------------------------------------------
(***************************************************************************)
(* The manager only starts with a configuration that PoolRunner is         *)
(* verified for, whatever the environment holds: at least one pool that    *)
(* can be mined for, weights and thresholds of at least 1, delays that are *)
(* not 0.                                                                  *)
(***************************************************************************)
ConfigSuitsRunner ==
    boot = "running" => Suits(runner_config(config), Len(config.pools))

(* The first variable of a group that is set holds a proxy. *)
FirstParses(values) ==
    \E k \in DOMAIN values :
        /\ values[k] # Unset /\ \A j \in 1..(k - 1) : values[j] = Unset
        /\ parses(values[k])

UsableProxy ==
    parses(env.MINING_PROXY) \/ \E i \in DOMAIN Standard : FirstParses(env[Standard[i]])

Direct == stage # "idle" /\ proxy = None /\ ~is_loopback_target(addr)

(***************************************************************************)
(* The user's word on proxies is kept: one that is found in the standard   *)
(* variables never comes between the program and a local pool (README.md:  *)
(* "Connections to `localhost`, `127.0.0.1`, and `::1` skip auto-detected  *)
(* proxies."), "off" is obeyed ("Force a direct connection"), and no other *)
(* pool is connected to directly while MINING_PROXY, or the first variable *)
(* that is set of some group, holds a proxy.  It says nothing of a proxy   *)
(* in a variable behind the first one of its group.                        *)
(***************************************************************************)
ProxyFollowsEnvironment ==
    /\ stage # "idle" =>
           /\ env.MINING_PROXY = Off => proxy = None
           /\ (proxy # None /\ is_loopback_target(addr)) => proxy.source = "MINING_PROXY"
    /\ Direct => env.MINING_PROXY = Off \/ ~UsableProxy
=============================================================================
