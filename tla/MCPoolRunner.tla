---------------------------- MODULE MCPoolRunner ----------------------------
(* Instances of PoolRunner for TLC. *)
EXTENDS PoolRunner

SecondPool == {1}
BothPools == {0, 1}

NoCommands == {}
Toggle == {"toggle"}
AllCommands == {"next", "prev", "toggle"}

Evenly == [i \in Pools |-> 1]

(* Pool 1 has two slots. *)
Unevenly == [i \in Pools |-> IF i = 1 THEN 2 ELSE 1]

Failover ==
    [strategy |-> "failover", weight |-> Evenly, unsupported |-> {},
     threshold |-> 2, cooldown |-> 4, max_backoff |-> 3, reconnect |-> TRUE]

RoundRobin ==
    [Failover EXCEPT !.strategy = "round_robin", !.cooldown = 2]

Weighted ==
    [Failover EXCEPT !.strategy = "weighted", !.weight = Unevenly, !.cooldown = 2]

(* Every strategy; a failover that may not use the last of its pools, and   *)
(* a round robin without reconnecting.                                     *)
AllConfigs ==
    {Failover, RoundRobin, Weighted,
     [Failover EXCEPT !.unsupported = {NPools - 1}],
     [RoundRobin EXCEPT !.reconnect = FALSE]}

FailoverOnly == {Failover}

(* The defaults: three failures, 30 s of cooldown, backoff up to 30 s. *)
DefaultConfig ==
    {[Failover EXCEPT !.threshold = 3, !.cooldown = 60, !.max_backoff = 60]}
=============================================================================
