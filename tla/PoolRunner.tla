----------------------------- MODULE PoolRunner -----------------------------
(***************************************************************************)
(* The reconnect loop of run_with_config (runner.rs): which pool the next  *)
(* attempt goes to, the failures and cooldown of each pool, the backoff    *)
(* between attempts, the user's commands and the shutdown.                 *)
(*                                                                         *)
(* A handshake and a session are opaque here (Session has them): a         *)
(* handshake succeeds or fails and a session goes on until something ends  *)
(* it.  Time is counted in units of 500 ms, the first backoff; a cooldown  *)
(* and a sleep are kept as the time they still have to run, and a cooldown *)
(* that has expired is the same as none.                                   *)
(***************************************************************************)
EXTENDS RunnerConfig, Integers, Sequences, FiniteSets

CONSTANTS NPools,        \* config.pools has the indices 0..NPools-1
          Configs,       \* the configurations the program may start with
          SlotCap,       \* slots of a weighted schedule (128)
          UserCommands,  \* commands the user may send
          CommandCap,    \* capacity of the command channel (32)
          MaxCommands,   \* bound: commands the user sends
          Reliable,      \* pools that answer and keep their sessions, but for
                         \* an outage
          None           \* Option::None

Pools == 0..(NPools - 1)

ASSUME RunnerAssumption ==
    /\ NPools \in Nat \ {0}
    /\ \A c \in Configs :
          /\ Suits(c, NPools)
          /\ c.unsupported \cap Reliable = {}
    /\ SlotCap \in Nat
    /\ UserCommands \subseteq {"next", "prev", "toggle"}
    /\ CommandCap \in Nat
    /\ MaxCommands \in Nat
    /\ Reliable \subseteq Pools
    /\ None \notin Nat

VARIABLES
    config,           \* the Config; never written
    schedule,         \* PoolPicker.schedule; never written after new
    pc,               \* "top", "connecting", "session", "sleeping", "stopped"
    pools,            \* PoolRuntime: failures, cooldown left, disabled
    cursor,           \* PoolPicker.cursor, modulo the schedule's length
    active_idx,       \* PoolPicker.active_idx
    manual_override,  \* the pool a switch command chose
    pool_idx,         \* the pool of the current attempt
    backoff,          \* backoff_ms
    sleep,            \* what is left of the current sleep
    commands,         \* the command channel
    sent,             \* bound: commands sent so far
    shutdown,         \* the watch channel holds true
    outage            \* the network is down: every attempt may fail

picker == <<cursor, active_idx, manual_override>>

user == <<commands, sent>>

(* What the manager only reads. *)
world == <<config, schedule, shutdown, outage>>

vars == <<pc, pools, picker, pool_idx, backoff, sleep, user, world>>

-----------------------------------------------------------------------------
(* PoolPicker. *)

Larger(x, y) == IF x < y THEN y ELSE x

Smaller(x, y) == IF x < y THEN x ELSE y

Least(S) == CHOOSE x \in S : \A y \in S : x <= y

slots(c, i) == Larger(c.weight[i], 1)

(* The slots of the pools before pool n; one more than the cap counts as all. *)
total_slots(c, n) ==
    Cardinality({s \in (0..(n - 1)) \X (1..(SlotCap + 1)) : s[2] <= slots(c, s[1])})

(* The number of pools before the first that takes the slots over the cap.  *)
(* That pool and the ones after it get none.                               *)
scheduled(c) ==
    Least({n \in 0..NPools : n = NPools \/ total_slots(c, n + 1) > SlotCap})

weighted(c) ==
    [k \in 1..total_slots(c, scheduled(c)) |->
        Least({i \in Pools : k <= total_slots(c, i + 1)})]

in_order == [k \in 1..NPools |-> k - 1]

new_schedule(c) ==
    IF c.strategy = "weighted" /\ weighted(c) # <<>> THEN weighted(c) ELSE in_order

Slots == Len(schedule)

(* The pool in the slot k places after place p, counted from 0. *)
At(p, k) == schedule[((p + k) % Slots) + 1]

is_available(i) == ~pools[i].disabled /\ pools[i].cooldown = 0

Sticks ==
    /\ config.strategy = "failover"
    /\ active_idx # None
    /\ is_available(active_idx)

(* Mutant: the last slot is never tried. *)
TriesButLast == {k \in 0..(Slots - 2) : is_available(At(cursor, k))}

Tries == {k \in 0..(Slots - 1) : is_available(At(cursor, k))}

(* Mutant: the search starts over at the first pool. *)
pick_next_from_start ==
    IF Sticks THEN [pool |-> active_idx, cursor |-> cursor]
    ELSE LET free == {k \in 0..(Slots - 1) : is_available(At(0, k))}
         IN  IF free = {} THEN [pool |-> None, cursor |-> 0]
             ELSE [pool |-> At(0, Least(free)), cursor |-> 0]

(* The pool, if any, and the cursor pick_next leaves. *)
pick_next ==
    IF Sticks THEN [pool |-> active_idx, cursor |-> cursor]
    ELSE IF Tries = {} THEN [pool |-> None, cursor |-> cursor]
    ELSE [pool   |-> At(cursor, Least(Tries)),
          cursor |-> (cursor + Least(Tries) + 1) % Slots]

(* The first place of a pool in the schedule. *)
Positions(from) == {p \in 0..(Slots - 1) : At(p, 0) = from}

(* Mutant: the pool's availability is not asked for. *)
pick_relative_any(from, step) ==
    IF Positions(from) = {} THEN [pool |-> None, cursor |-> cursor]
    ELSE LET p == (Least(Positions(from)) + step) % Slots
         IN  [pool |-> At(p, 0), cursor |-> (p + 1) % Slots]

(* Mutant: the search starts at the pool it should leave. *)
pick_relative_from_here(from, step) ==
    LET start == Least(Positions(from))
        free == {k \in 0..(Slots - 1) : is_available(At(start, step * k))}
    IN  IF Positions(from) = {} \/ free = {}
        THEN [pool |-> None, cursor |-> cursor]
        ELSE [pool   |-> At(start, step * Least(free)),
              cursor |-> (start + step * Least(free) + 1) % Slots]

(* The nearest available place after (step = 1) or before (step = -1) it.  *)
(* The last place tried is the one it starts from.                         *)
pick_relative(from, step) ==
    LET start == Least(Positions(from))
        free == {k \in 1..Slots : is_available(At(start, step * k))}
    IN  IF Positions(from) = {} \/ free = {}
        THEN [pool |-> None, cursor |-> cursor]
        ELSE [pool   |-> At(start, step * Least(free)),
              cursor |-> (start + step * Least(free) + 1) % Slots]

-----------------------------------------------------------------------------
Init ==
    /\ config \in Configs
    /\ schedule = new_schedule(config)
    /\ pc = "top"
    /\ pools = [i \in Pools |-> [failures |-> 0, cooldown |-> 0,
                                 disabled |-> i \in config.unsupported]]
    /\ cursor = 0
    /\ active_idx = None
    /\ manual_override = None
    /\ pool_idx = None
    /\ backoff = 1
    /\ sleep = 0
    /\ commands = <<>>
    /\ sent = 0
    /\ shutdown = FALSE
    /\ outage \in BOOLEAN

(* Time passes during an attempt, a session or a sleep.  The rest of the   *)
(* loop takes no time: a delay of the scheduler is nothing to 500 ms.      *)
tick ==
    /\ \/ pc \in {"connecting", "session"}
       \/ pc = "sleeping" /\ sleep > 0
    /\ \/ sleep > 0
       \/ \E i \in Pools : pools[i].cooldown > 0
    /\ pools' = [i \in Pools |->
                    [pools[i] EXCEPT !.cooldown = Larger(@ - 1, 0)]]
    /\ sleep' = Larger(sleep - 1, 0)
    /\ UNCHANGED <<pc, picker, pool_idx, backoff, user, world>>

user_sends ==
    /\ pc # "stopped"
    /\ Len(commands) < CommandCap
    /\ sent < MaxCommands
    /\ \E c \in UserCommands : commands' = Append(commands, c)
    /\ sent' = sent + 1
    /\ UNCHANGED <<pc, pools, picker, pool_idx, backoff, sleep, world>>

request_shutdown ==
    /\ ~shutdown
    /\ pc # "stopped"
    /\ shutdown' = TRUE
    /\ UNCHANGED <<pc, pools, picker, pool_idx, backoff, sleep, user, config,
                   schedule, outage>>

(* The network is back, once. *)
outage_ends ==
    /\ outage
    /\ pc # "stopped"
    /\ outage' = FALSE
    /\ UNCHANGED <<pc, pools, picker, pool_idx, backoff, sleep, user, config,
                   schedule, shutdown>>

-----------------------------------------------------------------------------
(* The top of the loop. *)

Stop ==
    /\ pc' = "stopped"
    /\ sleep' = 0

leave_loop ==
    /\ pc = "top"
    /\ shutdown
    /\ Stop
    /\ UNCHANGED <<pools, picker, pool_idx, backoff, user, world>>

Attempt(i) ==
    /\ pc' = "connecting"
    /\ pool_idx' = i
    /\ UNCHANGED <<pools, active_idx, backoff, sleep, user, world>>

(* Mutant: the override only says that something was chosen. *)
attempt_override_loses_it ==
    /\ pc = "top"
    /\ ~shutdown
    /\ manual_override # None
    /\ pick_next.pool # None
    /\ manual_override' = None
    /\ cursor' = pick_next.cursor
    /\ Attempt(pick_next.pool)

attempt_override ==
    /\ pc = "top"
    /\ ~shutdown
    /\ manual_override # None
    /\ is_available(manual_override)
    /\ manual_override' = None
    /\ Attempt(manual_override)
    /\ UNCHANGED cursor

attempt_picked ==
    /\ pc = "top"
    /\ ~shutdown
    /\ manual_override = None
    /\ pick_next.pool # None
    /\ cursor' = pick_next.cursor
    /\ Attempt(pick_next.pool)
    /\ UNCHANGED manual_override

cooldowns == {pools[i].cooldown : i \in Pools} \ {0}

(* No pool: sleep until the first cooldown ends, or 500 ms if none runs.   *)
(* An override whose pool is no longer available ends up here too.         *)
all_cooling ==
    /\ pc = "top"
    /\ ~shutdown
    /\ IF manual_override # None
       THEN ~is_available(manual_override) /\ UNCHANGED cursor
       ELSE pick_next.pool = None /\ cursor' = pick_next.cursor
    /\ manual_override' = None
    /\ pc' = "sleeping"
    /\ sleep' = IF cooldowns = {} THEN 1 ELSE Least(cooldowns)
    /\ UNCHANGED <<pools, active_idx, pool_idx, backoff, user, world>>

(* The sleep ends or a shutdown cuts it short. *)
wake ==
    /\ pc = "sleeping"
    /\ sleep = 0 \/ shutdown
    /\ pc' = "top"
    /\ sleep' = 0
    /\ UNCHANGED <<pools, picker, pool_idx, backoff, user, world>>

(* "Reconnecting in ..." *)
SleepBackoff ==
    /\ pc' = "sleeping"
    /\ sleep' = backoff
    /\ backoff' = Smaller(2 * backoff, config.max_backoff)

-----------------------------------------------------------------------------
(* The attempt. *)

handshake_succeeds ==
    /\ pc = "connecting"
    /\ pc' = "session"
    /\ backoff' = 1
    /\ pools' = [pools EXCEPT ![pool_idx].failures = 0,
                              ![pool_idx].cooldown = 0]
    /\ active_idx' = pool_idx
    /\ UNCHANGED <<cursor, manual_override, pool_idx, sleep, user, world>>

(* Mutant: the failure that starts a cooldown is still counted after it. *)
count_failure_forever(i) ==
    pools' = [pools EXCEPT ![i].failures = @ + 1,
                           ![i].cooldown = IF pools[i].failures + 1 >= config.threshold
                                           THEN config.cooldown ELSE @]

(* Mutant: no cooldown starts. *)
count_failure_only(i) ==
    pools' = [pools EXCEPT ![i].failures = (@ + 1) % config.threshold]

count_failure(i) ==
    LET failures == pools[i].failures + 1 IN
    pools' = IF failures >= config.threshold
             THEN [pools EXCEPT ![i].failures = 0, ![i].cooldown = config.cooldown]
             ELSE [pools EXCEPT ![i].failures = failures]

handshake_fails ==
    /\ pc = "connecting"
    /\ outage \/ pool_idx \notin Reliable
    /\ count_failure(pool_idx)
    /\ IF config.reconnect THEN SleepBackoff ELSE Stop /\ UNCHANGED backoff
    /\ UNCHANGED <<picker, pool_idx, user, world>>

-----------------------------------------------------------------------------
(* The session. *)

EndSession ==
    IF config.reconnect /\ ~shutdown THEN SleepBackoff ELSE Stop /\ UNCHANGED backoff

Switch(step) ==
    IF active_idx # None /\ pick_relative(active_idx, step).pool # None
    THEN /\ manual_override' = pick_relative(active_idx, step).pool
         /\ cursor' = pick_relative(active_idx, step).cursor
         /\ EndSession
    ELSE UNCHANGED <<pc, cursor, manual_override, sleep, backoff>>

(* Mutant: "prev" is never received. *)
switch_next_only ==
    /\ pc = "session"
    /\ commands # <<>>
    /\ Head(commands) = "next"
    /\ Switch(1)
    /\ commands' = Tail(commands)
    /\ UNCHANGED <<pools, active_idx, pool_idx, sent, world>>

switch_pool ==
    /\ pc = "session"
    /\ commands # <<>>
    /\ \/ Head(commands) = "next" /\ Switch(1)
       \/ Head(commands) = "prev" /\ Switch(-1)
    /\ commands' = Tail(commands)
    /\ UNCHANGED <<pools, active_idx, pool_idx, sent, world>>

(* Mutant: the session goes on on the pool it disabled. *)
toggle_and_stay ==
    /\ pc = "session"
    /\ commands # <<>>
    /\ Head(commands) = "toggle"
    /\ commands' = Tail(commands)
    /\ pools' = [pools EXCEPT ![active_idx].disabled = ~@]
    /\ UNCHANGED <<pc, picker, pool_idx, sleep, backoff, sent, world>>

toggle_disable ==
    /\ pc = "session"
    /\ commands # <<>>
    /\ Head(commands) = "toggle"
    /\ commands' = Tail(commands)
    /\ IF active_idx = None
       THEN UNCHANGED <<pc, pools, active_idx, sleep, backoff>>
       ELSE /\ pools' = [pools EXCEPT ![active_idx].disabled = ~@]
            /\ IF pools'[active_idx].disabled
               THEN active_idx' = None /\ EndSession
               ELSE UNCHANGED <<pc, active_idx, sleep, backoff>>
    /\ UNCHANGED <<cursor, manual_override, pool_idx, sent, world>>

(* The pool closes, an error, the idle timer. *)
session_lost ==
    /\ pc = "session"
    /\ outage \/ pool_idx \notin Reliable
    /\ EndSession
    /\ UNCHANGED <<pools, picker, pool_idx, user, world>>

(* The write of a share fails on a connection that is gone: `?' returns    *)
(* from run_with_config, whatever config.reconnect is.                     *)
submit_fails ==
    /\ pc = "session"
    /\ outage \/ pool_idx \notin Reliable
    /\ Stop
    /\ UNCHANGED <<pools, picker, pool_idx, backoff, user, world>>

(* Mutant: the shutdown is logged and the session goes on. *)
shutdown_logged ==
    /\ pc = "session"
    /\ shutdown
    /\ UNCHANGED vars

shutdown_observed ==
    /\ pc = "session"
    /\ shutdown
    /\ EndSession
    /\ UNCHANGED <<pools, picker, pool_idx, user, world>>

-----------------------------------------------------------------------------
Loop ==
    \/ leave_loop
    \/ attempt_override
    \/ attempt_picked
    \/ all_cooling
    \/ wake

Attempted == handshake_succeeds \/ handshake_fails

TakeCommand == switch_pool \/ toggle_disable

Terminated == pc = "stopped" /\ UNCHANGED vars

Next ==
    \/ tick
    \/ user_sends
    \/ request_shutdown
    \/ outage_ends
    \/ Loop
    \/ Attempted
    \/ TakeCommand
    \/ session_lost
    \/ submit_fails
    \/ shutdown_observed
    \/ Terminated

Spec == Init /\ [][Next]_vars

(***************************************************************************)
(* Fairness.  Time passes, a ready manager is polled, an attempt ends (the *)
(* handshake has a deadline), and select! is random among ready branches,  *)
(* so a command or a shutdown that waits is taken.  The user, and a pool   *)
(* that is not reliable, owe nothing.                                      *)
(***************************************************************************)
FairSpec ==
    /\ Spec
    /\ WF_vars(tick)
    /\ WF_vars(Loop)
    /\ WF_vars(Attempted)
    /\ SF_vars(TakeCommand)
    /\ SF_vars(shutdown_observed)

(* A pool that is not reliable loses every session it gets. *)
FlakyPools == WF_vars(session_lost)

-----------------------------------------------------------------------------
Runtime == [failures : 0..(config.threshold - 1),
            cooldown : 0..config.cooldown,
            disabled : BOOLEAN]

TypeOK ==
    /\ config \in Configs
    /\ schedule = new_schedule(config)
    /\ pc \in {"top", "connecting", "session", "sleeping", "stopped"}
    /\ pools \in [Pools -> Runtime]
    /\ cursor \in 0..(Slots - 1)
    /\ active_idx \in Pools \cup {None}
    /\ manual_override \in Pools \cup {None}
    /\ pool_idx \in Pools \cup {None}
    /\ backoff \in 1..config.max_backoff
    /\ sleep \in 0..Larger(config.max_backoff, config.cooldown)
    /\ commands \in Seq(UserCommands)
    /\ sent \in Nat
    /\ shutdown \in BOOLEAN
    /\ outage \in BOOLEAN

(***************************************************************************)
(* The pool a session runs on is the one the commands act on, and it is    *)
(* neither disabled nor unsupported; nor is the one being connected to.    *)
(***************************************************************************)
SessionOnActivePool ==
    /\ pc = "session" => active_idx = pool_idx
    /\ pc \in {"connecting", "session"} =>
          ~pools[pool_idx].disabled /\ pool_idx \notin config.unsupported

(***************************************************************************)
(* The pool a switch chose can still be used when the loop comes to it, so *)
(* a switch is never turned into a sleep.                                  *)
(***************************************************************************)
OverrideStaysAvailable ==
    manual_override # None => is_available(manual_override)

(***************************************************************************)
(* "All pools are cooling down" is true when it is said: with a pool that  *)
(* could be tried the manager tries one (ROADMAP.md: "Keep mining when one *)
(* pool fails").                                                           *)
(***************************************************************************)
SleepsOnlyWithoutPools ==
    [][pc = "top" /\ pc' = "sleeping" => \A i \in Pools : ~is_available(i)]_vars

(***************************************************************************)
(* A switch leaves the pool if there is another one to go to (README.md:   *)
(* "`p` - Switch to next pool").  Not so with a weighted schedule: the     *)
(* next slot may be another one of the same pool.                          *)
(***************************************************************************)
SwitchLeavesPool ==
    [][config.strategy # "weighted" /\ manual_override' \notin {None, manual_override}
          => \/ manual_override' # active_idx
             \/ \A i \in Pools \ {active_idx} : ~is_available(i)]_vars

(***************************************************************************)
(* The pool a switch chose is connected to, unless a shutdown comes first  *)
(* (README.md: "`p` - Switch to next pool").  It takes a configuration     *)
(* that reconnects: without it every end of a session ends the program.    *)
(***************************************************************************)
SwitchIsCarriedOut ==
    \A i \in Pools :
        config.reconnect /\ manual_override = i
            ~> shutdown \/ (pc = "connecting" /\ pool_idx = i)

(* A shutdown ends the loop, from wherever it is. *)
ShutdownCompletes == shutdown ~> pc = "stopped"

(***************************************************************************)
(* Once the network is back, and as long as a reliable pool is enabled,    *)
(* the manager gets to a session, whatever the other pools do (ROADMAP.md: *)
(* "Keep mining when one pool fails").  With failover this takes a         *)
(* configuration whose cooldown is longer than the largest backoff.        *)
(***************************************************************************)
CanMine == ~outage /\ \E i \in Reliable : ~pools[i].disabled

KeepsMining == CanMine ~> (pc \in {"session", "stopped"} \/ ~CanMine)

(* A command the user sends is taken, or the manager stops.                *)
(* (README.md: "`D` - Disable/Enable current pool")                        *)
CommandsAreTaken ==
    \A n \in 1..MaxCommands :
        ~outage /\ sent = n /\ commands # <<>> ~> (commands = <<>> \/ sent # n \/ pc = "stopped")

(***************************************************************************)
(* A reliable pool is used in the end: pools that take connections and     *)
(* drop them do not hold the manager for ever.  Failover is the exception: *)
(* only a failed handshake makes it leave its active pool.                 *)
(***************************************************************************)
LeavesFlakyPool ==
    FlakyPools /\ config.strategy # "failover" =>
        (CanMine ~> \/ pc = "session" /\ pool_idx \in Reliable
                    \/ pc = "stopped"
                    \/ ~CanMine)
=============================================================================
