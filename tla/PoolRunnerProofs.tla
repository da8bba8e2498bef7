-------------------------- MODULE PoolRunnerProofs --------------------------
(***************************************************************************)
(* The reconnect loop for any number of pools, any configuration and any   *)
(* commands: its types, that sessions run on usable pools, that the pool a *)
(* switch chose stays usable, and where a choice of PoolPicker leads.      *)
(***************************************************************************)
EXTENDS PoolRunner, FiniteSetTheorems, WellFoundedInduction, TLAPS

(* Every pool has a place in the schedule.  The cap on the slots of a       *)
(* weighted schedule may leave pools without one.                          *)
AllScheduled ==
    \A c \in Configs : \A i \in Pools :
        \E p \in DOMAIN new_schedule(c) : new_schedule(c)[p] = i

(* An attempt is at a pool. *)
HasPool == pc \in {"connecting", "session"} => pool_idx # None

(* Commands are only read in a session, so that from a switch to the next   *)
(* attempt no pool is disabled or fails.                                   *)
OverrideWaits == manual_override # None => pc \in {"top", "sleeping", "stopped"}

UnsupportedIsDisabled == \A i \in config.unsupported : pools[i].disabled

IInv ==
    /\ TypeOK
    /\ HasPool
    /\ SessionOnActivePool
    /\ OverrideWaits
    /\ OverrideStaysAvailable
    /\ UnsupportedIsDisabled

-----------------------------------------------------------------------------
(* The schedule. *)

LEMMA LeastIsMember ==
    ASSUME NEW S \in SUBSET Nat, S # {}
    PROVE  Least(S) \in S /\ \A y \in S : Least(S) <= y
<1>1. PICK x \in S : \A y \in S : <<y, x>> \notin OpToRel(<, Nat)
  BY NatLessThanWellFounded, WFMin, Zenon
<1>2. \A y \in S : ~(y < x)
  BY <1>1, Zenon DEF OpToRel
<1>3. \A y \in S : x <= y
  BY <1>2
<1> QED BY <1>3 DEF Least

LEMMA PoolFacts ==
    /\ NPools \in Nat \ {0}
    /\ Pools \subseteq Nat
    /\ None \notin Pools
BY RunnerAssumption DEF Pools

LEMMA SlotsType == ASSUME NEW c, NEW n \in Nat PROVE total_slots(c, n) \in Nat
<1> DEFINE All == (0..(n - 1)) \X (1..(SlotCap + 1))
<1>1. IsFiniteSet(All)
  <2>1. IsFiniteSet(0..(n - 1)) /\ IsFiniteSet(1..(SlotCap + 1))
    BY FS_Interval, RunnerAssumption
  <2> QED BY <2>1, FS_Product
<1>2. {s \in All : s[2] <= slots(c, s[1])} \subseteq All
  OBVIOUS
<1>3. IsFiniteSet({s \in All : s[2] <= slots(c, s[1])})
  BY <1>1, <1>2, FS_Subset
<1> QED BY <1>3, FS_CardinalityType DEF total_slots

(* A slot is that of the first pool whose slots reach so far: there is one. *)
LEMMA WeightedType == ASSUME NEW c PROVE weighted(c) \in Seq(Pools)
<1> DEFINE Before == {n \in 0..NPools : n = NPools \/ total_slots(c, n + 1) > SlotCap}
           n == scheduled(c)
<1>1. n \in 0..NPools
  <2>1. NPools \in Before /\ Before \in SUBSET Nat
    BY PoolFacts
  <2>2. Least(Before) \in Before
    BY <2>1, LeastIsMember
  <2> QED BY <2>2 DEF scheduled
<1>2. n \in Nat /\ total_slots(c, n) \in Nat
  BY <1>1, SlotsType, PoolFacts
<1> HIDE DEF n
<1>3. ASSUME NEW k \in 1..total_slots(c, n)
      PROVE  Least({i \in Pools : k <= total_slots(c, i + 1)}) \in Pools
  <2> DEFINE Reach == {i \in Pools : k <= total_slots(c, i + 1)}
  <2>1. n # 0
    <3>1. SUFFICES ASSUME n = 0 PROVE FALSE
      OBVIOUS
    <3>2. {s \in (0..(0 - 1)) \X (1..(SlotCap + 1)) : s[2] <= slots(c, s[1])} = {}
      OBVIOUS
    <3>3. total_slots(c, 0) = 0
      BY <3>2, FS_EmptySet DEF total_slots
    <3> QED BY <1>3, <3>1, <3>3
  <2>2. n - 1 \in Pools /\ (n - 1) + 1 = n
    BY <1>1, <2>1, PoolFacts DEF Pools
  <2>3. n - 1 \in Reach
    BY <1>2, <1>3, <2>2
  <2>4. Reach \in SUBSET Nat
    BY PoolFacts
  <2>5. Least(Reach) \in Reach
    BY <2>3, <2>4, LeastIsMember
  <2> QED BY <2>5
<1> DEFINE Slot(k) == Least({i \in Pools : k <= total_slots(c, i + 1)})
<1>4. weighted(c) = [k \in 1..total_slots(c, n) |-> Slot(k)]
  BY DEF weighted, n
<1>5. \A k \in 1..total_slots(c, n) : Slot(k) \in Pools
  BY <1>3
<1> HIDE DEF Slot
<1> QED BY <1>2, <1>4, <1>5

LEMMA ScheduleType ==
    ASSUME NEW c
    PROVE  new_schedule(c) \in Seq(Pools) /\ Len(new_schedule(c)) \in Nat \ {0}
<1>1. in_order \in Seq(Pools) /\ Len(in_order) = NPools
  BY PoolFacts DEF in_order, Pools
<1>2. weighted(c) \in Seq(Pools)
  BY WeightedType
<1>3. weighted(c) # <<>> => Len(weighted(c)) \in Nat \ {0}
  BY <1>2
<1> QED BY <1>1, <1>2, <1>3, PoolFacts DEF new_schedule

-----------------------------------------------------------------------------
(* What PoolPicker chooses. *)

LEMMA ConfigFacts ==
    ASSUME TypeOK
    PROVE  /\ config.threshold \in Nat \ {0}
           /\ config.cooldown \in Nat \ {0}
           /\ config.max_backoff \in Nat \ {0}
           /\ config.reconnect \in BOOLEAN
           /\ config.unsupported \subseteq Pools
BY RunnerAssumption DEF TypeOK, Suits, ConfigOf, Pools

LEMMA SlotFacts ==
    ASSUME TypeOK
    PROVE  /\ schedule \in Seq(Pools)
           /\ Slots \in Nat \ {0}
           /\ \A p \in Int : p % Slots \in 0..(Slots - 1)
           /\ \A p \in Int, k \in Int : At(p, k) \in Pools
<1>1. schedule \in Seq(Pools) /\ Slots \in Nat \ {0}
  BY ScheduleType DEF TypeOK, Slots
<1>2. \A p \in Int : p % Slots \in 0..(Slots - 1)
  BY <1>1
<1>3. ASSUME NEW p \in Int, NEW k \in Int PROVE At(p, k) \in Pools
  <2>1. (p + k) % Slots \in 0..(Slots - 1)
    BY <1>2
  <2>2. ((p + k) % Slots) + 1 \in 1..Len(schedule)
    BY <1>1, <2>1 DEF Slots
  <2> QED BY <1>1, <2>2 DEF At
<1> QED BY <1>1, <1>2, <1>3

(* pick_next finds a pool that can be tried, or there is none to find. *)
LEMMA Picks ==
    ASSUME TypeOK
    PROVE  /\ pick_next.pool \in Pools \cup {None}
           /\ pick_next.cursor \in 0..(Slots - 1)
           /\ pick_next.pool # None => is_available(pick_next.pool)
           /\ pick_next.pool = None => Tries = {}
<1>1. cursor \in 0..(Slots - 1) /\ cursor \in Int /\ Slots \in Nat \ {0}
  BY SlotFacts DEF TypeOK
<1>2. CASE Sticks
  <2>1. pick_next.pool = active_idx /\ pick_next.cursor = cursor
    BY <1>2 DEF pick_next
  <2> QED BY <1>1, <1>2, <2>1 DEF Sticks, TypeOK
<1>3. CASE ~Sticks /\ Tries = {}
  <2>1. pick_next.pool = None /\ pick_next.cursor = cursor
    BY <1>3 DEF pick_next
  <2> QED BY <1>1, <1>3, <2>1
<1>4. CASE ~Sticks /\ Tries # {}
  <2> DEFINE k == Least(Tries)
  <2>1. k \in Tries
    <3>1. Tries \in SUBSET Nat
      BY <1>1 DEF Tries
    <3> QED BY <1>4, <3>1, LeastIsMember
  <2>2. k \in Int /\ is_available(At(cursor, k))
    BY <1>1, <2>1 DEF Tries
  <2>3. pick_next.pool = At(cursor, k) /\ pick_next.cursor = (cursor + k + 1) % Slots
    BY <1>4 DEF pick_next
  <2> HIDE DEF k
  <2>4. At(cursor, k) \in Pools
    BY <1>1, <2>2, SlotFacts
  <2>5. (cursor + k + 1) % Slots \in 0..(Slots - 1)
    <3>1. cursor + k + 1 \in Int
      BY <1>1, <2>2
    <3> QED BY <3>1, SlotFacts
  <2> QED BY <2>2, <2>3, <2>4, <2>5, PoolFacts
<1> QED BY <1>2, <1>3, <1>4

(* pick_relative gives up only when no slot at all can be used. *)
LEMMA PicksRelative ==
    ASSUME TypeOK, NEW from, NEW step \in {1, -1},
           pick_relative(from, step).pool # None
    PROVE  LET start == Least(Positions(from))
               free == {k \in 1..Slots : is_available(At(start, step * k))}
           IN  /\ start \in Positions(from)
               /\ Least(free) \in free
               /\ \A k \in free : Least(free) <= k
               /\ pick_relative(from, step).pool = At(start, step * Least(free))
               /\ pick_relative(from, step).pool \in Pools
               /\ is_available(pick_relative(from, step).pool)
               /\ pick_relative(from, step).cursor \in 0..(Slots - 1)
<1> DEFINE start == Least(Positions(from))
           free == {k \in 1..Slots : is_available(At(start, step * k))}
           k == Least(free)
<1>1. Positions(from) # {} /\ free # {}
  BY DEF pick_relative
<1>2. Slots \in Nat \ {0} /\ step \in Int
  BY SlotFacts
<1>3. start \in Positions(from) /\ start \in Int
  <2>1. Positions(from) \in SUBSET Nat
    BY <1>2 DEF Positions
  <2>2. start \in Positions(from)
    BY <1>1, <2>1, LeastIsMember
  <2> QED BY <2>1, <2>2
<1>4. k \in free /\ \A j \in free : k <= j
  <2>1. free \in SUBSET Nat
    OBVIOUS
  <2> HIDE DEF free
  <2> QED BY <1>1, <2>1, LeastIsMember
<1>5. k \in Int /\ is_available(At(start, step * k))
  BY <1>2, <1>4
<1>6. /\ pick_relative(from, step).pool = At(start, step * k)
      /\ pick_relative(from, step).cursor = (start + step * k + 1) % Slots
  BY <1>1 DEF pick_relative
<1> HIDE DEF k
<1>7. step * k \in Int /\ start + step * k + 1 \in Int
  BY <1>2, <1>3, <1>5
<1>8. At(start, step * k) \in Pools /\ (start + step * k + 1) % Slots \in 0..(Slots - 1)
  BY <1>3, <1>7, SlotFacts
<1> USE DEF k
<1> QED BY <1>3, <1>4, <1>5, <1>6, <1>8

-----------------------------------------------------------------------------
(* Types. *)

LEMMA TypeInit == Init => TypeOK
<1> SUFFICES ASSUME Init PROVE TypeOK
  OBVIOUS
<1>1. /\ config \in Configs
      /\ config.threshold \in Nat \ {0}
      /\ config.cooldown \in Nat \ {0}
      /\ config.max_backoff \in Nat \ {0}
  BY RunnerAssumption DEF Init, Suits, ConfigOf
<1>2. schedule = new_schedule(config) /\ Slots \in Nat \ {0}
  BY ScheduleType DEF Init, Slots
<1>3. pools \in [Pools -> Runtime]
  BY <1>1 DEF Init, Runtime
<1>4. backoff \in 1..config.max_backoff /\ cursor \in 0..(Slots - 1)
  BY <1>1, <1>2 DEF Init
<1>5. sleep \in 0..Larger(config.max_backoff, config.cooldown)
  BY <1>1 DEF Init, Larger
<1>6. commands \in Seq(UserCommands) /\ sent \in Nat
  BY DEF Init
<1>7. shutdown \in BOOLEAN /\ outage \in BOOLEAN
  BY DEF Init
<1>8. /\ pc \in {"top", "connecting", "session", "sleeping", "stopped"}
      /\ active_idx = None /\ manual_override = None /\ pool_idx = None
  BY DEF Init
<1> QED BY <1>1, <1>2, <1>3, <1>4, <1>5, <1>6, <1>7, <1>8 DEF TypeOK

(* The end of a session, or a failure, with or without reconnecting. *)
LEMMA Ends ==
    ASSUME TypeOK, SleepBackoff \/ (Stop /\ UNCHANGED backoff)
    PROVE  /\ pc' \in {"sleeping", "stopped"}
           /\ sleep' \in 0..Larger(config.max_backoff, config.cooldown)
           /\ backoff' \in 1..config.max_backoff
<1>1. /\ config.cooldown \in Nat \ {0} /\ config.max_backoff \in Nat \ {0}
      /\ backoff \in 1..config.max_backoff
  BY ConfigFacts DEF TypeOK
<1>2. CASE SleepBackoff
  BY <1>1, <1>2 DEF SleepBackoff, Smaller, Larger
<1>3. CASE Stop /\ UNCHANGED backoff
  BY <1>1, <1>3 DEF Stop, Larger
<1> QED BY <1>2, <1>3

LEMMA EndsSession == EndSession => SleepBackoff \/ (Stop /\ UNCHANGED backoff)
BY DEF EndSession

(* A failure is counted, or starts a cooldown and the count anew. *)
LEMMA Counts ==
    ASSUME TypeOK, NEW i \in Pools, count_failure(i)
    PROVE  /\ pools' \in [Pools -> Runtime]
           /\ \A j \in Pools : pools'[j].disabled = pools[j].disabled
<1>1. /\ config.threshold \in Nat \ {0} /\ config.cooldown \in Nat \ {0}
      /\ pools \in [Pools -> Runtime]
  BY ConfigFacts DEF TypeOK
<1>2. pools[i].failures \in 0..(config.threshold - 1)
  BY <1>1 DEF Runtime
<1>3. CASE pools[i].failures + 1 >= config.threshold
  <2>1. pools' = [pools EXCEPT ![i].failures = 0, ![i].cooldown = config.cooldown]
    BY <1>3 DEF count_failure
  <2>2. pools'[i] = [failures |-> 0, cooldown |-> config.cooldown,
                     disabled |-> pools[i].disabled]
    BY <1>1, <2>1 DEF Runtime
  <2>3. pools[i].disabled \in BOOLEAN
    BY <1>1 DEF Runtime
  <2>4. pools'[i] \in Runtime /\ pools'[i].disabled = pools[i].disabled
    BY <1>1, <2>2, <2>3 DEF Runtime
  <2>5. \A j \in Pools \ {i} : pools'[j] = pools[j]
    BY <1>1, <2>1
  <2>6. pools' = [j \in Pools |-> pools'[j]]
    BY <1>1, <2>1
  <2> QED BY <1>1, <2>4, <2>5, <2>6
<1>4. CASE ~(pools[i].failures + 1 >= config.threshold)
  <2>1. pools' = [pools EXCEPT ![i].failures = pools[i].failures + 1]
    BY <1>4 DEF count_failure
  <2> QED BY <1>1, <1>2, <1>4, <2>1 DEF Runtime
<1> QED BY <1>3, <1>4

(* Time passes for the cooldowns and the sleep. *)
LEMMA TickStep == IInv /\ tick => IInv'
<1> SUFFICES ASSUME IInv, tick PROVE IInv'
  OBVIOUS
<1> USE DEF IInv
<1>1. /\ pools' = [i \in Pools |-> [pools[i] EXCEPT !.cooldown = Larger(@ - 1, 0)]]
      /\ sleep' = Larger(sleep - 1, 0)
      /\ UNCHANGED <<pc, cursor, active_idx, manual_override, pool_idx, backoff,
                     commands, sent, config, schedule, shutdown, outage>>
  BY DEF tick, picker, user, world
<1>2. /\ config.cooldown \in Nat \ {0} /\ config.max_backoff \in Nat \ {0}
      /\ pools \in [Pools -> Runtime]
  BY ConfigFacts DEF TypeOK
<1>3. ASSUME NEW i \in Pools
      PROVE  /\ pools'[i] \in Runtime
             /\ pools'[i].disabled = pools[i].disabled
             /\ pools[i].cooldown = 0 => pools'[i].cooldown = 0
  <2>1. /\ pools[i].cooldown \in 0..config.cooldown
        /\ pools[i] \in Runtime
    BY <1>2 DEF Runtime
  <2>2. Larger(pools[i].cooldown - 1, 0) \in 0..config.cooldown
    BY <1>2, <2>1 DEF Larger
  <2>3. pools'[i] = [pools[i] EXCEPT !.cooldown = Larger(pools[i].cooldown - 1, 0)]
    BY <1>1
  <2>4. pools[i].cooldown = 0 => Larger(pools[i].cooldown - 1, 0) = 0
    BY DEF Larger
  <2> QED BY <2>1, <2>2, <2>3, <2>4 DEF Runtime
<1>4. pools' \in [Pools -> Runtime]
  BY <1>1, <1>3
<1>5. sleep' \in 0..Larger(config.max_backoff, config.cooldown)
  BY <1>1, <1>2 DEF Larger, TypeOK
<1>6. TypeOK'
  BY <1>1, <1>4, <1>5 DEF TypeOK, Runtime, Slots
<1>7. OverrideStaysAvailable'
  BY <1>1, <1>3 DEF OverrideStaysAvailable, is_available, TypeOK
<1>8. SessionOnActivePool' /\ UnsupportedIsDisabled'
  BY <1>1, <1>3, ConfigFacts
  DEF SessionOnActivePool, UnsupportedIsDisabled, HasPool, TypeOK
<1>9. HasPool' /\ OverrideWaits'
  BY <1>1 DEF HasPool, OverrideWaits
<1> QED BY <1>6, <1>7, <1>8, <1>9

(* The user and the world leave the loop alone. *)
LEMMA OutsideStep ==
    IInv /\ (user_sends \/ request_shutdown \/ outage_ends) => IInv'
<1> SUFFICES ASSUME IInv, user_sends \/ request_shutdown \/ outage_ends PROVE IInv'
  OBVIOUS
<1>1. UNCHANGED <<pc, pools, cursor, active_idx, manual_override, pool_idx, backoff,
                  sleep, config, schedule>>
  BY DEF user_sends, request_shutdown, outage_ends, picker, user, world
<1>2. /\ commands' \in Seq(UserCommands) /\ sent' \in Nat
      /\ shutdown' \in BOOLEAN /\ outage' \in BOOLEAN
  <2>1. commands \in Seq(UserCommands) /\ sent \in Nat
    BY DEF IInv, TypeOK
  <2>2. shutdown \in BOOLEAN /\ outage \in BOOLEAN
    BY DEF IInv, TypeOK
  <2>3. CASE user_sends
    BY <2>1, <2>2, <2>3 DEF user_sends, world
  <2>4. CASE request_shutdown \/ outage_ends
    <3>1. UNCHANGED user
      BY <2>4 DEF request_shutdown, outage_ends
    <3>2. shutdown' \in BOOLEAN /\ outage' \in BOOLEAN
      BY <2>2, <2>4 DEF request_shutdown, outage_ends
    <3> QED BY <2>1, <3>1, <3>2 DEF user
  <2> QED BY <2>3, <2>4
<1> QED
  BY <1>1, <1>2
  DEF IInv, TypeOK, Runtime, Slots, HasPool, SessionOnActivePool, OverrideWaits,
      OverrideStaysAvailable, is_available, UnsupportedIsDisabled

(* The top of the loop. *)
LEMMA LoopStep == IInv /\ Loop => IInv'
<1> SUFFICES ASSUME IInv, Loop PROVE IInv'
  OBVIOUS
<1> USE DEF IInv
<1>0. /\ config.cooldown \in Nat \ {0} /\ config.max_backoff \in Nat \ {0}
      /\ pools \in [Pools -> Runtime]
  BY ConfigFacts DEF TypeOK
<1>1. CASE leave_loop \/ wake
  <2>1. /\ pc' \in {"top", "stopped"} /\ sleep' = 0
        /\ UNCHANGED <<pools, cursor, active_idx, manual_override, pool_idx, backoff,
                       commands, sent, config, schedule, shutdown, outage>>
    BY <1>1 DEF leave_loop, wake, Stop, picker, user, world
  <2>2. sleep' \in 0..Larger(config.max_backoff, config.cooldown)
    BY <1>0, <2>1 DEF Larger
  <2>3. TypeOK'
    BY <2>1, <2>2 DEF TypeOK, Runtime, Slots
  <2> QED
    BY <2>1, <2>3
    DEF HasPool, SessionOnActivePool, OverrideWaits, OverrideStaysAvailable,
        is_available, UnsupportedIsDisabled
<1>2. ASSUME NEW i \in Pools, is_available(i), Attempt(i), manual_override' = None,
             cursor' \in 0..(Slots - 1)
      PROVE  IInv'
  <2>1. /\ pc' = "connecting" /\ pool_idx' = i
        /\ UNCHANGED <<pools, active_idx, backoff, sleep, commands, sent, config,
                       schedule, shutdown, outage>>
    BY <1>2 DEF Attempt, user, world
  <2>2. TypeOK'
    BY <1>2, <2>1 DEF TypeOK, Runtime, Slots
  <2>3. HasPool' /\ OverrideWaits' /\ OverrideStaysAvailable' /\ UnsupportedIsDisabled'
    BY <1>2, <2>1, PoolFacts
    DEF HasPool, OverrideWaits, OverrideStaysAvailable, UnsupportedIsDisabled
  <2>4. ~pools[i].disabled
    BY <1>2 DEF is_available
  <2>5. i \notin config.unsupported
    BY <2>4 DEF UnsupportedIsDisabled
  <2>6. SessionOnActivePool'
    BY <2>1, <2>4, <2>5 DEF SessionOnActivePool
  <2> QED BY <2>2, <2>3, <2>6
<1>3. CASE attempt_override
  <2>1. manual_override \in Pools /\ cursor \in 0..(Slots - 1)
    BY <1>3 DEF attempt_override, TypeOK
  <2> QED BY <1>2, <1>3, <2>1 DEF attempt_override
<1>4. CASE attempt_picked
  <2>1. /\ pick_next.pool \in Pools /\ is_available(pick_next.pool)
        /\ pick_next.cursor \in 0..(Slots - 1)
    BY <1>4, Picks DEF attempt_picked
  <2> QED BY <1>2, <1>4, <2>1 DEF attempt_picked
<1>5. CASE all_cooling
  <2>1. /\ pc' = "sleeping" /\ manual_override' = None
        /\ sleep' = IF cooldowns = {} THEN 1 ELSE Least(cooldowns)
        /\ cursor' \in {cursor, pick_next.cursor}
        /\ UNCHANGED <<pools, active_idx, pool_idx, backoff, commands, sent, config,
                       schedule, shutdown, outage>>
    BY <1>5 DEF all_cooling, user, world
  <2>2. cooldowns \subseteq 1..config.cooldown
    BY <1>0 DEF cooldowns, Runtime
  <2>3. sleep' \in 0..Larger(config.max_backoff, config.cooldown)
    <3>1. cooldowns \in SUBSET Nat
      BY <1>0, <2>2
    <3>2. cooldowns # {} => Least(cooldowns) \in 1..config.cooldown
      BY <2>2, <3>1, LeastIsMember
    <3> QED BY <1>0, <2>1, <3>2 DEF Larger
  <2>4. cursor' \in 0..(Slots - 1)
    BY <2>1, Picks DEF TypeOK
  <2>5. TypeOK'
    BY <2>1, <2>3, <2>4 DEF TypeOK, Runtime, Slots
  <2> QED
    BY <2>1, <2>5
    DEF HasPool, SessionOnActivePool, OverrideWaits, OverrideStaysAvailable,
        UnsupportedIsDisabled
<1> QED BY <1>1, <1>3, <1>4, <1>5 DEF Loop

(* The attempt: there is no override, and its pool can be used. *)
LEMMA AttemptedStep == IInv /\ Attempted => IInv'
<1> SUFFICES ASSUME IInv, Attempted PROVE IInv'
  OBVIOUS
<1> USE DEF IInv
<1>1. pc = "connecting" /\ pool_idx \in Pools /\ manual_override = None
  BY DEF Attempted, handshake_succeeds, handshake_fails, HasPool, OverrideWaits, TypeOK
<1>2. /\ ~pools[pool_idx].disabled /\ pool_idx \notin config.unsupported
      /\ pools \in [Pools -> Runtime] /\ config.unsupported \subseteq Pools
  BY <1>1, ConfigFacts DEF SessionOnActivePool, TypeOK
<1>3. ASSUME pools' \in [Pools -> Runtime],
             \A j \in Pools : pools'[j].disabled = pools[j].disabled,
             config' = config
      PROVE  UnsupportedIsDisabled'
  BY <1>2, <1>3 DEF UnsupportedIsDisabled
<1>4. CASE handshake_succeeds
  <2>1. /\ pc' = "session" /\ backoff' = 1 /\ active_idx' = pool_idx
        /\ pools' = [pools EXCEPT ![pool_idx].failures = 0, ![pool_idx].cooldown = 0]
        /\ UNCHANGED <<cursor, manual_override, pool_idx, sleep, commands, sent, config,
                       schedule, shutdown, outage>>
    BY <1>4 DEF handshake_succeeds, user, world
  <2>2. /\ config.threshold \in Nat \ {0} /\ config.cooldown \in Nat \ {0}
        /\ config.max_backoff \in Nat \ {0}
    BY ConfigFacts
  <2>3. pools'[pool_idx] = [failures |-> 0, cooldown |-> 0,
                            disabled |-> pools[pool_idx].disabled]
    BY <1>1, <1>2, <2>1 DEF Runtime
  <2>4. pools[pool_idx].disabled \in BOOLEAN
    BY <1>1, <1>2 DEF Runtime
  <2>5. /\ pools'[pool_idx] \in Runtime
        /\ pools'[pool_idx].disabled = pools[pool_idx].disabled
    BY <2>2, <2>3, <2>4 DEF Runtime
  <2>6. \A j \in Pools \ {pool_idx} : pools'[j] = pools[j]
    BY <1>1, <1>2, <2>1
  <2>7. /\ pools' \in [Pools -> Runtime]
        /\ \A j \in Pools : pools'[j].disabled = pools[j].disabled
    <3>1. pools' = [j \in Pools |-> pools'[j]]
      BY <1>2, <2>1
    <3> QED BY <1>2, <2>5, <2>6, <3>1
  <2>8. backoff' \in 1..config.max_backoff
    BY <2>1, <2>2
  <2>9. TypeOK'
    BY <1>1, <2>1, <2>7, <2>8 DEF TypeOK, Runtime, Slots
  <2>10. HasPool' /\ SessionOnActivePool' /\ OverrideWaits' /\ OverrideStaysAvailable'
    BY <1>1, <1>2, <2>1, <2>7, PoolFacts
    DEF HasPool, SessionOnActivePool, OverrideWaits, OverrideStaysAvailable
  <2> QED BY <1>3, <2>1, <2>7, <2>9, <2>10
<1>5. CASE handshake_fails
  <2>1. /\ count_failure(pool_idx)
        /\ SleepBackoff \/ (Stop /\ UNCHANGED backoff)
        /\ UNCHANGED <<cursor, active_idx, manual_override, pool_idx, commands, sent,
                       config, schedule, shutdown, outage>>
    BY <1>5 DEF handshake_fails, picker, user, world
  <2>2. /\ pools' \in [Pools -> Runtime]
        /\ \A j \in Pools : pools'[j].disabled = pools[j].disabled
    BY <1>1, <2>1, Counts
  <2>3. /\ pc' \in {"sleeping", "stopped"}
        /\ sleep' \in 0..Larger(config.max_backoff, config.cooldown)
        /\ backoff' \in 1..config.max_backoff
    BY <2>1, Ends
  <2>4. TypeOK'
    BY <2>1, <2>2, <2>3 DEF TypeOK, Runtime, Slots
  <2>5. HasPool' /\ SessionOnActivePool' /\ OverrideWaits' /\ OverrideStaysAvailable'
    BY <1>1, <2>1, <2>3
    DEF HasPool, SessionOnActivePool, OverrideWaits, OverrideStaysAvailable
  <2> QED BY <1>3, <2>1, <2>2, <2>4, <2>5
<1> QED BY <1>4, <1>5 DEF Attempted

(* The session: only here is a pool disabled, the one in use, and only here *)
(* an override chosen, with which the session ends.                        *)
LEMMA SessionStep ==
    IInv /\ (TakeCommand \/ session_lost \/ submit_fails \/ shutdown_observed) => IInv'
<1> SUFFICES ASSUME IInv, TakeCommand \/ session_lost \/ submit_fails \/ shutdown_observed
             PROVE  IInv'
  OBVIOUS
<1> USE DEF IInv
<1>1. pc = "session" /\ manual_override = None
  BY DEF TakeCommand, switch_pool, toggle_disable, session_lost, submit_fails,
         shutdown_observed, OverrideWaits
<1>2. /\ active_idx = pool_idx /\ active_idx \in Pools /\ ~pools[active_idx].disabled
      /\ active_idx \notin config.unsupported /\ pools \in [Pools -> Runtime]
      /\ config.unsupported \subseteq Pools
  BY <1>1, ConfigFacts DEF SessionOnActivePool, HasPool, TypeOK
<1>3. commands # <<>> => Tail(commands) \in Seq(UserCommands)
  BY DEF TypeOK
<1>4. ASSUME EndSession
      PROVE  /\ pc' \in {"sleeping", "stopped"}
             /\ sleep' \in 0..Larger(config.max_backoff, config.cooldown)
             /\ backoff' \in 1..config.max_backoff
  BY <1>4, Ends, EndsSession
<1>5. CASE session_lost \/ submit_fails \/ shutdown_observed
  <2>1. /\ \/ EndSession
           \/ pc' = "stopped" /\ sleep' = 0 /\ backoff' = backoff
        /\ UNCHANGED <<pools, cursor, active_idx, manual_override, pool_idx, commands,
                       sent, config, schedule, shutdown, outage>>
    BY <1>5 DEF session_lost, submit_fails, shutdown_observed, Stop, picker, user, world
  <2>2. /\ pc' \in {"sleeping", "stopped"}
        /\ sleep' \in 0..Larger(config.max_backoff, config.cooldown)
        /\ backoff' \in 1..config.max_backoff
    <3>1. CASE EndSession
      BY <1>4, <3>1
    <3>2. CASE pc' = "stopped" /\ sleep' = 0 /\ backoff' = backoff
      BY <3>2, Ends DEF Stop
    <3> QED BY <2>1, <3>1, <3>2
  <2>3. TypeOK'
    BY <2>1, <2>2 DEF TypeOK, Runtime, Slots
  <2> QED
    BY <1>1, <2>1, <2>2, <2>3
    DEF HasPool, SessionOnActivePool, OverrideWaits, OverrideStaysAvailable,
        UnsupportedIsDisabled
<1>6. CASE switch_pool
  <2>1. /\ commands' \in Seq(UserCommands)
        /\ UNCHANGED <<pools, active_idx, pool_idx, sent, config, schedule, shutdown,
                       outage>>
        /\ \E step \in {1, -1} : Switch(step)
    BY <1>3, <1>6 DEF switch_pool, world
  <2>2. PICK step \in {1, -1} : Switch(step)
    BY <2>1
  <2>3. CASE active_idx # None /\ pick_relative(active_idx, step).pool # None
    <3>1. /\ manual_override' = pick_relative(active_idx, step).pool
          /\ cursor' = pick_relative(active_idx, step).cursor
          /\ EndSession
      BY <2>2, <2>3 DEF Switch
    <3>2. /\ pick_relative(active_idx, step).pool \in Pools
          /\ is_available(pick_relative(active_idx, step).pool)
          /\ pick_relative(active_idx, step).cursor \in 0..(Slots - 1)
      BY <2>3, PicksRelative
    <3>3. TypeOK'
      BY <1>4, <2>1, <3>1, <3>2 DEF TypeOK, Runtime, Slots
    <3> QED
      BY <1>4, <2>1, <3>1, <3>2, <3>3
      DEF HasPool, SessionOnActivePool, OverrideWaits, OverrideStaysAvailable,
          is_available, UnsupportedIsDisabled
  <2>4. CASE ~(active_idx # None /\ pick_relative(active_idx, step).pool # None)
    <3>1. UNCHANGED <<pc, cursor, manual_override, sleep, backoff>>
      BY <2>2, <2>4 DEF Switch
    <3>2. TypeOK'
      BY <2>1, <3>1 DEF TypeOK, Runtime, Slots
    <3> QED
      BY <1>1, <2>1, <3>1, <3>2
      DEF HasPool, SessionOnActivePool, OverrideWaits, OverrideStaysAvailable,
          UnsupportedIsDisabled
  <2> QED BY <2>3, <2>4
<1>7. CASE toggle_disable
  <2>1. /\ commands' \in Seq(UserCommands)
        /\ UNCHANGED <<cursor, manual_override, pool_idx, sent, config, schedule,
                       shutdown, outage>>
    BY <1>3, <1>7 DEF toggle_disable, world
  <2>2. active_idx # None
    BY <1>2, PoolFacts
  <2>3. pools' = [pools EXCEPT ![active_idx].disabled = TRUE]
    BY <1>2, <1>7, <2>2 DEF toggle_disable
  <2>4. /\ pools' \in [Pools -> Runtime] /\ pools'[active_idx].disabled
        /\ \A j \in Pools \ {active_idx} : pools'[j] = pools[j]
    BY <1>2, <2>3 DEF Runtime
  <2>5. active_idx' = None /\ EndSession
    BY <1>7, <2>2, <2>4 DEF toggle_disable
  <2>6. TypeOK'
    BY <1>4, <2>1, <2>4, <2>5 DEF TypeOK, Runtime, Slots
  <2>7. UnsupportedIsDisabled'
    BY <1>2, <2>1, <2>4 DEF UnsupportedIsDisabled
  <2> QED
    BY <1>1, <1>4, <2>1, <2>5, <2>6, <2>7
    DEF HasPool, SessionOnActivePool, OverrideWaits, OverrideStaysAvailable
<1> QED BY <1>5, <1>6, <1>7 DEF TakeCommand

-----------------------------------------------------------------------------
(* The theorems. *)

LEMMA Initially == Init => IInv
<1> SUFFICES ASSUME Init PROVE IInv
  OBVIOUS
<1>1. config.unsupported \subseteq Pools
  BY TypeInit, ConfigFacts
<1>2. UnsupportedIsDisabled
  BY <1>1 DEF Init, UnsupportedIsDisabled
<1> QED
  BY <1>2, TypeInit
  DEF Init, IInv, HasPool, SessionOnActivePool, OverrideWaits, OverrideStaysAvailable

LEMMA Stuttering == IInv /\ UNCHANGED vars => IInv'
BY DEF vars, picker, user, world, IInv, TypeOK, Runtime, Slots, HasPool,
       SessionOnActivePool, OverrideWaits, OverrideStaysAvailable, is_available,
       UnsupportedIsDisabled

LEMMA Inductively == IInv /\ [Next]_vars => IInv'
BY TickStep, OutsideStep, LoopStep, AttemptedStep, SessionStep, Stuttering
DEF Next, Terminated

LEMMA InvariantHolds == Spec => []IInv
BY Initially, Inductively, PTL DEF Spec

(* The runner's state keeps its types: the cursor stays in the schedule,    *)
(* the backoff between its first value and its largest, and no counter of   *)
(* failures reaches the threshold.                                         *)
THEOREM TypeCorrect == Spec => []TypeOK
BY InvariantHolds, PTL DEF IInv

(* A session of run_with_config runs on the pool that commands act on, and  *)
(* neither it nor an attempt is on a disabled or unsupported pool.          *)
THEOREM SessionsAreOnActivePool == Spec => []SessionOnActivePool
BY InvariantHolds, PTL DEF IInv

(* The pool that manual_override names can be used when the loop reads it.  *)
THEOREM OverridesStayAvailable == Spec => []OverrideStaysAvailable
BY InvariantHolds, PTL DEF IInv

(* A number below n is its own remainder, also one round further on or back. *)
LEMMA Wraps ==
    ASSUME NEW n \in Nat \ {0}, NEW x \in 0..(n - 1)
    PROVE  x % n = x /\ (x + n) % n = x /\ (x - n) % n = x
OBVIOUS

(* pick_next looks at every slot: if all pools have one it finds the pool   *)
(* that can be tried, wherever the cursor is.                              *)
LEMMA FindsAPool ==
    ASSUME AllScheduled, TypeOK, NEW i \in Pools, is_available(i)
    PROVE  pick_next.pool # None
<1>1. PICK p \in DOMAIN schedule : schedule[p] = i
  BY DEF AllScheduled, TypeOK
<1>2. /\ Slots \in Nat \ {0} /\ cursor \in 0..(Slots - 1)
      /\ p \in 1..Slots
  <2>1. cursor \in 0..(Slots - 1)
    BY DEF TypeOK
  <2>2. DOMAIN schedule = 1..Slots
    BY SlotFacts DEF Slots
  <2> QED BY <1>1, <2>1, <2>2, SlotFacts
<1>3. PICK k \in 0..(Slots - 1) : (cursor + k) % Slots = p - 1
  <2>1. CASE cursor <= p - 1
    <3>1. /\ p - 1 - cursor \in 0..(Slots - 1)
          /\ cursor + (p - 1 - cursor) = p - 1
          /\ p - 1 \in 0..(Slots - 1)
      BY <1>2, <2>1
    <3>2. (p - 1) % Slots = p - 1
      BY <1>2, <3>1, Wraps
    <3> QED BY <3>1, <3>2
  <2>2. CASE ~(cursor <= p - 1)
    <3>1. /\ p - 1 - cursor + Slots \in 0..(Slots - 1)
          /\ cursor + (p - 1 - cursor + Slots) = p - 1 + Slots
          /\ p - 1 \in 0..(Slots - 1)
      BY <1>2, <2>2
    <3>2. (p - 1 + Slots) % Slots = p - 1
      BY <1>2, <3>1, Wraps
    <3> QED BY <3>1, <3>2
  <2> QED BY <2>1, <2>2
<1>4. At(cursor, k) = i
  <2>1. (p - 1) + 1 = p
    BY <1>2
  <2> QED BY <1>1, <1>3, <2>1 DEF At
<1>5. k \in Tries
  BY <1>3, <1>4 DEF Tries
<1> QED BY <1>5, Picks

(* The manager says that all pools are cooling down only if they are, as    *)
(* long as the cap on weighted slots leaves no pool out of the schedule.   *)
THEOREM SleepsWithoutPools ==
    ASSUME AllScheduled
    PROVE  Spec => SleepsOnlyWithoutPools
<1>1. ASSUME IInv, [Next]_vars, pc = "top", pc' = "sleeping", NEW i \in Pools,
             is_available(i)
      PROVE  FALSE
  <2>1. all_cooling
    BY <1>1 DEF Next, vars, tick, user_sends, request_shutdown, outage_ends, Loop,
                leave_loop, Stop, attempt_override, attempt_picked, Attempt, wake,
                Attempted, handshake_succeeds, handshake_fails, TakeCommand,
                switch_pool, toggle_disable, session_lost, submit_fails, shutdown_observed,
                Terminated
  <2>2. manual_override = None
    BY <1>1, <2>1 DEF all_cooling, IInv, OverrideStaysAvailable
  <2>3. pick_next.pool = None
    BY <2>1, <2>2 DEF all_cooling
  <2>4. pick_next.pool # None
    BY <1>1, FindsAPool DEF IInv
  <2> QED BY <2>3, <2>4
<1>2. IInv /\ [Next]_vars
        => [pc = "top" /\ pc' = "sleeping" => \A i \in Pools : ~is_available(i)]_vars
  BY <1>1
<1> QED BY <1>2, InvariantHolds, PTL DEF Spec, SleepsOnlyWithoutPools

(* Every pool takes at least one slot. *)
LEMMA SlotsGrow ==
    ASSUME NEW c \in Configs, NEW m \in 0..NPools, NEW n \in 0..NPools, m < n
    PROVE  total_slots(c, m) < total_slots(c, n)
<1> DEFINE Taken(k) == {s \in (0..(k - 1)) \X (1..(SlotCap + 1)) : s[2] <= slots(c, s[1])}
           T(k) == total_slots(c, k)
<1>1. m \in Nat /\ n \in Nat /\ m \in 0..(n - 1) /\ m \notin 0..(m - 1)
  BY PoolFacts
<1>2. 1 <= slots(c, m)
  <2>1. m \in Pools
    BY <1>1, PoolFacts DEF Pools
  <2>2. c.weight[m] \in Nat \ {0}
    BY <2>1, RunnerAssumption, SMT DEF Suits, ConfigOf, Pools
  <2> QED BY <2>2 DEF slots, Larger
<1>3. 1 \in 1..(SlotCap + 1)
  BY RunnerAssumption
<1>4. IsFiniteSet(Taken(n))
  <2>1. IsFiniteSet(0..(n - 1)) /\ IsFiniteSet(1..(SlotCap + 1))
    BY <1>1, FS_Interval, RunnerAssumption
  <2>2. IsFiniteSet((0..(n - 1)) \X (1..(SlotCap + 1)))
    BY <2>1, FS_Product
  <2>3. Taken(n) \subseteq (0..(n - 1)) \X (1..(SlotCap + 1))
    OBVIOUS
  <2> QED BY <2>2, <2>3, FS_Subset
<1>5. <<m, 1>> \in Taken(n) /\ <<m, 1>> \notin Taken(m)
  BY <1>1, <1>2, <1>3
<1>6. Taken(m) \subseteq Taken(n)
  BY <1>1
<1>7. T(m) = Cardinality(Taken(m)) /\ T(n) = Cardinality(Taken(n))
  BY DEF total_slots
<1>8. T(m) \in Nat /\ T(n) \in Nat
  BY <1>1, SlotsType
<1> HIDE DEF Taken, T
<1>9. /\ Cardinality(Taken(m)) <= Cardinality(Taken(n))
      /\ Cardinality(Taken(m)) # Cardinality(Taken(n))
  BY <1>4, <1>5, <1>6, FS_Subset
<1>10. T(m) < T(n)
  BY <1>7, <1>8, <1>9
<1> QED BY <1>10 DEF T

(* Unless the weights pass the cap every pool has a slot: the assumption of *)
(* SleepsWithoutPools holds.                                               *)
LEMMA WithinTheCap ==
    ASSUME \A c \in Configs :
               c.strategy = "weighted" => total_slots(c, NPools) <= SlotCap
    PROVE  AllScheduled
<1> SUFFICES ASSUME NEW c \in Configs, NEW i \in Pools
             PROVE  \E p \in DOMAIN new_schedule(c) : new_schedule(c)[p] = i
  BY DEF AllScheduled
<1> DEFINE T(n) == total_slots(c, n)
<1>1. \A n \in 0..NPools : T(n) \in Nat
  BY SlotsType
<1>2. \A m, n \in 0..NPools : m < n => T(m) < T(n)
  BY SlotsGrow
<1>3. CASE new_schedule(c) = in_order
  <2>1. i + 1 \in 1..NPools /\ (i + 1) - 1 = i
    BY PoolFacts DEF Pools
  <2> QED BY <1>3, <2>1 DEF in_order
<1>4. CASE new_schedule(c) # in_order
  <2>1. new_schedule(c) = weighted(c) /\ T(NPools) <= SlotCap
    BY <1>4 DEF new_schedule
  <2>2. scheduled(c) = NPools
    <3> DEFINE Before == {n \in 0..NPools : n = NPools \/ T(n + 1) > SlotCap}
    <3>1. ASSUME NEW n \in 0..NPools, n # NPools
          PROVE  ~(T(n + 1) > SlotCap)
      <4>1. n + 1 \in 0..NPools /\ NPools \in 0..NPools /\ SlotCap \in Nat
        BY <3>1, PoolFacts, RunnerAssumption
      <4>2. n + 1 = NPools \/ n + 1 < NPools
        BY <3>1, PoolFacts
      <4> HIDE DEF T
      <4> QED BY <1>1, <1>2, <2>1, <4>1, <4>2
    <3>2. NPools \in Before /\ Before \in SUBSET Nat
      BY PoolFacts
    <3>3. Least(Before) \in Before
      BY <3>2, LeastIsMember
    <3>4. Least(Before) = NPools
      BY <3>1, <3>3
    <3> QED BY <3>4 DEF scheduled
  <2> DEFINE k == T(i + 1)
             Reach == {j \in Pools : k <= T(j + 1)}
             Slot(q) == Least({j \in Pools : q <= T(j + 1)})
  <2>3. weighted(c) = [q \in 1..T(NPools) |-> Slot(q)]
    BY <2>2 DEF weighted
  <2>4. \A j \in Pools : j \in Nat /\ j + 1 \in 0..NPools /\ 0 < j + 1
    BY PoolFacts DEF Pools
  <2>5. k \in 1..T(NPools)
    <3>1. 0 \in 0..NPools /\ NPools \in 0..NPools
      BY PoolFacts
    <3>2. i + 1 = NPools \/ i + 1 < NPools
      BY <2>4, PoolFacts
    <3> HIDE DEF T
    <3> QED BY <1>1, <1>2, <2>4, <3>1, <3>2
  <2>6. Slot(k) = i
    <3>1. i \in Reach
      BY <1>1, <2>4
    <3>2. Reach \in SUBSET Nat
      BY PoolFacts
    <3> DEFINE l == Least(Reach)
    <3>3. l \in Reach /\ l <= i
      BY <3>1, <3>2, LeastIsMember
    <3> HIDE DEF l
    <3>4. l \in Pools /\ k <= T(l + 1)
      BY <3>3
    <3> HIDE DEF T
    <3>5. ~(l + 1 < i + 1)
      BY <1>1, <1>2, <2>4, <3>4
    <3>6. l = i
      BY <2>4, <3>3, <3>4, <3>5
    <3> QED BY <3>6 DEF l
  <2> HIDE DEF Slot, k, T
  <2>7. k \in DOMAIN weighted(c) /\ weighted(c)[k] = i
    BY <2>3, <2>5, <2>6
  <2> QED BY <2>1, <2>7
<1> QED BY <1>3, <1>4

(* Without weights a place of the schedule is the pool's index, and the     *)
(* last place that pick_relative tries is the one it starts from.           *)
LEMMA LeavesPool ==
    ASSUME TypeOK, config.strategy # "weighted", NEW step \in {1, -1},
           active_idx \in Pools, pick_relative(active_idx, step).pool = active_idx,
           NEW i \in Pools \ {active_idx}
    PROVE  ~is_available(i)
<1> DEFINE N == NPools
           a == active_idx
           start == Least(Positions(a))
           free == {k \in 1..Slots : is_available(At(start, step * k))}
<1>1. N \in Nat \ {0} /\ a \in 0..(N - 1) /\ i \in 0..(N - 1) /\ i # a
  BY PoolFacts DEF Pools
<1>2. schedule = [k \in 1..N |-> k - 1] /\ Slots = N
  <2>1. schedule = [k \in 1..N |-> k - 1]
    BY DEF TypeOK, new_schedule, in_order
  <2>2. Len([k \in 1..N |-> k - 1]) = N
    BY <1>1
  <2> QED BY <2>1, <2>2 DEF Slots
<1>3. ASSUME NEW p \in Int, NEW k \in Int PROVE At(p, k) = (p + k) % N
  <2>1. (p + k) % N \in 0..(N - 1)
    BY <1>1
  <2>2. ((p + k) % N) + 1 \in 1..N /\ (((p + k) % N) + 1) - 1 = (p + k) % N
    BY <1>1, <2>1
  <2> QED BY <1>2, <2>2 DEF At
<1>4. /\ start \in Positions(a) /\ Least(free) \in free
      /\ \A k \in free : Least(free) <= k
      /\ a = At(start, step * Least(free))
  <2>1. pick_relative(a, step).pool # None
    BY PoolFacts
  <2> QED BY <2>1, PicksRelative
<1>5. start = a
  <2>1. start \in 0..(N - 1) /\ At(start, 0) = a
    BY <1>2, <1>4 DEF Positions
  <2>2. (start + 0) % N = start
    BY <1>1, <2>1
  <2> QED BY <1>3, <2>1, <2>2
<1> HIDE DEF start
<1>6. Least(free) \in 1..N /\ (a + step * Least(free)) % N = a
  <2>1. Least(free) \in 1..N
    BY <1>2, <1>4
  <2> HIDE DEF free
  <2>2. step * Least(free) \in Int /\ a \in Int
    BY <1>1, <2>1
  <2> QED BY <1>3, <1>4, <1>5, <2>1, <2>2
<1>7. Least(free) = N
  <2> DEFINE k == Least(free)
  <2> HIDE DEF k
  <2>1. k \in 1..N /\ (a + step * k) % N = a
    BY <1>6 DEF k
  <2>2. CASE step = 1 /\ a + k < N
    <3>1. (a + k) % N = a + k
      BY <1>1, <2>1, <2>2
    <3> QED BY <1>1, <2>1, <2>2, <3>1
  <2>3. CASE step = 1 /\ a + k >= N
    <3>1. (a + k) % N = a + k - N
      BY <1>1, <2>1, <2>3
    <3>2. k = N
      BY <1>1, <2>1, <2>3, <3>1
    <3> QED BY <3>2 DEF k
  <2>4. CASE step = -1 /\ k <= a
    <3>1. (a - k) % N = a - k /\ a + (-1) * k = a - k
      BY <1>1, <2>1, <2>4
    <3> QED BY <1>1, <2>1, <2>4, <3>1
  <2>5. CASE step = -1 /\ k > a
    <3>1. (a - k) % N = a - k + N /\ a + (-1) * k = a - k
      BY <1>1, <2>1, <2>5
    <3>2. k = N
      BY <1>1, <2>1, <2>5, <3>1
    <3> QED BY <3>2 DEF k
  <2> QED BY <1>1, <2>1, <2>2, <2>3, <2>4, <2>5
<1>8. PICK k \in 1..(N - 1) : (a + step * k) % N = i
  <2>1. CASE step = 1 /\ a < i
    <3>1. i - a \in 1..(N - 1) /\ (a + 1 * (i - a)) % N = i
      BY <1>1, <2>1
    <3> QED BY <2>1, <3>1
  <2>2. CASE step = 1 /\ i < a
    <3>1. i - a + N \in 1..(N - 1) /\ a + 1 * (i - a + N) = i + N
      BY <1>1, <2>2
    <3>2. (i + N) % N = i
      BY <1>1, Wraps
    <3> QED BY <2>2, <3>1, <3>2
  <2>3. CASE step = -1 /\ i < a
    <3>1. a - i \in 1..(N - 1) /\ a + (-1) * (a - i) = i
      BY <1>1, <2>3
    <3>2. i % N = i
      BY <1>1, Wraps
    <3> QED BY <2>3, <3>1, <3>2
  <2>4. CASE step = -1 /\ a < i
    <3>1. a - i + N \in 1..(N - 1) /\ a + (-1) * (a - i + N) = i - N
      BY <1>1, <2>4
    <3>2. (i - N) % N = i
      BY <1>1, Wraps
    <3> QED BY <2>4, <3>1, <3>2
  <2> QED BY <1>1, <2>1, <2>2, <2>3, <2>4
<1>9. At(start, step * k) = i
  <2>1. step * k \in Int /\ a \in Int
    BY <1>1, <1>8
  <2> QED BY <1>3, <1>5, <1>8, <2>1
<1>10. k \notin free
  <2>1. k < N /\ k \in Int
    BY <1>1, <1>8
  <2> QED BY <1>1, <1>4, <1>7, <2>1
<1>11. k \in 1..Slots
  BY <1>1, <1>2, <1>8
<1> QED BY <1>9, <1>10, <1>11

(* A switch goes to another pool if one can be used, unless the schedule is *)
(* weighted.                                                               *)
THEOREM SwitchesLeave == Spec => SwitchLeavesPool
<1>1. ASSUME IInv, [Next]_vars, config.strategy # "weighted",
             manual_override' \notin {None, manual_override},
             manual_override' = active_idx, NEW i \in Pools \ {active_idx}
      PROVE  ~is_available(i)
  <2>1. switch_pool
    BY <1>1 DEF Next, vars, picker, tick, user_sends, request_shutdown, outage_ends,
                Loop, leave_loop, attempt_override, attempt_picked, all_cooling, wake,
                Attempted, handshake_succeeds, handshake_fails, TakeCommand,
                toggle_disable, session_lost, submit_fails, Stop, shutdown_observed,
                Terminated
  <2>2. PICK step \in {1, -1} : Switch(step)
    BY <2>1 DEF switch_pool
  <2>3. /\ active_idx # None
        /\ manual_override' = pick_relative(active_idx, step).pool
    BY <1>1, <2>2 DEF Switch
  <2>4. active_idx \in Pools /\ TypeOK
    BY <1>1, <2>3 DEF IInv, TypeOK
  <2> QED BY <1>1, <2>3, <2>4, LeavesPool
<1>2. IInv /\ [Next]_vars
        => [config.strategy # "weighted" /\ manual_override' \notin {None, manual_override}
              => \/ manual_override' # active_idx
                 \/ \A i \in Pools \ {active_idx} : ~is_available(i)]_vars
  BY <1>1
<1> QED BY <1>2, InvariantHolds, PTL DEF Spec, SwitchLeavesPool
=============================================================================
