---------------------------- MODULE NonceSearch ----------------------------
(***************************************************************************)
(* The search of mine_job (miner/mod.rs): the threads of one NewJob, from  *)
(* the command to the end of their epoch.                                  *)
(*                                                                         *)
(* Each thread hashes headers of its own stride of nonces: it starts at    *)
(* its index and adds the number of threads, wrapping at 2^32.  When the   *)
(* nonce wraps, the thread moves on to the next extranonce2, a counter     *)
(* printed as hex digits, and with it to another merkle root.  Threads do  *)
(* not wait for each other: one may be an extranonce2 ahead.               *)
(*                                                                         *)
(* Two extranonce2 are the same bytes iff they have the same value and     *)
(* length, and sha256 is taken to be injective, so that a merkle root is   *)
(* modelled by the extranonce2 it was computed with.  What one job does to *)
(* the channels, the worker and the epoch is that of Miner, which this     *)
(* module implements.  The hash counters of the metrics are left out.      *)
(***************************************************************************)
EXTENDS Target, Sequences, FiniteSets

CONSTANTS NThreads,    \* mining threads of a job
          NonceSpace,  \* number of nonces (2^32)
          HexBase,     \* 16
          Hash(_, _),  \* the hash of a header, given merkle root and nonce
          Works,       \* what the NewJob command can carry
          JobCap,      \* capacity of the command channel (32)
          ResultCap,   \* capacity of the result channel (32)
          Sampled,     \* bound: difficulties that one is compared with
          MaxCounter   \* bound: the last extranonce2 counter searched

ASSUME SearchAssumption ==
    /\ NThreads \in Nat \ {0}
    /\ NonceSpace \in Nat
    /\ NThreads < NonceSpace
    /\ HexBase \in Nat \ {0, 1}
    /\ \A k \in 0..(MaxCounter + 1) : HexBase^k \in Nat
    /\ \A w \in Works : /\ w.size \in Nat
                        /\ w.decodes \in BOOLEAN
                        /\ w.difficulty \in Int \cup {NonFinite}
                        /\ \A c \in 0..MaxCounter, n \in 0..(NonceSpace - 1) :
                              Hash([value |-> c, digits |-> 2 * w.size], n) \in Nat
    /\ Sampled \subseteq Int
    /\ JobCap \in Nat \ {0}
    /\ ResultCap \in Nat \ {0}
    /\ MaxCounter \in Nat

Threads == 0..(NThreads - 1)

Nonce == 0..(NonceSpace - 1)

VARIABLES
    phase,        \* the NewJob: "idle", "sent", "mining", "stopping", "over"
    work,         \* what it carries
    pc,           \* a thread: "off", "loop", "found" or "done"
    nonce,
    counter,      \* extranonce2_counter
    extranonce2,  \* the counter as it is printed
    merkle_root,  \* the extranonce2 the root in use was computed with
    results,      \* the result channel
    result_open,  \* the manager still holds miner_rx
    hashed        \* history: the headers hashed so far

search == <<nonce, counter, extranonce2, merkle_root>>

vars == <<phase, work, pc, search, results, result_open, hashed>>

-----------------------------------------------------------------------------
(* extranonce2. *)

(* One digit, and one more for each power of the base up to n. *)
Digits(n) == 1 + Cardinality({k \in 1..n : HexBase^k <= n})

(* format!("{:0width$x}", n, width = extranonce2_size * 2). *)
printed(n) == [value |-> n, digits |-> Larger(2 * work.size, Digits(n))]

(* hex::decode refuses an odd number of digits. *)
hex_decodes(e) == e.digits % 2 = 0

(* Mutant: the merkle root is not computed again. *)
keep_old_root(e, old) == old

(* compute_merkle_root_for, whose error leaves the old root in use. *)
merkle_root_for(e, old) == IF hex_decodes(e) THEN e ELSE old

(* The counter still prints in the extranonce2_size that the pool gave. *)
WithinSize(n) == Digits(n) <= 2 * work.size

(* mine_job hashes nothing: unknown algorithm, ill-formed fields, or an     *)
(* extranonce2 of no bytes, which prints as one digit.                     *)
Mineable(w) ==
    /\ is_supported(w.algorithm)
    /\ w.decodes
    /\ w.size > 0

(* Mutant: the strides start at 1. *)
nonce_start_from_one(t) == t + 1

nonce_start(t) == t

-----------------------------------------------------------------------------
Init ==
    /\ phase = "idle"
    /\ work \in Works
    /\ pc = [t \in Threads |-> "off"]
    /\ nonce = [t \in Threads |-> nonce_start(t)]
    /\ counter = [t \in Threads |-> 0]
    /\ extranonce2 = [t \in Threads |-> printed(0)]
    /\ merkle_root = [t \in Threads |-> printed(0)]
    /\ results = <<>>
    /\ result_open = TRUE
    /\ hashed = {}

(* The manager sends the job, and later ends its epoch with another command. *)
send_job ==
    /\ phase = "idle"
    /\ result_open
    /\ phase' = "sent"
    /\ UNCHANGED <<work, pc, search, results, result_open, hashed>>

send_stop ==
    /\ phase = "mining"
    /\ result_open
    /\ phase' = "stopping"
    /\ UNCHANGED <<work, pc, search, results, result_open, hashed>>

recv_result ==
    /\ results # <<>>
    /\ results' = Tail(results)
    /\ UNCHANGED <<phase, work, pc, search, result_open, hashed>>

drop_channels ==
    /\ result_open
    /\ result_open' = FALSE
    /\ results' = <<>>
    /\ UNCHANGED <<phase, work, pc, search, hashed>>

(* run_worker takes the NewJob: the threads start, or return at once. *)
worker_new_job ==
    /\ phase = "sent"
    /\ phase' = "mining"
    /\ pc' = [t \in Threads |-> IF Mineable(work) THEN "loop" ELSE "off"]
    /\ UNCHANGED <<work, search, results, result_open, hashed>>

worker_stop ==
    /\ phase = "stopping"
    /\ phase' = "over"
    /\ UNCHANGED <<work, pc, search, results, result_open, hashed>>

-----------------------------------------------------------------------------
(* One iteration of the loop of mine_job. *)

(* Mutant: all threads step by one. *)
add_one(n) == IF n + 1 < NonceSpace THEN n + 1 ELSE 0

(* u32::wrapping_add of the number of threads, which is less than 2^32. *)
wrapping_add_step(n) ==
    IF n + NThreads < NonceSpace THEN n + NThreads ELSE n + NThreads - NonceSpace

(* The next nonce of the stride and, when it wraps, the next extranonce2. *)
Advance(t) ==
    LET next == wrapping_add_step(nonce[t])
        wrapped == next < nonce[t]
        e == printed(counter[t] + 1)
    IN  /\ nonce' = [nonce EXCEPT ![t] = next]
        /\ IF wrapped
           THEN /\ counter' = [counter EXCEPT ![t] = @ + 1]
                /\ extranonce2' = [extranonce2 EXCEPT ![t] = e]
                /\ merkle_root' = [merkle_root EXCEPT ![t] = merkle_root_for(e, @)]
           ELSE UNCHANGED <<counter, extranonce2, merkle_root>>

Header(t) == [root |-> merkle_root[t], nonce |-> nonce[t]]

Share(t) ==
    meets_target(Hash(merkle_root[t], nonce[t]),
                 difficulty_to_target_for_algorithm(work.difficulty, work.algorithm))

Hashing(t) ==
    /\ pc[t] = "loop"
    /\ counter[t] <= MaxCounter
    /\ hashed' = hashed \cup {Header(t)}
    /\ UNCHANGED <<phase, work, results, result_open>>

(* The header is no share. *)
task_miss(t) ==
    /\ Hashing(t)
    /\ ~Share(t)
    /\ Advance(t)
    /\ UNCHANGED pc

(* The header is a share: it is reported before the search goes on. *)
task_find(t) ==
    /\ Hashing(t)
    /\ Share(t)
    /\ pc' = [pc EXCEPT ![t] = "found"]
    /\ UNCHANGED search

NonceFound(t) ==
    [extranonce2 |-> extranonce2[t], nonce |-> nonce[t], difficulty |-> work.difficulty]

(* Mutant: the report does not wait for room. *)
task_send_at_once(t) ==
    /\ pc[t] = "found"
    /\ results' = IF result_open THEN Append(results, NonceFound(t)) ELSE results
    /\ pc' = [pc EXCEPT ![t] = "loop"]
    /\ Advance(t)
    /\ UNCHANGED <<phase, work, result_open, hashed>>

(* blocking_send waits for room; its error, the manager being gone, is      *)
(* ignored.                                                                *)
task_send(t) ==
    /\ pc[t] = "found"
    /\ \/ /\ result_open
          /\ Len(results) < ResultCap
          /\ results' = Append(results, NonceFound(t))
       \/ /\ ~result_open
          /\ UNCHANGED results
    /\ pc' = [pc EXCEPT ![t] = "loop"]
    /\ Advance(t)
    /\ UNCHANGED <<phase, work, result_open, hashed>>

(* The load of the epoch returns another one. *)
task_stop(t) ==
    /\ phase = "over"
    /\ pc[t] = "loop"
    /\ pc' = [pc EXCEPT ![t] = "done"]
    /\ UNCHANGED <<phase, work, search, results, result_open, hashed>>

-----------------------------------------------------------------------------
Manager == send_job \/ send_stop \/ recv_result \/ drop_channels

Worker == worker_new_job \/ worker_stop

Task(t) == task_miss(t) \/ task_find(t) \/ task_send(t) \/ task_stop(t)

(* The threads have returned, or go on beyond the bound; no command is on   *)
(* its way.                                                                *)
BeyondBound ==
    /\ phase \notin {"sent", "stopping"}
    /\ \A t \in Threads :
          \/ pc[t] \in {"off", "done"}
          \/ pc[t] = "loop" /\ phase # "over" /\ counter[t] > MaxCounter
    /\ UNCHANGED vars

Next == Manager \/ Worker \/ (\E t \in Threads : Task(t)) \/ BeyondBound

Spec == Init /\ [][Next]_vars

(***************************************************************************)
(* The miner of which this is one job.  Its work is bad if it cannot be    *)
(* mined, a thread's position in the search is left out, and a report is   *)
(* the work it comes from.                                                 *)
(***************************************************************************)
MinerCommands ==
    CASE phase = "sent" -> <<[cmd |-> "NewJob", work |-> work]>>
      [] phase = "stopping" -> <<[cmd |-> "Stop"]>>
      [] OTHER -> <<>>

MinerEpoch ==
    CASE phase \in {"idle", "sent"} -> 0
      [] phase \in {"mining", "stopping"} -> 1
      [] OTHER -> 2

MinerSlot ==
    IF phase \in {"mining", "stopping"}
    THEN [cmd |-> "NewJob", work |-> work]
    ELSE [cmd |-> "Stop"]

MinerTask(t) == [ep |-> 1, th |-> t, work |-> work, pc |-> pc[t]]

MinerTasks == {MinerTask(t) : t \in {u \in Threads : pc[u] \in {"loop", "found"}}}

MinerReports == [i \in DOMAIN results |-> work]

M == INSTANCE Miner WITH
        Work <- Works,
        BadWork <- {w \in Works : ~Mineable(w)},
        MaxCommands <- 2,
        job_ch <- MinerCommands,
        job_open <- result_open,
        worker <- "running",
        epoch <- MinerEpoch,
        slot <- MinerSlot,
        tasks <- MinerTasks,
        result_ch <- MinerReports

(* The search implements the miner: a header that is no share is a step     *)
(* that Miner does not see.                                                *)
ImplementsMiner == M!OpenSpec

-----------------------------------------------------------------------------
Extranonce2 == [value : Nat, digits : Nat]

TypeOK ==
    /\ phase \in {"idle", "sent", "mining", "stopping", "over"}
    /\ work \in Works
    /\ pc \in [Threads -> {"off", "loop", "found", "done"}]
    /\ nonce \in [Threads -> Nonce]
    /\ counter \in [Threads -> Nat]
    /\ extranonce2 = [t \in Threads |-> printed(counter[t])]
    /\ merkle_root \in [Threads -> Extranonce2]
    /\ results \in Seq([extranonce2 : Extranonce2, nonce : Nonce,
                        difficulty : {work.difficulty}])
    /\ Len(results) <= ResultCap
    /\ result_open \in BOOLEAN
    /\ hashed \subseteq [root : Extranonce2, nonce : Nonce]

(***************************************************************************)
(* No header is hashed twice: what a thread is about to hash is new.  The  *)
(* strides are disjoint, also across the wrap, where a thread may be a     *)
(* whole extranonce2 ahead of another and where, with a number of threads  *)
(* that does not divide 2^32, the threads trade strides.  It ends with the *)
(* first thread beyond the size of extranonce2: that one goes on with the  *)
(* last root, whose nonces the others may not have come to yet.            *)
(***************************************************************************)
AllWithinSize == \A t \in Threads : WithinSize(counter[t])

NoHeaderTwice ==
    AllWithinSize =>
        \A t \in Threads : pc[t] = "loop" => Header(t) \notin hashed

(***************************************************************************)
(* No nonce is skipped: once all threads have moved on from an extranonce2 *)
(* every nonce was hashed with it.                                         *)
(***************************************************************************)
NoNonceSkipped ==
    \A c \in 0..MaxCounter :
        WithinSize(c) /\ (\A t \in Threads : counter[t] > c)
            => \A n \in Nonce : [root |-> printed(c), nonce |-> n] \in hashed

(***************************************************************************)
(* A pool that rebuilds the header from a report, its fields in the order  *)
(* of the code's, finds the hash it asked for: the extranonce2 has the     *)
(* size it gave, is the one that was hashed, and the hash has the          *)
(* difficulty of the work, less half a step for the rounding, as long as   *)
(* the target fits in 256 bits and the difficulty, in steps, in 128.       *)
(***************************************************************************)
PoolVerifies(r) ==
    /\ r.extranonce2.digits = 2 * work.size
    /\ \/ ~is_finite(work.difficulty)
       \/ work.difficulty <= 0
       \/ ~Fits(work.difficulty, work.algorithm)
       \/ scaled(work.difficulty) = MaxScaled
       \/ HasDifficulty(Hash(r.extranonce2, r.nonce), work.difficulty, work.algorithm, 1)

ReportsVerify ==
    \A i \in DOMAIN results :
        WithinSize(results[i].extranonce2.value) => PoolVerifies(results[i])

-----------------------------------------------------------------------------
(* The difficulty of the work has a target. *)
Targeted == is_supported(work.algorithm) /\ is_finite(work.difficulty)

(***************************************************************************)
(* The target is the largest hash that has the difficulty of the work, to  *)
(* half a step of the fixed point: neither shares the pool refuses are     *)
(* reported nor shares it would take passed over.                          *)
(***************************************************************************)
TargetIsTight == Targeted => Tight(work.difficulty, work.algorithm)

(***************************************************************************)
(* A share that decide_share_submit still lets through when the pool has   *)
(* raised the difficulty was found one step of the fixed point below it,   *)
(* at most.                                                                *)
(***************************************************************************)
SubmittedShareIsClose ==
    \A required \in Sampled :
        decide_share_submit(0, work.difficulty, 0, required) = "submit"
            => scaled(work.difficulty) >= scaled(required) - 1
=============================================================================
