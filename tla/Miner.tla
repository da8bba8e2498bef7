------------------------------- MODULE Miner -------------------------------
(***************************************************************************)
(* The miner worker of miner/mod.rs and the two bounded channels that tie  *)
(* it to the manager.                                                      *)
(*                                                                         *)
(* run_worker is an async task that reads MinerCommands.  Every command    *)
(* bumps a shared epoch; NewJob also spawns one blocking mining task per   *)
(* thread, which captures the new epoch and hashes while a Relaxed load of *)
(* the epoch still returns it.  A task that finds a nonce reports it with  *)
(* blocking_send, and so waits while the result channel is full.           *)
(*                                                                         *)
(* A `work' is what one NewJob carries.  The nonce search itself (which    *)
(* nonces are tried, in which order) is left out: a mining task may or may *)
(* not find a nonce in an iteration, and an iteration that finds none is a *)
(* stuttering step.  NonceFound is modelled by the work it comes from.     *)
(***************************************************************************)
EXTENDS Integers, Sequences

CONSTANTS Threads,      \* the mining threads of one job (0..threads-1)
          Work,         \* what a NewJob command can carry
          BadWork,      \* work whose header, merkle root or algorithm fails
          JobCap,       \* capacity of the command channel (32)
          ResultCap,    \* capacity of the result channel (32)
          MaxCommands   \* bound: commands the environment sends

ASSUME MinerAssumption ==
    /\ Threads # {}
    /\ BadWork \subseteq Work
    /\ JobCap \in Nat \ {0}
    /\ ResultCap \in Nat \ {0}
    /\ MaxCommands \in Nat

VARIABLES
    job_ch,       \* commands sent and not yet received, oldest first
    job_open,     \* the manager still holds job_tx
    worker,       \* run_worker: "running" or "exited"
    epoch,        \* the shared AtomicU64
    slot,         \* the last command run_worker executed (Stop at the start)
    tasks,        \* the mining tasks that have not returned
    result_ch,    \* nonces reported and not yet received, oldest first
    result_open   \* the manager still holds miner_rx

vars == <<job_ch, job_open, worker, epoch, slot, tasks, result_ch, result_open>>

Stop == [cmd |-> "Stop"]

NewJob(w) == [cmd |-> "NewJob", work |-> w]

Command == {Stop} \cup {NewJob(w) : w \in Work}

Task == [ep : Nat, th : Threads, work : Work, pc : {"loop", "found"}]

Init ==
    /\ job_ch = <<>>
    /\ job_open = TRUE
    /\ worker = "running"
    /\ epoch = 0
    /\ slot = Stop
    /\ tasks = {}
    /\ result_ch = <<>>
    /\ result_open = TRUE

-----------------------------------------------------------------------------
(* The manager's side of the channels. *)

(* job_tx.send(c).await completes: it waits while the channel is full. *)
send_command(c) ==
    /\ job_open
    /\ Len(job_ch) < JobCap
    /\ job_ch' = Append(job_ch, c)
    /\ UNCHANGED <<job_open, worker, epoch, slot, tasks, result_ch, result_open>>

(* miner_rx.recv() returns the oldest report. *)
recv_result ==
    /\ result_open
    /\ result_ch # <<>>
    /\ result_ch' = Tail(result_ch)
    /\ UNCHANGED <<job_ch, job_open, worker, epoch, slot, tasks, result_open>>

(* drop(job_tx): commands already sent are still received. *)
drop_job_tx ==
    /\ job_open
    /\ job_open' = FALSE
    /\ UNCHANGED <<job_ch, worker, epoch, slot, tasks, result_ch, result_open>>

(* run_with_config returns: both channel ends of the manager are dropped. *)
drop_channels ==
    /\ result_open
    /\ job_open' = FALSE
    /\ result_open' = FALSE
    /\ result_ch' = <<>>
    /\ UNCHANGED <<job_ch, worker, epoch, slot, tasks>>

-----------------------------------------------------------------------------
(* run_worker. *)

(* The tasks one NewJob spawns.  mine_job returns at once, without hashing, *)
(* when the algorithm is unsupported or the job's hex fields do not decode. *)
Spawned(e, w) ==
    IF w \in BadWork THEN {}
    ELSE [ep : {e}, th : Threads, work : {w}, pc : {"loop"}]

NextEpoch == epoch + 1

(* Mutant: a Stop that leaves the epoch alone. *)
StopWithoutBump ==
    /\ worker = "running"
    /\ job_ch # <<>>
    /\ Head(job_ch) = Stop
    /\ job_ch' = Tail(job_ch)
    /\ slot' = Stop
    /\ UNCHANGED <<job_open, worker, epoch, tasks, result_ch, result_open>>

(* Mutant: a NewJob whose tasks capture the epoch before it was bumped. *)
SpawnWithOldEpoch ==
    /\ worker = "running"
    /\ job_ch # <<>>
    /\ Head(job_ch).cmd = "NewJob"
    /\ job_ch' = Tail(job_ch)
    /\ epoch' = NextEpoch
    /\ slot' = Head(job_ch)
    /\ tasks' = tasks \cup Spawned(epoch, Head(job_ch).work)
    /\ UNCHANGED <<job_open, worker, result_ch, result_open>>

(* Mutant: a NewJob that leaves the epoch alone. *)
SpawnWithoutBump ==
    /\ worker = "running"
    /\ job_ch # <<>>
    /\ Head(job_ch).cmd = "NewJob"
    /\ job_ch' = Tail(job_ch)
    /\ slot' = Head(job_ch)
    /\ tasks' = tasks \cup Spawned(epoch, Head(job_ch).work)
    /\ UNCHANGED <<job_open, worker, epoch, result_ch, result_open>>

worker_new_job ==
    /\ worker = "running"
    /\ job_ch # <<>>
    /\ Head(job_ch).cmd = "NewJob"
    /\ job_ch' = Tail(job_ch)
    /\ epoch' = NextEpoch
    /\ slot' = Head(job_ch)
    /\ tasks' = tasks \cup Spawned(NextEpoch, Head(job_ch).work)
    /\ UNCHANGED <<job_open, worker, result_ch, result_open>>

worker_stop ==
    /\ worker = "running"
    /\ job_ch # <<>>
    /\ Head(job_ch) = Stop
    /\ job_ch' = Tail(job_ch)
    /\ epoch' = NextEpoch
    /\ slot' = Stop
    /\ UNCHANGED <<job_open, worker, tasks, result_ch, result_open>>

(* recv() returns None once the sender is gone and the channel is empty. *)
worker_exit ==
    /\ worker = "running"
    /\ job_ch = <<>>
    /\ ~job_open
    /\ worker' = "exited"
    /\ UNCHANGED <<job_ch, job_open, epoch, slot, tasks, result_ch, result_open>>

-----------------------------------------------------------------------------
(* mine_job. *)

(* Mutant: the load is hoisted out of the loop. *)
HoistedLoad(t) == {t.ep}

(* What a Relaxed load of the epoch may return to task t.  Loads of one    *)
(* atomic never go backwards, and t was spawned after its own epoch was    *)
(* stored; a later store may not be visible to t yet.                      *)
EpochLoads(t) == t.ep .. epoch

Replace(t, u) == (tasks \ {t}) \cup {u}

(* Mutant: the loop compares for "no newer epoch" the wrong way round. *)
StopsOnItsOwnEpoch(t) ==
    /\ t.pc = "loop"
    /\ t.ep \in EpochLoads(t)
    /\ tasks' = tasks \ {t}
    /\ UNCHANGED <<job_ch, job_open, worker, epoch, slot, result_ch, result_open>>

(* The load returns another epoch: the task returns. *)
task_stop(t) ==
    /\ t.pc = "loop"
    /\ \E e \in EpochLoads(t) : e # t.ep
    /\ tasks' = tasks \ {t}
    /\ UNCHANGED <<job_ch, job_open, worker, epoch, slot, result_ch, result_open>>

(* The load returns the task's epoch, and the header it hashes meets the   *)
(* target.                                                                 *)
task_find(t) ==
    /\ t.pc = "loop"
    /\ t.ep \in EpochLoads(t)
    /\ tasks' = Replace(t, [t EXCEPT !.pc = "found"])
    /\ UNCHANGED <<job_ch, job_open, worker, epoch, slot, result_ch, result_open>>

(* Mutant: the report does not wait for room. *)
SendWithoutRoom(t) ==
    /\ t.pc = "found"
    /\ result_ch' = IF result_open THEN Append(result_ch, t.work) ELSE result_ch
    /\ tasks' = Replace(t, [t EXCEPT !.pc = "loop"])
    /\ UNCHANGED <<job_ch, job_open, worker, epoch, slot, result_open>>

(* blocking_send returns: the report is queued, or miner_rx is gone and    *)
(* the error is ignored.  It waits while the channel is full.              *)
task_send(t) ==
    /\ t.pc = "found"
    /\ \/ /\ result_open
          /\ Len(result_ch) < ResultCap
          /\ result_ch' = Append(result_ch, t.work)
       \/ /\ ~result_open
          /\ UNCHANGED result_ch
    /\ tasks' = Replace(t, [t EXCEPT !.pc = "loop"])
    /\ UNCHANGED <<job_ch, job_open, worker, epoch, slot, result_open>>

-----------------------------------------------------------------------------
Worker == worker_new_job \/ worker_stop \/ worker_exit

Mining ==
    \E t \in tasks : task_find(t) \/ task_send(t) \/ task_stop(t)

(* Any manager: it sends what it likes and returns when it likes. *)
Manager ==
    \/ \E c \in Command : send_command(c)
    \/ recv_result
    \/ drop_job_tx
    \/ drop_channels

OpenNext == Worker \/ Mining \/ Manager

(* The miner under any manager.  What is proved is proved of OpenSpec.     *)
OpenSpec == Init /\ [][OpenNext]_vars

(* Nothing is left to do once the manager, the worker and the tasks are gone. *)
Terminated ==
    /\ ~job_open
    /\ ~result_open
    /\ worker = "exited"
    /\ tasks = {}
    /\ UNCHANGED vars

(* For TLC: a manager that sends at most MaxCommands commands. *)
BoundedManager == Manager /\ epoch + Len(job_ch') <= MaxCommands

Next == Worker \/ Mining \/ BoundedManager \/ Terminated

Spec == Init /\ [][Next]_vars

(***************************************************************************)
(* Fairness.  The async runtime polls a ready run_worker; a mining thread  *)
(* is scheduled, so a report that has room is sent; and a store to the     *)
(* epoch becomes visible to threads that keep loading it, though not at    *)
(* once, which is strong fairness of task_stop.  The manager gets no       *)
(* fairness: nothing makes the pool, and so the manager, move.             *)
(***************************************************************************)
WorkerFairness == WF_vars(Worker)

MiningFairness ==
    /\ SF_vars(\E t \in tasks : task_stop(t))
    /\ WF_vars(\E t \in tasks : task_send(t))

FairSpec == Spec /\ WorkerFairness /\ MiningFairness

-----------------------------------------------------------------------------
TypeOK ==
    /\ job_ch \in Seq(Command)
    /\ Len(job_ch) <= JobCap
    /\ job_open \in BOOLEAN
    /\ worker \in {"running", "exited"}
    /\ epoch \in Nat
    /\ slot \in Command
    /\ tasks \subseteq Task
    /\ result_ch \in Seq(Work)
    /\ Len(result_ch) <= ResultCap
    /\ result_open \in BOOLEAN

(***************************************************************************)
(* One job is mined at a time: a task whose epoch is the current one works *)
(* on the job of the last command, the tasks of one epoch share one job,   *)
(* a thread runs once in it, and no task is ahead of the epoch.            *)
(* (run_worker: "each NewJob/Stop bumps the epoch. A mining task only runs *)
(* while its captured epoch matches.")                                     *)
(***************************************************************************)
OneJobPerEpoch ==
    /\ \A t \in tasks :
          /\ t.ep <= epoch
          /\ t.ep = epoch => slot = NewJob(t.work)
    /\ \A t, u \in tasks :
          t.ep = u.ep => /\ t.work = u.work
                         /\ t.th = u.th => t = u

(***************************************************************************)
(* The current job is never abandoned: while the epoch stays, each of its  *)
(* tasks stays, whatever the channels do.                                  *)
(***************************************************************************)
CurrentJobKeepsRunning ==
    [][\A t \in tasks :
          t.ep = epoch /\ epoch' = epoch
             => \E u \in tasks' : u.ep = t.ep /\ u.th = t.th]_vars

(***************************************************************************)
(* An old job never resumes: once a job's epoch is over and a thread of it *)
(* has returned, no task of that epoch and thread appears again            *)
(* (ROADMAP.md: "old jobs must never resume").                             *)
(***************************************************************************)
OldJobsNeverResume ==
    [][\A u \in tasks' :
          (\E t \in tasks : t.ep = u.ep /\ t.th = u.th) \/ u.ep > epoch]_vars

(***************************************************************************)
(* An old job stops hashing: when a command has ended an epoch, every task *)
(* of it eventually returns, or is parked in blocking_send for good        *)
(* because the manager has stopped draining a full result channel.         *)
(***************************************************************************)
OldJobsQuiesce ==
    \A e \in 0..MaxCommands :
        epoch > e ~> [](\A t \in tasks : t.ep = e => t.pc = "found")
=============================================================================
