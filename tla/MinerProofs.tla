---------------------------- MODULE MinerProofs ----------------------------
(***************************************************************************)
(* What Miner promises for every number of threads, every work and every   *)
(* channel capacity.                                                       *)
(***************************************************************************)
EXTENDS Miner, TLAPS

(* The bound of the checked instances only removes behaviours. *)
THEOREM BoundedIsOpen == Spec => OpenSpec
<1>1. [Next]_vars => [OpenNext]_vars
  BY DEF Next, OpenNext, BoundedManager, Terminated
<1> QED BY <1>1, PTL DEF Spec, OpenSpec

(* A command is a Stop or a NewJob, and the two can be told apart. *)
LEMMA CommandKinds ==
    ASSUME NEW c \in Command
    PROVE  /\ c.cmd \in {"Stop", "NewJob"}
           /\ c.cmd = "NewJob" => c.work \in Work /\ c = NewJob(c.work)
           /\ c # Stop => c.cmd = "NewJob"
BY DEF Command, Stop, NewJob

(* Spawned tasks belong to the given epoch and work. *)
LEMMA SpawnedTasks ==
    ASSUME NEW e \in Nat, NEW w \in Work
    PROVE  /\ Spawned(e, w) \subseteq Task
           /\ \A t \in Spawned(e, w) : t.ep = e /\ t.work = w /\ t.pc = "loop"
           /\ \A t, u \in Spawned(e, w) : t.th = u.th => t = u
BY DEF Spawned, Task

(* What a step of a task changes. *)
LEMMA ReplacedTask ==
    ASSUME NEW t \in Task, NEW p \in {"loop", "found"}
    PROVE  LET u == [t EXCEPT !.pc = p]
           IN  u \in Task /\ u.ep = t.ep /\ u.th = t.th /\ u.work = t.work
BY DEF Task

-----------------------------------------------------------------------------
(* Every step keeps the types. *)
LEMMA TypeStep == TypeOK /\ [OpenNext]_vars => TypeOK'
<1> USE MinerAssumption
<1> SUFFICES ASSUME TypeOK, [OpenNext]_vars PROVE TypeOK'
  OBVIOUS
<1> USE DEF TypeOK
<1>1. CASE worker_new_job
  <2>1. Head(job_ch) \in Command /\ Tail(job_ch) \in Seq(Command)
    BY <1>1 DEF worker_new_job
  <2>2. Len(Tail(job_ch)) <= JobCap
    BY <1>1 DEF worker_new_job
  <2>3. Head(job_ch).work \in Work
    BY <2>1, <1>1, CommandKinds DEF worker_new_job
  <2>4. Spawned(epoch + 1, Head(job_ch).work) \subseteq Task
    BY <2>3, SpawnedTasks
  <2> QED BY <1>1, <2>1, <2>2, <2>4 DEF worker_new_job, NextEpoch
<1>2. CASE worker_stop
  <2>1. Tail(job_ch) \in Seq(Command) /\ Len(Tail(job_ch)) <= JobCap
    BY <1>2 DEF worker_stop
  <2> QED BY <1>2, <2>1 DEF worker_stop, NextEpoch, Command
<1>3. CASE worker_exit
  BY <1>3 DEF worker_exit
<1>4. CASE Mining
  <2>1. PICK t \in tasks : task_find(t) \/ task_send(t) \/ task_stop(t)
    BY <1>4 DEF Mining
  <2>2. t \in Task
    OBVIOUS
  <2>3. CASE task_find(t)
    BY <2>2, <2>3, ReplacedTask DEF task_find, Replace
  <2>4. CASE task_send(t)
    <3>1. tasks' \subseteq Task
      BY <2>2, <2>4, ReplacedTask DEF task_send, Replace
    <3>2. result_ch' \in Seq(Work) /\ Len(result_ch') <= ResultCap
      <4>1. CASE result_open
        <5>1. result_ch' = Append(result_ch, t.work) /\ Len(result_ch) < ResultCap
          BY <2>4, <4>1 DEF task_send
        <5>2. t.work \in Work
          BY <2>2 DEF Task
        <5> QED BY <5>1, <5>2
      <4>2. CASE ~result_open
        BY <2>4, <4>2 DEF task_send
      <4> QED BY <4>1, <4>2
    <3> QED BY <2>4, <3>1, <3>2 DEF task_send
  <2>5. CASE task_stop(t)
    BY <2>5 DEF task_stop
  <2> QED BY <2>1, <2>3, <2>4, <2>5
<1>5. CASE Manager
  <2>1. ASSUME NEW c \in Command, send_command(c) PROVE TypeOK'
    <3>1. job_ch' \in Seq(Command) /\ Len(job_ch') <= JobCap
      BY <2>1 DEF send_command
    <3> QED BY <2>1, <3>1 DEF send_command
  <2>2. CASE recv_result
    <3>1. result_ch' \in Seq(Work) /\ Len(result_ch') <= ResultCap
      BY <2>2 DEF recv_result
    <3> QED BY <2>2, <3>1 DEF recv_result
  <2>3. CASE drop_job_tx
    BY <2>3 DEF drop_job_tx
  <2>4. CASE drop_channels
    <3>1. <<>> \in Seq(Work) /\ Len(<<>>) <= ResultCap
      OBVIOUS
    <3> QED BY <2>4, <3>1 DEF drop_channels
  <2> QED BY <1>5, <2>1, <2>2, <2>3, <2>4 DEF Manager
<1>6. CASE UNCHANGED vars
  BY <1>6 DEF vars
<1> QED BY <1>1, <1>2, <1>3, <1>4, <1>5, <1>6 DEF OpenNext, Worker

(* The variables keep their types, and neither channel exceeds its         *)
(* capacity.                                                               *)
THEOREM TypeCorrect == OpenSpec => []TypeOK
<1>1. Init => TypeOK
  BY MinerAssumption DEF Init, TypeOK, Command
<1>2. QED BY <1>1, TypeStep, PTL DEF OpenSpec

-----------------------------------------------------------------------------
(* A step that replaces one task by itself at another point, or drops it,  *)
(* and leaves the epoch and the slot alone, keeps OneJobPerEpoch.          *)
LEMMA TaskStepKeepsOneJob ==
    ASSUME TypeOK, OneJobPerEpoch, NEW t \in tasks, NEW p \in {"loop", "found"},
           tasks' = Replace(t, [t EXCEPT !.pc = p]),
           UNCHANGED <<epoch, slot>>
    PROVE  OneJobPerEpoch'
<1> DEFINE u == [t EXCEPT !.pc = p]
<1>1. t \in Task
  BY DEF TypeOK
<1>2. u.ep = t.ep /\ u.th = t.th /\ u.work = t.work
  BY <1>1, ReplacedTask
<1>3. tasks' = (tasks \ {t}) \cup {u}
  BY DEF Replace
<1> HIDE DEF u
<1> QED BY <1>2, <1>3 DEF OneJobPerEpoch

(* OneJobPerEpoch is inductive with the types. *)
LEMMA OneJobStep ==
    TypeOK /\ OneJobPerEpoch /\ [OpenNext]_vars => OneJobPerEpoch'
<1> SUFFICES ASSUME TypeOK, OneJobPerEpoch, [OpenNext]_vars PROVE OneJobPerEpoch'
  OBVIOUS
<1>1. CASE worker_new_job
  <2> DEFINE w == Head(job_ch).work
  <2>1. Head(job_ch) \in Command /\ Head(job_ch).cmd = "NewJob"
    BY <1>1 DEF worker_new_job, TypeOK
  <2>2. w \in Work /\ Head(job_ch) = NewJob(w)
    BY <2>1, CommandKinds
  <2>3. /\ epoch' = epoch + 1
        /\ slot' = NewJob(w)
        /\ tasks' = tasks \cup Spawned(epoch + 1, w)
    BY <1>1, <2>2 DEF worker_new_job, NextEpoch
  <2>4. /\ \A t \in Spawned(epoch + 1, w) : t.ep = epoch + 1 /\ t.work = w
        /\ \A t, u \in Spawned(epoch + 1, w) : t.th = u.th => t = u
    BY <2>2, SpawnedTasks DEF TypeOK
  <2>5. \A t \in tasks : t.ep \in Nat /\ t.ep <= epoch
    BY DEF TypeOK, Task, OneJobPerEpoch
  <2>6. epoch \in Nat
    BY DEF TypeOK
  <2> HIDE DEF w
  <2>7. ASSUME NEW t \in tasks' PROVE t.ep <= epoch' /\ (t.ep = epoch' => slot' = NewJob(t.work))
    BY <2>3, <2>4, <2>5, <2>6
  <2>8. ASSUME NEW t \in tasks', NEW u \in tasks', t.ep = u.ep
        PROVE  t.work = u.work /\ (t.th = u.th => t = u)
    <3>1. CASE t \in tasks /\ u \in tasks
      BY <2>8, <3>1 DEF OneJobPerEpoch
    <3>2. CASE t \notin tasks \/ u \notin tasks
      BY <2>3, <2>4, <2>5, <2>6, <2>8, <3>2
    <3> QED BY <3>1, <3>2
  <2> QED BY <2>7, <2>8 DEF OneJobPerEpoch
<1>2. CASE worker_stop
  <2>1. epoch' = epoch + 1 /\ UNCHANGED tasks /\ epoch \in Nat
    BY <1>2 DEF worker_stop, NextEpoch, TypeOK
  <2>2. \A t \in tasks : t.ep \in Nat
    BY DEF TypeOK, Task
  <2> QED BY <2>1, <2>2 DEF OneJobPerEpoch
<1>3. CASE Mining
  <2>1. PICK t \in tasks : task_find(t) \/ task_send(t) \/ task_stop(t)
    BY <1>3 DEF Mining
  <2>2. CASE task_find(t)
    BY <2>2, TaskStepKeepsOneJob DEF task_find
  <2>3. CASE task_send(t)
    BY <2>3, TaskStepKeepsOneJob DEF task_send
  <2>4. CASE task_stop(t)
    BY <2>4 DEF task_stop, OneJobPerEpoch
  <2> QED BY <2>1, <2>2, <2>3, <2>4
<1>4. CASE worker_exit \/ Manager \/ UNCHANGED vars
  <2>1. UNCHANGED <<epoch, slot, tasks>>
    BY <1>4 DEF worker_exit, Manager, send_command, recv_result, drop_job_tx,
                drop_channels, vars
  <2> QED BY <2>1 DEF OneJobPerEpoch
<1> QED BY <1>1, <1>2, <1>3, <1>4 DEF OpenNext, Worker

(* One job is mined at a time, by at most one task per thread.             *)
THEOREM OneJobAtATime == OpenSpec => []OneJobPerEpoch
<1>1. Init => OneJobPerEpoch
  BY DEF Init, OneJobPerEpoch
<1>2. QED BY <1>1, TypeCorrect, OneJobStep, PTL DEF OpenSpec

-----------------------------------------------------------------------------
(* While the epoch stays, none of its tasks returns: the load of the epoch *)
(* can only return the task's own epoch.                                   *)
THEOREM CurrentJobIsKept == OpenSpec => CurrentJobKeepsRunning
<1>1. TypeOK /\ [OpenNext]_vars =>
          \A t \in tasks :
              t.ep = epoch /\ epoch' = epoch
                 => \E u \in tasks' : u.ep = t.ep /\ u.th = t.th
  <2> SUFFICES ASSUME TypeOK, [OpenNext]_vars,
                      NEW t \in tasks, t.ep = epoch, epoch' = epoch
               PROVE  \E u \in tasks' : u.ep = t.ep /\ u.th = t.th
    OBVIOUS
  <2>1. t \in Task /\ epoch \in Nat
    BY DEF TypeOK
  <2>2. CASE worker_new_job \/ worker_stop
    BY <2>1, <2>2 DEF worker_new_job, worker_stop, NextEpoch
  <2>3. CASE Mining
    <3>1. PICK s \in tasks : task_find(s) \/ task_send(s) \/ task_stop(s)
      BY <2>3 DEF Mining
    <3>2. s \in Task
      BY DEF TypeOK
    <3>3. CASE s # t
      BY <3>1, <3>3 DEF task_find, task_send, task_stop, Replace
    <3>4. CASE s = t
      <4>1. ~task_stop(t)
        BY <2>1 DEF task_stop, EpochLoads
      <4>2. \E p \in {"loop", "found"} : [t EXCEPT !.pc = p] \in tasks'
        BY <3>1, <3>4, <4>1 DEF task_find, task_send, Replace
      <4> QED BY <2>1, <4>2, ReplacedTask
    <3> QED BY <3>3, <3>4
  <2>4. CASE worker_exit \/ Manager \/ UNCHANGED vars
    BY <2>4 DEF worker_exit, Manager, send_command, recv_result, drop_job_tx,
                drop_channels, vars
  <2> QED BY <2>2, <2>3, <2>4 DEF OpenNext, Worker
<1>2. QED BY <1>1, TypeCorrect, PTL DEF OpenSpec, CurrentJobKeepsRunning

(* A task that appears is one that was there, or one of a later epoch.     *)
THEOREM OldJobsStayGone == OpenSpec => OldJobsNeverResume
<1>1. TypeOK /\ [OpenNext]_vars =>
          \A u \in tasks' :
              (\E t \in tasks : t.ep = u.ep /\ t.th = u.th) \/ u.ep > epoch
  <2> SUFFICES ASSUME TypeOK, [OpenNext]_vars, NEW u \in tasks', u \notin tasks
               PROVE  (\E t \in tasks : t.ep = u.ep /\ t.th = u.th) \/ u.ep > epoch
    OBVIOUS
  <2>1. epoch \in Nat /\ tasks \subseteq Task
    BY DEF TypeOK
  <2>2. CASE worker_new_job
    <3>1. Head(job_ch) \in Command /\ Head(job_ch).cmd = "NewJob"
      BY <2>2 DEF worker_new_job, TypeOK
    <3>2. Head(job_ch).work \in Work
      BY <3>1, CommandKinds
    <3>3. u \in Spawned(epoch + 1, Head(job_ch).work)
      BY <2>2 DEF worker_new_job, NextEpoch
    <3>4. u.ep = epoch + 1
      BY <2>1, <3>2, <3>3, SpawnedTasks
    <3> QED BY <2>1, <3>4
  <2>3. CASE Mining
    <3>1. PICK t \in tasks : task_find(t) \/ task_send(t) \/ task_stop(t)
      BY <2>3 DEF Mining
    <3>2. \E p \in {"loop", "found"} : u = [t EXCEPT !.pc = p]
      BY <3>1 DEF task_find, task_send, task_stop, Replace
    <3> QED BY <2>1, <3>2, ReplacedTask
  <2>4. CASE worker_stop \/ worker_exit \/ Manager \/ UNCHANGED vars
    BY <2>4 DEF worker_stop, worker_exit, Manager, send_command, recv_result,
                drop_job_tx, drop_channels, vars
  <2> QED BY <2>2, <2>3, <2>4 DEF OpenNext, Worker
<1>2. QED BY <1>1, TypeCorrect, PTL DEF OpenSpec, OldJobsNeverResume
=============================================================================
